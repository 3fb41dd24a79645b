# Verification of Forge (MCPDetonator)

Forge runs an untrusted MCP server in a container, records what it does, and
turns the record into evidence that a reader can trust. These modules model the
parts of it where that trust depends on *order* (what is durable before what,
what may still happen after a timeout, what one failing step leaves behind, who
may use a capability a second time) and the parts where it depends on two
pieces of code *agreeing* (a writer and its schema, a rule and a comparison, an
estimate and the compiler it estimates).

Paths in this file are relative to the program, `src/src/` in `PROJECT.json`
and in the modules' headers; `docs/` and `PROJECT_MEMORY.md` are beside it.

## 1. The system

### Components, state, operations

| Component | Source | State | Operations | Hard behaviour |
| --- | --- | --- | --- | --- |
| Recording transport | `mcp/stdio.ts` 129–498 | accepted messages, record queue, wire, armed call, abort and close flags | `armSingleToolCall`, `send`, the callbacks of `start`, `abort`, `close`, `flush` | callbacks between awaits, a failed append, close against abort, deadlines |
| Detonation of one server | `mcp/stdio.ts` 566–933 | phases, trace files, transport | `runMcpExperiment`, `inPhase` | precedence of errors |
| Container | `sandbox/docker.ts`, `profile.ts` | the daemon's container of a managed name | `docker run`, `removeManagedContainer` | killed clients, late creates, names reused |
| Analysis | `analyze.ts`, `analyze-command.ts`, `cli.ts` | run directory, prepared tree, run.json | `analyzeTarget` | any stage fails, and so does its clean-up |
| Target preparation, install lifecycle | `target/prepare.ts`, `install/` | npm containers, prepared directory | `prepareTarget`, `runNpmInstall`, `observeInstallLifecycle` | timeout against exit, two removals |
| Trace observation | `observe/` | none in the code; a kernel's in the model | parse, normalise, capture, compare, summarise | killed tracer, shared descriptors, limits |
| Catalog and interface claims | `mcp/catalog.ts`, `interface-claims.ts` | none | bounded scan | five budgets at once |
| Attribution, rules, comparison, report | `attribute.ts`, `rules.ts`, `behavior-comparison.ts`, `report.ts`, `contracts/v1.ts` | none | derive findings and rows, parse them again | one fact derived several ways |
| Controlled run | `audit/v2/controlled-runner.ts` | permit, tree, resources, container, two evidence files | `runControlledOutcomeExperiment` | many awaits, each with its duty to clean up |
| Controlled authority | `controlled-proposal.ts`, `controlled-authority.ts`, `reference-monitor.ts` | reviews, permits, consumed executions | issue and consume a review, a permit; claim, revalidate | replay, expiry at three clocks, substitution |
| Enrolled run and authority | `audit/v2/enrolled-*.ts` | enrollments, reviews, two sessions, evidence | as the controlled ones, with a discovery before | claim before validation, rejection, disposal |
| Experiment contracts | `audit/v2/compile.ts`, `policy.ts`, `outcome-comparison.ts`, `contracts/v2/` | none | compile a plan, compare an outcome | writer against schema, limits |
| Agent proposals | `audit/v2/agent-proposal.ts` | none | prepare, examine, select | a second version of the compiler's rules |
| Agent trial | `agent/` | turns, calls, deadlines, quota, session | loop, runner, session, quota monitor, clean-up | limits together, deadline against dispatch |
| Publication | `publish/publish-run.ts`, `s3.ts`, `postgres.ts` | bucket, ledger rows | `publishVerifiedRun`, `putArtifact`, `putManifest`, `beginPublication`, `finalizePublication` | lost and late PUTs, unheard commits, conflicting editions, retry |
| Dashboard refresh | `dashboard/publish-refresh.ts`, `local-site.ts`, lock in `postgres.ts` | projections, advisory lock, page, receipt | `withDashboardRefreshLock`, `replaceDashboardIndex` | concurrent publishers, two renames, lost session |
| Static analysis, configuration, evidence store, rendering, bundle, scripts | see `PROJECT.json` | none | pure functions, sequential files | see section 6 |

### How they interact

    analyzeTarget --> prepare, lifecycle (npm containers) --> runMcpExperiment per call
        --> trace, snapshots, claims --> attribution, rules, comparison --> report.json

    compile --> plan <-- agent proposals
      |                 enrolled-authority <--revalidate before the call--+
      +--> enrollment --> discovery session --> review --> execution session --> outcome comparison

    controlled-proposal --review--> controlled-authority --permit--> controlled-runner
                                          ^                             |  |
                            reference-monitor <--hook before the call---+  |
    RecordingTransport  <--one armed tools/call, onToolCallSent------------+
    removeManagedContainer  <--after every session, before disposal

    agent runner --> session, quota monitor, loop --> score, report
    run directory --> publish-run --> S3 artifacts, manifest --> Postgres ledger
                                                        --> dashboard refresh

A runner talks to the transport through a hook that is called while the
client's `tools/call` is held back; the authority's answer decides whether it
is sent. Host directories may go only once the container's removal was verified.
Publication starts from the finished run directory; the dashboard refresh is its
last step and may fail without undoing it.

### What makes each component correct

- **Transport**: the transcript is a gap-free prefix of what was accepted;
  nothing is on the wire before it is in the transcript; one armed call, once,
  never after the catalog changed; closing ends, and ends for good. The agent's
  recorder promises less: no gap that nobody was told of.
- **Container**: "verified" means gone, now and later; another run's container
  that an inspection saw stays.
- **Runs**: mounted directories outlive the container; an attempt record proves
  one reviewed, finished, unchanged call; failure and rejection records tell the
  truth about the call and the cleanup; run.json claims no more than was
  observed; every command ends, but for the client of an install that outlives
  its timeout.
- **Authorities**: each capability leads to at most one dispatch, inside every
  window above it, for exactly what was reviewed; refusals are final.
- **Evidence**: a trace that passes as complete accounts for everything; events
  are what the kernel did; a complete delta is the difference of two trees; no
  claim of an interface is missed silently.
- **Conclusions**: attribution is right up to the clock's resolution; rules and
  comparison agree; a report satisfies its schema; more observation never excuses.
- **Plans**: a tighter policy never loosens a plan; compiler and envelope agree;
  what a proposal's examination accepts also compiles (each with the exceptions
  that the code has, named in the modules and in section 5).
- **Publication**: a manifest is only ever beside its artifacts; the ledger says
  published only when everything can be fetched; an identical retry converges.
- **Dashboard**: a reported run is not displaced by an older one; the receipt
  matches the page.
- **Agent trial**: a trial that was cut off is inconclusive; nothing is taken in
  after a quota violation; a published report means clean containers; it ends.

## 2. Modules and how they correspond to the code

Names of actions follow the functions they model; `PROJECT.json` gives the lines.

| Module | Models | An action is |
| --- | --- | --- |
| `RecordingTransport` | class `RecordingTransport` | the code between two awaits, or one callback |
| `McExperiment` | `runMcpExperiment()` | one await of the session, or its failure |
| `ContainerCleanup` | `removeManagedContainer()` and the Docker daemon (external) | one docker command or settlement delay |
| `ControlledRun` (over `ContainerCleanup`) | `runControlledOutcomeExperiment()` | the code between two awaits |
| `EnrolledRun` (over `McExperiment`, `ContainerCleanup`) | `runEnrolledExperiment()` | the same |
| `NpmContainer`, `AnalysisRun` (over `McExperiment`) | the npm containers; `analyzeTarget()` | the same |
| `ControlledAuthority`, `EnrolledAuthority` | the authority files | one synchronous call |
| `RunLedger` | the promise of publishing (abstract) | one change a reader can see |
| `Publication` | `publishVerifiedRun()`, S3 client, ledger; S3 is external | one request, answer, transaction or failure |
| `DashboardRefresh` | a refresh by one of several publishers | one database or file operation |
| `AgentLoop`, `AgentContainers`, `AgentTrial` | loop and policy; the removal loop for two callers; the runner with quota monitor | from one outside answer to the next await |
| `AgentSession` | the agent's recorded session | the code between two awaits |
| `TraceObservation`, `StraceNormalizer` | a kernel and strace (external) with the parser; the normalizer | one system call and its line; reading is one step |
| `FilesystemState` | two captures of the profile and their difference | one directory entry, one limit or failure |
| `InterfaceClaims` | the bounded scan of an interface | one text or node |
| `ObservedBehavior`, `AnalysisReport` | attribution, rules, comparison; health, report and its schema | one effect of a process; then one derivation |
| `ExperimentPlan`, `AgentProposals` | compile, policy, envelope; the examination of candidates | one candidate |
| `OutcomeComparison` | hypothesis, observation, comparison, schema | one effect more |
| `DetonationProofs`, `PlanProofs`, `ReportProofs`, `ContainerCleanupProofs`, `RunProofs`, `AuthorityProofs`, `DashboardProofs`, `AgentTrialProofs` | theorems | |
| `MC*` | the small instances | |

What the modules abstract, beyond hashes (equality of what is hashed):

- **RecordingTransport.** A message is its kind, the canonical parameters of a
  call, its size and whether the JSON bounds accept it. `RecordAppended` runs
  the waiting sender's continuation in the same step: it is registered before
  the next append is chained, so no I/O callback comes between. A failed append
  may still have written its line.
- **McExperiment.** The transport is its interface: recording intact or failed,
  and what the caller was told.
- **ContainerCleanup.** `docker run` is a client; killing it does not recall its
  request. `CreateLag` is the number of settlement delays a request may survive;
  `CreateLag + 1 < Checks` is what the code's three checks tolerate. Another run
  may take the name whenever it is free, and whoever has it may lose it, at any
  time (`NameTaken`, `NameFreed`): so also between the inspection
  (`docker.ts:396`) and `rm --force <name>` (`docker.ts:413`), which names the
  container and not the one inspected. The history variable `taken` tells that
  case apart; in it, and only in it, the loop removes a foreign container.
- **NpmContainer.** Both timeouts send SIGTERM and remove the container, but only
  the acquisition follows it with SIGKILL and settles by force
  (`prepare.ts:514-532`). The lifecycle (`install/lifecycle.ts:324-355`) sends one
  SIGTERM and waits for the client's exit, without a deadline.
- **ControlledRun, EnrolledRun, AnalysisRun.** Trees and resources are intact or
  changed, never back. Each stage's failure is one action. In `EnrolledRun` the
  relay and the validation of one record are steps that may fail. It also shows
  that attempt.json and failure.json may coexist, when the evidence index fails
  after the attempt was written (`enrolled-runner.ts:2119` after `:2114`). In
  `AnalysisRun` the initialization experiment is enabled, and the comment at
  `prepare.ts:541` (the second removal meets a settled client) holds when the
  client ended by itself.
- **Authorities.** Callers pass any clock, so time is an argument. The WeakMaps
  are functions of capability names; a forged object is in none. Registering an
  enrollment issues a fresh capability at every call, so one enrollment may have
  several, each with its own review and dispatch (`EnrollmentOf`).
- **Publication, DashboardRefresh.** A PUT in flight stays so until the store
  serves or loses it, whether or not its client lives. A ledger transaction is a
  step; its client may not hear of the commit. Page and receipt stand for the
  set of runs they were rendered from. Runs are numbered in completion order.
- **AgentTrial, AgentSession.** A scan of the quota finds a violation or fails.
  Message contents are sizes. Messages that arrive after the close's last flush
  (the library's close may return before the process ended) are outside the
  claim; a phase record that was not appended to the file stays in memory.
- **TraceObservation.** Each family of system calls is one or two members; paths
  are inside or outside the relevant prefixes. Timestamps are strictly
  increasing, paths lexical, a succeeded open is always annotated, clone lines
  are atomic, process ids are not reused; an `exit_group` by a thread that is
  not the leader, and execve superseding threads, only degrade the trace.
- **FilesystemState.** The profile is quiescent during a capture; at most one
  issue per position. A file above the hash limit and special objects leave a
  snapshot "complete", as the code documents; content is then not compared.
- **InterfaceClaims.** A text is its length and, for each claim, the prefix that
  shows it; which words do so is left out.
- **ObservedBehavior, AnalysisReport.** Experiments run one after the other on a
  millisecond clock. Wording, limitations and single-record schemas are left out.
- **ExperimentPlan, AgentProposals.** A digest that does not match is in
  `drifted`. The bytes, nodes and characters of an argument are sums of weights,
  one per kind of node and measure (`Weight`). There are two kinds of synthetic
  path, the compiler's of 58 characters and the shorter one of 50 with which a
  proposal is judged: they weigh differently, and schemas (`Conforms`) and
  argument rules may tell them apart. Of the limits on one argument, the one on
  bytes stands for those on nodes and characters. What a plan has besides its
  cases and its resource manifest is a constant weight. Operators of argument
  rules are membership (`values`); that equality is compared in canonical form,
  within a budget, is kept. The remaining limits of a rule are `files`; bounds
  before planning and reasons of refusals are left out.
- **OutcomeComparison.** An effect is its kind, selector and one amount for
  operations, bytes and runtime. A capture has its own limit, which need not be
  the plan's.
- **StraceNormalizer.** The code looks for the name of an address family in a
  call's whole argument text. A record therefore has the annotation of its
  descriptor and, apart from it, the family that the rest says (`says`): a
  payload or a socket's path may name one.

## 3. Runs

Components that share no state share a run: the MC module has a variable
(`command`, `subject`, `half`) that picks the one a behaviour is about, and the
others keep a fixed initial state. A behaviour of the composition is one of its
part, so that invariants and fairness are those of each part alone.

| Run | Parts and bounds | Shows |
| --- | --- | --- |
| `detonation` | transport: 2 sends, 2 parameters, 3 entries, 5 bytes; agent session: 4 messages, 5 bytes, 2 phases; interfaces of 3 tools, 5 nodes, 4 levels; profiles of 7 objects under 7 settings of the limits | `TranscriptGapFree`, `WriteAhead`, `SingleGuardedCall`, `CleanCloseIsComplete`, `NoDispatchAfterCatalogChange`, `ClosedIsFinal`, `CloseSettles`; `AgentTranscriptSound`; `NothingMissedSilently`; `DeltaSound` |
| `controlled` | controlled run: 3 checks, lag 1, the container's name changing hands at any time; publication: 2 publishers, 2 editions sharing an artifact | `InputsOutliveContainer`, `AttemptIsConclusive`, `FailureRecordTruthful`, `VerifiedMeansGone`, `ForeignKept`, `RunSettles`; `RetryConverges` |
| `capabilities` | publication: 2 publishers, 2 conflicting editions; refresh: 2 publishers, 3 runs, a page of 2; controlled authority: 1 review, 2 permits, instants 0–3; enrolled: 1 enrollment registered twice (2 capabilities), 2 presentations, instants 0–4 | `StoredBeforeNamed`, `LedgerPromise` (refinement of `RunLedger`); `RefreshSound`; `LinksUsedOnce`, `DispatchAsReviewed`; `EnrolledReceiptsSound` |
| `commands` | analysis with 1 call; enrolled run; 3 checks, lag 1; comparison of 3 effects under pairs of overlapping rules; plans over 10 argument trees and 12 rule sets, submissions of up to 3 candidates; two kinds of path of different weight, and budgets of bytes, nodes, characters, predicates and compared bytes that some of the case and rule sets exhaust | `AnalysisSound`, `RecordsSound`, `CommandEnds`; `ComparisonSound`, `NeverExcused`; `PlansSound`, `ProposalsSound` |
| `evidence` | traces of 5 lines by 2 threads, with payloads and socket paths that name AF_UNIX or AF_NETLINK; reports over 2 experiments, 2 acts, 12 effects, one tie of the clock | `HealthyTraceAccountsForAll`, `EventsMatchKernel`; `AttributionSound`, `FindingsAgree`, `ReportAccepted` |
| `agent_trial` | 2 trials (one per mode), 2 turns, 2 calls, a deadline anywhere, 2 overlapping removals | `CleanupsSound`, `ConclusiveMeansFinished`, `ScoreIsContained`, `QuotaStopsTrial`, `EvaluationEnds` |
| `controlled_run_cleanup_file`, `dashboard_refresh_lost_session`, `agent_worker_cleanup`, `enrolled_inputs`, `comparison_refused`, `finding_ids` | as the run of the same part | the findings of section 5, each a violation |

**Why the bounds are enough.** Two senders are the least that overlap; three
entries let both limits be hit with a record queued in front, and the byte limit
is reached exactly by sizes one and two. Two publishers of conflicting editions
share one digest, so that the conditional-PUT conflict and the ledger conflict
both occur. Two permits (or presentations) compete for one review. Four instants
give each of three windows a start and an end inside another. Three runs on a
page of two force the oldest out. Checks and lag are the code's. Five trace
lines make a socket, bind it, hand it to a thread or a duplicate, and use it;
of the calls that are in the model for one branch each, a trace has at most
one, and the tracer is killed early or at the end. Two turns and two calls let
every limit of a trial be met with and before another. Each budget of the
claims' scan is met first by some interface. Two rules that overlap, with every
decision and limit, are what one effect more can play off against each other.
One enrollment under two capabilities shows what is single use per capability
and what per enrollment. Each budget of a plan is exhausted by some case or rule
set and not by a smaller one, and `mixed` arguments are within the bound with the
path that is judged and beyond it with the one that is compiled.
Four restrictions in the MC modules keep state spaces small and are explained
there: the agent's server speaks once it was spoken to and only the first
message is large; after an incomplete capture the other one is taken without
failures; a third candidate is from one group and follows one that was
submitted twice, as it is beyond the maximum; and in `commands` a container's
name changes hands only between an inspection and its removal, while in
`controlled` it does at any moment.
Symmetry is used over permits, publishers and presentations in `capabilities`,
whose properties are safety only.

Deadlock checking is off where the system really stops (a closed transport, a
finished command, a spent set of capabilities), and on for
`dashboard_refresh_lost_session`.

**Fairness.**

- Transport: an append returns or fails; the two deadlines of
  `closeResources()` fire; `inner.close()` returns, because it ends in SIGKILL.
  None for the child or the senders.
- Runs and analysis: each await of the controller settles (sessions, commands
  and containers have deadlines; file operations return or fail); the daemon
  serves or drops a request. None for the target process: `RunSettles` and
  `CommandEnds` hold when it never answers. None for the name of a container,
  which need never change hands. The client of an npm container exits when the
  daemon refused or lost its container; one that was killed need not exit, but
  an acquisition takes it as gone (`ClientMustEnd`). A lifecycle does not:
  `CommandEnds` admits that it waits for ever for a client whose container could
  not be removed (`ClientOutlives`).
- Publication: a live publisher goes on, the store serves what it got. Strong
  fairness of the identical retry states the premise of the documentation's
  claim, an operator who keeps trying after faults end (`calm`).
- Agent trial: something the runner, the monitor or a removal waits for arrives
  (`Progress`); the model and the tools may be slow until the deadline.

## 4. Proofs

All theorems hold for every value of the constants under the named assumption of
their module. Each component has one inductive invariant; TLC checked it on the
instance of the component's run before it was proved.

- **`DetonationProofs`**, of `RecordingTransport`: `TypeCorrect`, then one
  invariant `IInv` (`Inductive`) and from it the theorems of the invariants and
  two action properties. None of the properties is inductive. `WriteAhead` needs
  where every send is in its life: a send that waits for its record has exactly
  its own sequence number, above everything settled. `SingleGuardedCall` needs
  the reservation before the wait; `NoDispatchAfterCatalogChange` needs the flag
  to agree with the accepted messages.
  Of `AgentSession`, where records behind a failed one still run: a transcript
  without a failure is whole (`QueueInv`), lines are only added, so what a phase
  or a close found at its flush stays true; `CloseInv` needs that no phase runs
  and no caller is told of a failure once the close has begun.
  Of `InterfaceClaims`: `ClaimsInv` says that a claim behind the scan is in the
  evidence or was told, and that all the scan has not passed is under an open
  loop. A truncation at a child tells of its later siblings too, because
  children are visited in order and the limits that stop a loop do not recede;
  no truncation is ever taken back, so that what was told stays told
  (`NothingMissedHolds`). The counters stay within the budgets of the tools
  seen, which is what the artifact's schema asks. `InterfacesAssumption` says
  what an interface is: a text affirms within its length, only containers have
  children, and these are numbered without a gap.
  Of `FilesystemState`: what a snapshot neither retains nor explains is
  still to come (`Accounts`), under a root or under a name that the walk has left.
  When a limit stops the capture at a position, all that is still to come comes
  after it (`CaptureSettled`), because a directory's least name is taken first and the
  frames further up are past it (`Behind`, kept by `WalkPushed` and `WalkLower`);
  without that order a truncation would explain less than is missing. What is
  read of an object and why not more goes with the entry (`Faithful`, from
  `FileRead` and `LinkRead`). A snapshot without issue or truncation then has the
  whole tree (`CompleteIs`), and `changedAttributes()` tells entries apart exactly
  where the objects differ (`ChangedAreDifferent`). `ProfilesAssumption` says
  that what is in a tree is in a directory of it, `CaptureLimitsAssumption` that
  a limit on entries admits both roots.
- **`ContainerCleanupProofs`**: while a create request is pending, every absence
  after the first was preceded by a delay that the request survived
  (`AbsencesPaid`), so absences never exceed `lag + 1 <= CreateLag + 1 < Checks`.
  `VerifiedMeansGone` follows because the loop cannot reach its count.
  The name changes hands at any moment: `ForeignIsKept` says that a removal takes
  another run's container away only if that run took the name after the
  inspection before it. It needs that while a removal is under way the name is
  foreign only if it was taken since, which every step of the daemon and of the
  name keeps.
- **`RunProofs`**, of `EnrolledRun`: `SessionInv` gives the phases recorded at
  each place of a session in which nothing has failed; `PlaceInv` and `StageInv`
  tie the runner's step to session, removal and stage, since the stage decides
  which of the two branches catches an error. A removal that is called again
  starts over, and `CleanupIInv` of `ContainerCleanupProofs` holds across it, so
  "verified" means the same on every path. `InputsInv` and `RejectionInv` carry
  what may be disposed of and what the rejection will say.
  Of `OutcomeComparison`: a comparison is always the one of its hypothesis,
  result and effects, so `ComparisonSound` is about what `Comparison` computes.
  Every effect keeps its own row (`Rows`), what is weighed against a rule's
  limits only grows with the effects (`LimitsTighten`), and of the schema's
  conditions only two known disagreements can fail (`AcceptedUnlessKnown`): the
  fifth finding, and a capture's own limit that differs from the plan's (section 5).
  `NeverExcused` then is a fact about `Appraise`: an exhausted limit moves an
  effect from a rule that reviews it to "rule_limits_exceeded", where the same
  rule still asks for the review. `ComparisonAssumption` gives the types of the
  parsed inputs; what the observation's schema refuses is the guard `Recordable`.
  Of `AnalysisRun`: a completed manifest ends one path only, and its claims are
  gathered along it, each at the step that settles it (`SetupInv`, `ResultInv`).
  The containers of experiments are gone because the loop verified it
  (`CleanupIInv`), those of npm because the client ended by itself or a removal
  succeeded; a removal that failed is told by the install's record.
- **`PlanProofs`**, of `ExperimentPlan` and `AgentProposals`. Plans are counted:
  the compiler and the examination compare sums over the members of suites with
  limits. The first part proves that the community module's fold over a finite
  set exists, is unique (`SumExists`) and may be taken apart at any member
  (`SumTakesOut`) or expanded by a constant number of pieces per member
  (`SumExpands`). `CompileCaseIs` and `SameCase` say what a case compiles to and
  on which parts of an audit that depends. `PlansSoundHolds` then has four
  parts: a policy with lower limits, a stricter decision or one "allow" rule
  less refuses no less and asks for no lower an approval (`TighterDispatch`,
  from what "deny", a gate and the limits of a rule do to the ranks); the
  mandatory cases compile alone, since every aggregate shrinks with the suite
  (`AloneComposable`); the envelope's schema accepts what the compiler wrote, as
  expansion keeps ids apart and the counts agree (`PiecesCounted`,
  `PiecesSteps`, `EnvelopeHolds`), except for the three refusals that
  `EnvelopeAgrees` names: bytes and nodes fit because the composer's limits are
  lower (`WeightsAssumption`), the characters and the rest of the plan need not;
  and every path is of a class that some rule authorizes.
  `ProposalsSoundHolds` needs an invariant (`ProposalsInv`): the accepted cases
  and their steps, counted as they are accepted, stay within what the
  preparation left; each entry's approval is the evaluation of its candidate in
  the audit, which no step changes; accepted entries differ in id and content.
  What is left is counted in cases before expansion, and a quotient times the
  divisor never exceeds the dividend (`BudgetIs`), so the adopted cases fit the
  plan's bounds. A case is then judged alike alone and in the grown plan
  (`AdoptedCompiles`). It is judged with other paths than it is compiled with.
  The theorem therefore speaks of cases that no schema or rule tells apart by
  them (`PathNeutral`) and, for the direction from accepted to compiled, that
  are within their limit with the longer path (`PathsFit`); the other direction
  needs no such condition, because `WeightsAssumption` says that the path that
  is judged is not the heavier one. `TreesAssumption` says that an argument is a
  finite tree and the limits are numbers; `WeightsAssumption` gives the weights
  and says that the compiler's limits are below the artifact's;
  `AuditsAssumption` gives the types of audits and candidates. None of them says that
  an audit compiles.
- **`ReportProofs`**, of `TraceObservation`, for any number of threads, descriptors
  and lines. Two theorems, of one invariant (`TreeInv`).
  `HealthyTraceHolds`: by cases on the families of calls, a relevant call whose line
  is counted under no gap category (`Silent`, from the order of the categories in
  `GapCategory`) is an event whatever came before it (`Tells`), unless its
  arguments say the name of an address family (`Mistaken`, where the code takes it
  for a local or a netlink call); a call whose line was
  lost leaves a living thread without its end, so the trace is not complete
  (`TraceInv`). The normalizer is a fold over the lines, which
  `LeftUnfolds` takes a line at a time.
  `EventsMatchKernelHolds`: the tables of descriptors that the normalizer keeps are
  shared by the threads exactly as the kernel's are, and the entry of each
  descriptor is that of its socket's bind, unless a call made it unknowable
  (`FollowOK`). For this a bound socket must have had one holder when it was bound,
  which is so until a line tells of a copy. The owner that is derived from the clone
  lines is the thread's leader in the kernel, each process but the root is the
  target of one such line, and each line tells of one call (`RecordsOK`).
  `TraceAssumption` asks for a thread at least.
  Of `ObservedBehavior`: the clock never goes back, so what was
  recorded is ordered as it happened, and an event is told apart by its experiment
  and its number (`EvidenceInvariant`); `AttributionHolds` then compares the times
  the code goes by with the states in which the effects really happened.
  Of `AnalysisReport`: a finding cites exactly the events that its rule is about,
  and of these, rule by rule, the comparison says the same (`FindingsAgreeHolds`).
  `FindingIdsHold` proves the ids unique under the hypothesis that the tool
  experiment is not called "initialization"; the sixth finding is what happens
  without it. `OneScope` says that an operator's scope is one or none, and
  `CallNotReserved` that the id of the baseline is reserved (`config.ts:218`).
  `ReportAcceptedHolds` proves, under the same hypothesis, that the report's schema
  accepts what the writer writes (`AcceptedInv`). Most of it compares two ways of
  deriving a set; three parts compare sums. The totals of the gaps are added by
  experiment and by outcome (`GapsAddUp`), and the events counted by kind are those
  counted by kind and operation (`CountsAgree`). Both need that a sum does not depend
  on the order in which it is taken: the community module's fold is a recursive
  function on subsets, so the module proves that this function exists and is unique
  (`FoldExists`, by `SubsetInduction` from the well-foundedness of strict inclusion),
  then that sums may be split, swapped (`SumsSwap`) and grouped by a key
  (`CountByKey`). `CallIsNoInstall` says that the ids of the installs are reserved
  (`config.ts:221`); `ContextsAssumption` that a static signal is of one capability,
  gaps are counts, and every experiment of the report has a health record.
- **`AuthorityProofs`**, of `ControlledAuthority`: `PermitSound` states what was
  checked when a permit was issued, and `SpendingInv` why it stays true: a
  review is spent by the call that looks at it, so nothing issued or refused
  later can touch a permit's reviews. Claims tell past dispatches from permits
  that may still be refused; without them neither theorem is inductive.
  `AuthorityAssumption` asks that reviews and permits are distinct, as objects
  of two classes are.
  Of `EnrolledAuthority`: while a dispatch waits for its two hashes it is the
  only holder of its capability (`PresentedInv`), because the claim precedes the
  wait; it becomes a receipt or a refusal and no other call with that capability
  can make either. The theorems are per capability: an enrollment that is
  registered twice may be dispatched twice.
  Of `ControlledRun`: the invariant extends the cleanup's, whose lemma is
  reused since each step of the run is a cleanup step or leaves its variables
  alone. `InputsInv` ties the directories to the container, `DisposalInv` orders
  disposal after verification, `MonitorInv` the check before the call,
  `AttemptInv` and `RecordInv` carry what the records claim.
- **`DashboardProofs`**, of `Publication`: whatever may come to stand under a
  key was fit to stand there when it was sent, and being fit is kept, as objects
  and claims are only ever made (`Keeps`). So a PUT may be served at any later
  time, also after its publisher has failed or begun another run.
  `LedgerImplemented` shows the refinement of `RunLedger` step by step: a first
  claim is `Claim`, a first publish `Publish`, an object served `Store`, all
  else leaves the ledger alone.
  Of `DashboardRefresh`: the lock makes its holder the only writer, and both
  pages a refresh may leave, its own or the restored one, cover what was
  reported. `NewestCovers` says that `Newest(S)` drops only what a full page
  outranks. It needs a last element of a finite set, which `MinimalSubset` takes
  from the well-foundedness of strict inclusion. The theorem is of
  `RefreshSpec`, where sessions last: the second finding shows that it fails
  when they do not.
- **`AgentTrialProofs`**: `AgentIInv` joins four parts. `AccountsInv`: the
  proposals of a turn wait in the batch or have their answer, and what stops the
  loop early leaves a mark its end reads. `RemovalInv`: while the create request
  is pending neither of the two overlapping removals has seen more absences than
  delays it survived, so with `CreateLag + 1 < Checks` none is verified before
  the request settles; the quota monitor's removal excludes a later spawn.
  `RunnerInv` and `ResultsInv` carry this over the trials to the report.

**Only model-checked.** The liveness properties (`RunSettles`, `RetryConverges`,
`CloseSettles`, `EvaluationEnds`, `CommandEnds`): the prover does not reason about
fairness and ENABLED. Every other property of a passing run is a theorem. The properties of the
runs that expect a violation are false of the code.

## 5. Findings

1. **A failure record cites a stale `cleanup.json`** (`controlled_run_cleanup_file`).
   On the success path the inputs are disposed of, then the second
   `persistCleanupEvidence()` (`controlled-runner.ts:834`) throws. The catch
   block rewrites the file only while the host status is "pending" (line 1014),
   which it no longer is. `failure.json` then says that the cleanup is verified
   and cites a file whose status is "pending".
2. **The refresh lock does not outlive its session**
   (`dashboard_refresh_lost_session`). The lock is a database lock, the thing it
   protects a local file. A publisher that stalls for more than the session's
   120 s loses the lock unnoticed and may rename an older page over a newer one
   that was reported, against `PROJECT_MEMORY.md:1013`. The next refresh repairs
   it.
3. **A filesystem worker whose removal failed does not stop the evaluation**
   (`agent_worker_cleanup`): `runner.ts:749` turns the fatal error into an
   ordinary tool result; `docs/history/agent-rollout-v1.md:179` calls it fatal.
4. **A failed enrolled run disposes of inputs it should retain**
   (`enrolled_inputs`): `enrolled-runner.ts:2185` is unconditional, the rejection
   branch (2283) is not; failure.json still says that they were retained.
5. **An outcome comparison that its own schema refuses** (`comparison_refused`):
   a deviating effect outweighs an inconclusive dimension in the writer
   (`outcome-comparison.ts:526`), and the reverse in the schema
   (`contracts/v2/outcome-comparison.ts:1241`). `ComparisonSound` shows
   that it is one of two disagreements; the other is observation (c) below.
6. **A tool experiment called `initialization`** (`finding_ids`): the id is not
   reserved (`config.ts:218`), findings of both experiments get the same ids and
   the report is refused as the analysis's last step.

**Observed while modelling, without a run.** Where a property makes an exception
for one of these, it is named here, and TLC refutes the property without it.

- (a) The removal loop inspects a container's label and then removes by name
  (`docker.ts:396`, `413-416`): a container that another run creates under the
  name in between is removed (`ForeignKept`).
- (b) The timeout of an install's lifecycle sends one SIGTERM
  (`install/lifecycle.ts:332`). If the removal fails too, the analysis waits for
  the client as long as the container runs (`CommandEnds`); the acquisition
  forces a settlement (`prepare.ts:514-532`).
- (c) The observation's schema judges a capture's overflow by the capture's own
  `limitBytes` (`contracts/v2/outcome-comparison.ts:335-338`), the comparison's by
  the plan's bound (972-987), so a valid observation with another limit may be
  refused (`ComparisonSound`). The program's own writer
  (`runtime-observation.ts:148-176`) always uses the plan's bound.
- (d) A proposal is judged with paths of 50 characters (`agent-proposal.ts:579-598`)
  and compiled with paths of 58 (`artifacts.ts:188-199`). A byte limit, a tool's
  schema or a prefix rule at that boundary makes an `accepted_novel` case that does
  not compile, or the reverse (`ProposalsSound`: `PathsFit`, `PathNeutral`).
- (e) A candidate may be `accepted_novel` although no plan with it ever compiles,
  because `evaluateCandidate()` asks neither for `maxStepsPerCase` nor for the
  single step of a `tool_call`; `ProposalsSound` therefore speaks of selections
  whose cases have that form, under rules that treat the origins "manual" and
  "agent_proposed" alike, and within the compiler's aggregate limits.
- (f) The comment at `compile.ts:91-95` has the compiler's limits refuse before the
  envelope does. The envelope also bounds the characters of the whole plan
  (`envelope.ts:24-28`), which the composer counts case by case, and the resource
  manifest, which it does not count: `EnvelopeAgrees` names both, and the `tool_call`
  of several steps that only the plan's schema refuses.
- (g) A policy with fewer rules may compile where a policy with more is refused,
  because the compiler bounds the predicates it would evaluate (`policy.ts:314`) and
  the bytes it would compare (`policy.ts:79-82`, `137-146`): `TighterNeverLoosens`
  speaks of rule sets within both bounds.
- (h) A payload or a socket path that contains "AF_UNIX", "AF_LOCAL" or "AF_NETLINK"
  is taken for the address (`strace-normalizer.ts:1545-1555`, `1574-1582`): the call
  is then neither an event nor a gap (`HealthyTraceAccountsForAll`: `Mistaken`).
- (i) An enrollment can be registered any number of times
  (`enrolled-authority.ts:795-837`); what is used once is the capability. The runner
  registers once.
- (j) A trial that took no turn is conclusive (`loop.ts:242`), where
  `docs/history/agent-rollout-v1.md:648` asks for inconclusive. A comparison report
  is refused when the candidates' features exceed 4096 together though each is
  within. Opens, failed execs and listening during the call are outside the scope in
  the comparison but have no rule, and an exec by the server itself is reported by a
  rule although the comparison leaves it out: `FindingsAgree` names these exceptions.

## 6. Not modelled, and why

- **Static analysis** (`static/`): data flow over syntax trees; its state space
  is the program text. It is a step that may fail, and its signals are inputs.
- **Bundle, publication configuration and limits**, **configuration** (but for
  reserved ids), **evidence store**: sequential validation and encoding. A
  completed write is durable in all models: the directory is not synced by
  `evidence-store.ts:104`, and a power failure is below this level.
- **Rendering and export**, **operator scripts and hosting**: text, deployment.
- In modelled components: canonical encoding, strict JSON, the envelope and the
  vocabulary of interface claims, the pagination of `catalog.ts`, the difference
  of the two installs, redaction, utility checks and rates of agent trials, the
  ledger's reading APIs and its migration, `writeCompleteDashboardSite()`.

## 7. Plan

Done: the core, then authorities, runs, agent trial, traces, report, plans and
comparisons, and a theorem for every safety property of a passing run. No module
declares a RECURSIVE operator. Next:

1. The deadline of the static-analysis worker, the pagination of the catalog and
   the difference of the two installs.
