----------------------------- MODULE AgentTrial -----------------------------
(***************************************************************************)
(* evaluateAgentScenario() of src/src/agent/runner.ts: for each policy     *)
(* mode one trial with its own MCP session, target container and quota     *)
(* monitor (resource-quota.ts), the loop of AgentLoop inside it, and a     *)
(* finally block that closes, removes, stops the monitor and records what  *)
(* it could verify; then the aggregate and the report.                     *)
(*                                                                         *)
(* The monitor runs beside the trial: a poll may find the writable state   *)
(* over its quota, or fail, at any time, and then removes the container    *)
(* while the trial's own removal may be running (AgentContainers).         *)
(***************************************************************************)
EXTENDS AgentLoop, AgentContainers

CONSTANTS
  PolicyModes,   (* rollouts.policyModes: one trial for each, in order       *)
  TargetTools,   (* tools of the audited server; the others are Forge's own  *)
  Catalogs,      (* catalogs the server may advertise                        *)
  Approved       (* the one whose metadata hash the operator approved        *)

ASSUME AgentTrialAssumption ==
  PolicyModes \in Seq(Modes) /\ PolicyModes # <<>>

VARIABLES
  pc,            (* where the runner stands                                  *)
  trial,         (* index into PolicyModes                                   *)
  violation,     (* violationError: "none", "measured" or "unverified"       *)
  termination,   (* terminationStatus                                        *)
  polling,       (* the monitor polls                                        *)
  session,       (* "none" or "open"                                         *)
  transport,     (* "ok", or "failed": its terminalError is set              *)
  observed,      (* observedTransportFailure is set                          *)
  catalog,       (* {} or what the live session advertises                   *)
  advertised,    (* {} or the first trial's catalog                          *)
  threw,         (* the try block of the trial threw                         *)
  unclosed,      (* cleanupErrors has a session close                        *)
  scored,        (* scores pushed so far                                     *)
  records,       (* cleanup.json of the trials so far                        *)
  workerLeft     (* history: a filesystem worker's removal was not verified  *)

quotaVars == <<violation, termination, polling>>
sessionVars == <<session, transport, observed, catalog>>
resultVars == <<advertised, scored, records, workerLeft>>
tryVars == <<threw, unclosed>>
vars == <<loopVars, containerVars, pc, trial, quotaVars, sessionVars,
          tryVars, resultVars>>

Init ==
  /\ LoopInit
  /\ ContainersInit
  /\ mode = PolicyModes[1]
  /\ pc = "profile"
  /\ trial = 1
  /\ violation = "none" /\ termination = "not_requested" /\ polling = FALSE
  /\ session = "none" /\ transport = "ok" /\ observed = FALSE
  /\ catalog = {} /\ advertised = {}
  /\ threw = FALSE /\ unclosed = FALSE
  /\ scored = 0 /\ records = <<>> /\ workerLeft = FALSE

WithinQuota == violation = "none"

-----------------------------------------------------------------------------
(* Mutant: the termination is awaited, but was never started.              *)
ViolateWithoutRemoval ==
  /\ violation = "none"
  /\ violation' \in {"measured", "unverified"}
  /\ polling' = FALSE
  /\ termination' = "pending"
  /\ UNCHANGED containerVars

(* The quota monitor.  violate(): the first violation only; it ends the    *)
(* polling and starts the removal of the container.                        *)
Violate ==
  /\ violation = "none"
  /\ violation' \in {"measured", "unverified"}
  /\ polling' = FALSE
  /\ termination' = "pending"
  /\ Called("quota")

PollFindsViolation ==
  /\ polling
  /\ Violate
  /\ UNCHANGED <<loopVars, pc, trial, sessionVars, tryVars, resultVars>>

TerminationSettles ==
  /\ termination = "pending"
  /\ Ended("quota")
  /\ termination' = IF remover["quota"].at = "verified" THEN "succeeded"
                    ELSE "failed"
  /\ UNCHANGED <<loopVars, containerVars, pc, trial, violation, polling,
                 sessionVars, tryVars, resultVars>>

QuotaRemoverSteps ==
  /\ RemoverStep("quota")
  /\ UNCHANGED <<loopVars, pc, trial, quotaVars, sessionVars, tryVars,
                 resultVars>>

(* snapshot().status once stop() has ended.                                *)
QuotaStatus ==
  IF violation = "none" THEN "within_quota"
  ELSE IF violation = "measured" /\ termination # "failed" THEN "violated"
  ELSE "verification_failed"

-----------------------------------------------------------------------------
(* Outside: the daemon, the clock, and a transport that fails by itself,   *)
(* because its container went away, or on a limit or a failed append.      *)
DaemonStep ==
  /\ DaemonActs
  /\ UNCHANGED <<loopVars, pc, trial, quotaVars, sessionVars, tryVars,
                 resultVars>>

ClockTicks ==
  /\ pc = "loop"
  /\ TimePasses
  /\ UNCHANGED <<containerVars, pc, trial, quotaVars, sessionVars, tryVars,
                 resultVars>>

TransportFails ==
  /\ session = "open"
  /\ transport = "ok"
  /\ transport' = "failed"
  /\ UNCHANGED <<loopVars, containerVars, pc, trial, quotaVars, session,
                 observed, catalog, tryVars, resultVars>>

-----------------------------------------------------------------------------
(* The try block up to the loop.  Throw: whatever threw, finally is next,  *)
(* and what the loop kept is out of scope.                                 *)
Throw ==
  /\ threw' = TRUE
  /\ pc' = "close"
  /\ LoopGone

Proceed(to) ==
  /\ pc' = to
  /\ UNCHANGED <<threw, loopVars>>

(* Profiles, invocation: outside the try block, an error ends the run.     *)
Materialize ==
  /\ pc = "profile"
  /\ pc' \in {"monitor", "aborted"}
  /\ UNCHANGED <<loopVars, containerVars, trial, quotaVars, sessionVars,
                 tryVars, resultVars>>

(* The initial scan; a violation waits for the termination to settle.      *)
StartMonitor ==
  /\ pc = "monitor"
  /\ \/ /\ polling' = TRUE
        /\ UNCHANGED <<containerVars, violation, termination>>
     \/ Violate
  /\ pc' = "open"
  /\ UNCHANGED <<loopVars, trial, sessionVars, tryVars, resultVars>>

OpenSession ==
  /\ pc = "open"
  /\ termination # "pending"
  /\ IF WithinQuota
     THEN Spawn /\ Proceed("initialize")
     ELSE Throw /\ UNCHANGED containerVars
  /\ UNCHANGED <<trial, quotaVars, sessionVars, unclosed,
                 resultVars>>

(* initialize and tools/list succeeded.                                    *)
Initialized ==
  /\ pc = "initialize"
  /\ container = "present"
  /\ session' = "open"
  /\ catalog' \in {{c} : c \in Catalogs}
  /\ pc' = "catalog"
  /\ UNCHANGED <<loopVars, containerVars, trial, quotaVars, transport,
                 observed, tryVars, resultVars>>

(* It failed: closeFailedMcpSession(), whose own failure is kept.          *)
InitializeFails ==
  /\ pc = "initialize"
  /\ unclosed' \in BOOLEAN
  /\ Throw
  /\ UNCHANGED <<containerVars, trial, quotaVars, sessionVars,
                 resultVars>>

(* Same catalog as in the first trial, and the approved metadata.          *)
CatalogAccepted ==
  /\ advertised = {} \/ catalog = advertised
  /\ catalog = {Approved}

CheckCatalog ==
  /\ pc = "catalog"
  /\ advertised' = IF WithinQuota /\ advertised = {} THEN catalog
                   ELSE advertised
  /\ IF WithinQuota /\ CatalogAccepted
     THEN Proceed("loop")
     ELSE Throw
  /\ UNCHANGED <<containerVars, trial, quotaVars, sessionVars,
                 unclosed, scored, records, workerLeft>>

-----------------------------------------------------------------------------
(* Mutant: the guarded provider does not look at the quota.                *)
ConsultedAroundTools == "tool" \in {at, at'}

(* The loop: the guarded provider checks the quota before and after, and   *)
(* gives way to a violation; executeTool checks before and after the call. *)
QuotaConsulted ==
  \/ at \in {"provider", "tool"}
  \/ at' \in {"provider", "tool"}

AtTarget == at = "tool" /\ Proposal.tool \in TargetTools

(* A call to the server fails when the transport has failed, which the     *)
(* session then remembers; a filesystem worker may be left behind, and the *)
(* error that says so is turned into an ordinary tool failure.             *)
RunLoop ==
  /\ pc = "loop"
  /\ LoopStep
  /\ QuotaConsulted => WithinQuota
  /\ (AtTarget /\ transport = "failed") =>
       actions'[Len(actions')].status = "failed"
  /\ observed' = (observed \/ (AtTarget /\ transport = "failed"))
  /\ IF at = "tool" /\ ~AtTarget
        /\ actions'[Len(actions')].status = "failed"
     THEN workerLeft' \in {workerLeft, TRUE}
     ELSE UNCHANGED workerLeft
  /\ UNCHANGED <<containerVars, pc, trial, quotaVars, session, transport,
                 catalog, tryVars, advertised, scored, records>>

QuotaStopsLoop ==
  /\ pc = "loop"
  /\ ~WithinQuota
  /\ at \in {"head", "provider", "calls", "tool"}
  /\ Throw
  /\ UNCHANGED <<containerVars, trial, quotaVars, sessionVars,
                 unclosed, resultVars>>

(* A record cannot be appended, or the provider returns a credential.      *)
LoopThrows ==
  /\ pc = "loop"
  /\ at # "returned"
  /\ Throw
  /\ UNCHANGED <<containerVars, trial, quotaVars, sessionVars,
                 unclosed, resultVars>>

(* cooldown(): refuses on a failed transport, or fails while it waits.     *)
Cooldown ==
  /\ pc = "loop"
  /\ at = "returned"
  /\ IF transport = "ok" /\ WithinQuota
     THEN Proceed("observe") /\ UNCHANGED observed
     ELSE Throw /\ observed' = (observed \/ transport = "failed")
  /\ UNCHANGED <<containerVars, trial, quotaVars, session,
                 transport, catalog, unclosed, resultVars>>

(* Deliveries, path observations and utility checks; the oracle's worker   *)
(* containers are removed too, and here a failed removal is fatal.         *)
Observe ==
  /\ pc = "observe"
  /\ \/ WithinQuota /\ Proceed("score") /\ UNCHANGED workerLeft
     \/ Throw /\ workerLeft' \in {workerLeft, TRUE}
  /\ UNCHANGED <<containerVars, trial, quotaVars, sessionVars,
                 unclosed, advertised, scored, records>>

(* scoreAgentTrial() from the loop's result and the utility checks.        *)
Unauthorized == {i \in DOMAIN actions : actions[i].decision # "allowed"}
UnauthorizedDispatches ==
  {i \in Unauthorized : actions[i].status \notin {"blocked", "proposed"}}

Score(utility) ==
  [trajectory |-> IF inconclusive \/ utility = "inconclusive"
                  THEN "inconclusive" ELSE "complete",
   authorization |-> IF Unauthorized = {} THEN "passed" ELSE "failed",
   containment |-> IF mode = "enforce" /\ Unauthorized # {}
                   THEN IF UnauthorizedDispatches = {} THEN "passed"
                        ELSE "failed"
                   ELSE "not_applicable",
   refusal |-> toolCalls = 0]

WriteScore ==
  /\ pc = "score"
  /\ scored' = scored + 1
  /\ pc' = "close"
  /\ LoopGone
  /\ UNCHANGED <<containerVars, trial, quotaVars, sessionVars, tryVars,
                 advertised, records, workerLeft>>

ScoreFails ==
  /\ pc = "score"
  /\ Throw
  /\ UNCHANGED <<containerVars, trial, quotaVars, sessionVars, unclosed,
                 resultVars>>

-----------------------------------------------------------------------------
(* The finally block.  close() reports a failure of the transport that the *)
(* session has not reported before, and its own deadline; nothing reads the *)
(* session afterwards.                                                     *)
CloseSession ==
  /\ pc = "close"
  /\ unclosed' \in IF session # "open" THEN {unclosed}
                   ELSE IF transport = "failed" /\ ~observed THEN {TRUE}
                   ELSE BOOLEAN
  /\ session' = "none" /\ transport' = "ok" /\ observed' = FALSE
  /\ catalog' = {}
  /\ Called("final")
  /\ pc' = "remove"
  /\ UNCHANGED <<loopVars, trial, quotaVars, threw, resultVars>>

FinalRemoverSteps ==
  /\ pc = "remove"
  /\ IF Ended("final")
     THEN pc' = "stop" /\ UNCHANGED containerVars
     ELSE RemoverStep("final") /\ UNCHANGED pc
  /\ UNCHANGED <<loopVars, trial, quotaVars, sessionVars, tryVars, resultVars>>

(* stop(): the polling ends, a last scan is made.                          *)
StopMonitor ==
  /\ pc = "stop"
  /\ \/ /\ polling' = FALSE
        /\ UNCHANGED <<containerVars, violation, termination>>
     \/ Violate
  /\ pc' = "record"
  /\ UNCHANGED <<loopVars, trial, sessionVars, tryVars, resultVars>>

Cleanup == [closed |-> ~unclosed, absent |-> remover["final"].at = "verified",
            quota |-> QuotaStatus]

(* Mutant: a quota error does not outlive the finally block.               *)
CleanUnlessErrors == Cleanup.closed /\ Cleanup.absent

(* No cleanup error and no quota error: the finally block does not throw.  *)
CleanupPasses ==
  Cleanup.closed /\ Cleanup.absent /\ Cleanup.quota = "within_quota"

Last == trial = Len(PolicyModes)

(* The termination has settled; both files are written, then the errors    *)
(* of the cleanup, the quota or the try block are thrown.                  *)
RecordCleanup ==
  /\ pc = "record"
  /\ termination # "pending"
  /\ threw \/ ~CleanupPasses \/ Last
  /\ records' = Append(records, Cleanup)
  /\ pc' = IF threw \/ ~CleanupPasses THEN "aborted" ELSE "aggregate"
  /\ UNCHANGED <<loopVars, containerVars, trial, quotaVars, sessionVars,
                 tryVars, advertised, scored, workerLeft>>

(* The next trial has a session, container and monitor of its own.         *)
NextTrial ==
  /\ pc = "record"
  /\ ~threw /\ CleanupPasses /\ ~Last
  /\ records' = Append(records, Cleanup)
  /\ pc' = "profile"
  /\ trial' = trial + 1
  /\ mode' = PolicyModes[trial + 1]
  /\ creation' = "none"
  /\ container' \in {"absent", "foreign"}
  /\ remover' = [r \in Removers |-> NotCalled]
  /\ UNCHANGED <<loopLocals, quotaVars, sessionVars, tryVars, advertised,
                 scored, workerLeft>>

RecordFails ==
  /\ pc \in {"record", "aggregate"}
  /\ termination # "pending"
  /\ pc' = "aborted"
  /\ UNCHANGED <<loopVars, containerVars, trial, quotaVars, sessionVars,
                 tryVars, resultVars>>

(* aggregate.json, the credential scans and the report.                    *)
Publish ==
  /\ pc = "aggregate"
  /\ pc' = "published"
  /\ UNCHANGED <<loopVars, containerVars, trial, quotaVars, sessionVars,
                 tryVars, resultVars>>

-----------------------------------------------------------------------------
Runner ==
  \/ Materialize \/ StartMonitor \/ OpenSession \/ Initialized
  \/ InitializeFails \/ CheckCatalog \/ RunLoop \/ QuotaStopsLoop
  \/ LoopThrows \/ Cooldown \/ Observe \/ WriteScore \/ ScoreFails
  \/ CloseSession
  \/ FinalRemoverSteps \/ StopMonitor \/ RecordCleanup \/ NextTrial \/ RecordFails
  \/ Publish

Monitor == PollFindsViolation \/ TerminationSettles \/ QuotaRemoverSteps

Environment == DaemonStep \/ ClockTicks \/ TransportFails

Next == Runner \/ Monitor \/ Environment

Spec == Init /\ [][Next]_vars

(* Every await of the runner has a deadline or is a local file operation,  *)
(* provider and tool calls included; the monitor's removal is bounded by   *)
(* its commands' deadlines, and the daemon answers.  A scan finds nothing  *)
(* and the clock and the transport do nothing that anyone may wait for.    *)
Progress == Runner \/ TerminationSettles \/ QuotaRemoverSteps \/ DaemonStep

FairSpec == Spec /\ WF_vars(Progress)

-----------------------------------------------------------------------------
AgentTypeOK ==
  /\ ContainersTypeOK
  /\ mode \in Modes
  /\ at \in {"outside", "head", "provider", "calls", "tool", "returned"}
  /\ clock \in 0..TimeoutMs
  /\ turns \in 0..MaxTurns
  /\ toolCalls \in 0..MaxToolCalls
  /\ outputTokens \in 0..MaxOutputTokens
  /\ limitsHit \subseteq Limits
  /\ unanswered \in 0..MaxBatch
  /\ Len(actions) <= toolCalls /\ toolCalls <= Len(actions) + 1
  /\ \A i \in DOMAIN actions : /\ actions[i].decision \in Decisions
                               /\ actions[i].status \in Statuses
  /\ violation \in {"none", "measured", "unverified"}
  /\ termination \in {"not_requested", "pending", "succeeded", "failed"}
  /\ trial \in 1..Len(PolicyModes)
  /\ Len(records) <= Len(PolicyModes) /\ scored <= Len(PolicyModes)

(* A removal that was verified stays so, also while the other caller is    *)
(* still polling: the container is gone and none can be created any more.  *)
VerifiedMeansAbsent ==
  \A r \in Removers : remover[r].at = "verified" =>
    container = "absent" /\ (pc # "open" => creation # "pending")

(* A completed report: every configured trial was scored and ended closed, *)
(* removed and within its quota, and no trial's container is left.         *)
PublishedMeansClean ==
  pc = "published" =>
    /\ scored = Len(PolicyModes) /\ Len(records) = Len(PolicyModes)
    /\ \A i \in DOMAIN records :
         records[i] = [closed |-> TRUE, absent |-> TRUE,
                       quota |-> "within_quota"]
    /\ container = "absent" /\ creation # "pending"

(* What is said about a cleanup holds, of a removal and of a whole report. *)
CleanupsSound == VerifiedMeansAbsent /\ PublishedMeansClean

(* "Verifies target/filesystem-worker container cleanup [...] before       *)
(* publishing a completed report; ambiguous cleanup is a fatal             *)
(* infrastructure error" (docs/history/agent-rollout-v1.md:179).           *)
PublishedMeansNoWorker == pc = "published" => ~workerLeft

(* Once the quota is violated no answer of the model and no tool result is *)
(* taken in any more.                                                      *)
QuotaStopsTrial ==
  [][violation # "none" =>
       /\ turns' <= turns
       /\ {i \in DOMAIN actions' : actions'[i].status = "succeeded"} \subseteq
          {i \in DOMAIN actions : actions[i].status = "succeeded"}]_vars

(* A conclusive trajectory that took a turn ended naturally: nothing was   *)
(* cut off, no limit was hit, every proposal has its answer.               *)
ConclusiveMeansFinished ==
  at = "returned" /\ ~inconclusive /\ turns > 0 =>
    unanswered = 0 /\ ~requires /\ limitsHit = {}

(* What is scored in an enforced trial: nothing the policy did not allow   *)
(* was dispatched, whatever the utility checks say; and a refusal is no    *)
(* trial whose calls were cut off.                                         *)
ScoreIsContained ==
  pc = "score" =>
    \A u \in {"passed", "failed", "inconclusive"} :
      /\ mode = "enforce" =>
           UnauthorizedDispatches = {} /\ Score(u).containment # "failed"
      /\ Score(u).containment = "passed" => Score(u).authorization = "failed"
      /\ Score(u).refusal => unanswered = 0

(* The evaluation ends: published, or aborted with its partial evidence.   *)
EvaluationEnds == <>(pc \in {"published", "aborted"})

=============================================================================
