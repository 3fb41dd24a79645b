----------------------------- MODULE EnrolledRun -----------------------------
(***************************************************************************)
(* runEnrolledOutcomeExperiment() of src/src/audit/v2/enrolled-runner.ts:  *)
(* an unfamiliar target is prepared, discovered in a first container       *)
(* without any tools/call, enrolled, reviewed for one exact call, and      *)
(* called once in a second container.  Until it is enrolled a run that     *)
(* throws is rejected, afterwards it has failed: two branches of one catch *)
(* block that clean up and leave different records.                        *)
(*                                                                         *)
(* The sessions are McExperiment, the removal ContainerCleanup; the tables *)
(* of the authority are EnrolledAuthority, here whether its window is open *)
(* and whether its checks pass.  Environment: the prepared tree and the    *)
(* resources may change on the host at any time (never back), the server   *)
(* may speak out of turn, time runs out, every file operation may fail.    *)
(***************************************************************************)
EXTENDS McExperiment

VARIABLES
  pc,            (* where the runner stands                                  *)
  bytes,         (* the prepared tree and resources, as snapshotted or not   *)
  target,        (* the prepared target directory                            *)
  resources,     (* the synthetic resource directory                         *)
  held,          (* which of preparedTarget and resources are assigned       *)
  unclean,       (* acquisitionCleanupUnverified                             *)
  notices,       (* what the server said unasked, in the transcript          *)
  windowOpen,    (* the review capability and the policy have not expired    *)
  review,        (* reviewOutcome.status                                     *)
  monitor,       (* "none", "called" (monitorChecks = 1), "revalidated" or   *)
                 (* "passed"                                                 *)
  ranOnChanged,  (* history: the called container ran over changed bytes     *)
  stage,         (* rejectionStage, then executionFailureStage               *)
  error,         (* what the catch block learns of the error                 *)
  ending,        (* cleanup.status of a rejection                            *)
  files,         (* the evidence files, {} while absent                      *)
  outcome        (* "running", "returned" or "threw"                         *)

hostVars == <<bytes, target, resources, held, ranOnChanged>>
reviewVars == <<notices, windowOpen, review, monitor>>
faultVars == <<unclean, stage, error, ending>>
runVars == <<pc, hostVars, reviewVars, faultVars, files, outcome>>
vars == <<cleanupVars, sessionVars, runVars>>

NoFiles == [discoveryCleanup |-> {}, rejectionCleanup |-> {}, rejection |-> {},
            cleanup |-> {}, attempt |-> {}, failureCleanup |-> {},
            failure |-> {}, index |-> {}]

Init ==
  /\ CleanupInit
  /\ SessionInit
  /\ pc = "configure"
  /\ bytes = "pinned" /\ ranOnChanged = FALSE
  /\ target = "none" /\ resources = "none" /\ held = {}
  /\ unclean = FALSE
  /\ notices = {}
  /\ windowOpen = TRUE
  /\ review = "not_completed"
  /\ monitor = "none"
  /\ stage = "configuration"
  /\ error = "none"
  /\ ending = "not_started"
  /\ files = NoFiles
  /\ outcome = "running"

Registered == stage \notin {"configuration", "sandbox_image_validation",
  "acquisition", "prepared_tree_snapshot", "runtime_validation",
  "discovery_startup", "catalog_validation", "discovery_cleanup",
  "eligibility"}

-----------------------------------------------------------------------------
(* The environment.                                                        *)
HostChanges ==
  /\ target = "present" /\ outcome = "running"
  /\ bytes' = "changed"
  /\ ranOnChanged' = (ranOnChanged \/ (withTool /\ container = "ours"))
  /\ UNCHANGED <<cleanupVars, sessionVars, pc, target, resources, held,
                 reviewVars, faultVars, files, outcome>>

(* Bound: one message out of turn in a session shows what two would.       *)
ServerSpeaks(notice) ==
  /\ container = "ours" /\ session \in OpenSteps
  /\ notices = {}
  /\ notices' = {notice}
  /\ UNCHANGED <<cleanupVars, sessionVars, pc, hostVars, windowOpen, review,
                 monitor, faultVars, files, outcome>>

WindowCloses ==
  /\ windowOpen /\ review = "approved" /\ monitor \in {"none", "called"}
  /\ windowOpen' = FALSE
  /\ UNCHANGED <<cleanupVars, sessionVars, pc, hostVars, notices, review,
                 monitor, faultVars, files, outcome>>

DaemonActs ==
  /\ DaemonStep
  /\ outcome = "running"
  /\ ranOnChanged' = \/ ranOnChanged
                      \/ (withTool /\ container' = "ours" /\ bytes = "changed")
  /\ UNCHANGED <<sessionVars, pc, bytes, target, resources, held, reviewVars,
                 faultVars, files, outcome>>

NameChanges ==
  /\ NameStep
  /\ outcome = "running"
  /\ UNCHANGED <<sessionVars, runVars>>

TargetActs == TargetAnswers /\ UNCHANGED <<cleanupVars, runVars>>

RecordingActs == RecordingFails /\ UNCHANGED <<cleanupVars, runVars>>

-----------------------------------------------------------------------------
(* A step of the try block that only moves on, and the stage it enters.    *)
Pass(from, to, entered) ==
  /\ pc = from
  /\ pc' = to
  /\ stage' = entered
  /\ UNCHANGED <<cleanupVars, sessionVars, hostVars, reviewVars, unclean,
                 error, ending, files, outcome>>

(* The configuration is loaded, its source supported, one experiment       *)
(* selected.                                                               *)
ConfigurationLoaded == Pass("configure", "image", "sandbox_image_validation")

ImageVerified == Pass("image", "acquire", "acquisition")

TargetPrepared ==
  /\ pc = "acquire"
  /\ target' = "present" /\ held' = {"target"}
  /\ pc' = "snapshot"
  /\ stage' = "prepared_tree_snapshot"
  /\ UNCHANGED <<cleanupVars, sessionVars, bytes, resources, ranOnChanged,
                 reviewVars, unclean, error, ending, files, outcome>>

(* prepareTarget() removes what it made, and says when it could not.       *)
PreparationFails ==
  /\ pc = "acquire"
  /\ unclean' \in BOOLEAN
  /\ error' = "plain"
  /\ pc' = "caught"
  /\ UNCHANGED <<cleanupVars, sessionVars, hostVars, reviewVars, stage, ending,
                 files, outcome>>

TreeSnapshotted == bytes = "pinned" /\ Pass("snapshot", "runtime",
                                            "runtime_validation")

(* The runtime is validated and the empty resource directory made.         *)
RuntimeValidated ==
  /\ pc = "runtime"
  /\ resources' = "present" /\ held' = held \union {"resources"}
  /\ pc' = "startup"
  /\ stage' = "discovery_startup"
  /\ UNCHANGED <<cleanupVars, sessionVars, bytes, target, ranOnChanged,
                 reviewVars, unclean, error, ending, files, outcome>>

(* verifyPreparedRuntimeTree(), then the zero-call session.                *)
DiscoveryStarted ==
  /\ pc = "startup"
  /\ bytes = "pinned"
  /\ StartSession(FALSE)
  /\ pc' = "discover"
  /\ UNCHANGED <<hostVars, reviewVars, faultVars, files, outcome>>

SessionRuns ==
  /\ pc \in {"discover", "execute"}
  /\ SessionStep
  /\ UNCHANGED <<cleanupVars, runVars>>

DiscoveryReturned ==
  /\ pc = "discover" /\ session = "returned"
  /\ CleanupCalled
  /\ pc' = "removeDiscovered"
  /\ UNCHANGED <<sessionVars, hostVars, reviewVars, faultVars, files, outcome>>

(* removeManagedContainer() resolves, or throws to the catch block.        *)
Removal(from, verifiedTo, failedTo) ==
  /\ pc = from
  /\ CleanupStep
  /\ pc' = CASE cleanup' = "verified" -> verifiedTo
             [] cleanup' = "failed" -> failedTo
             [] OTHER -> pc
  /\ UNCHANGED <<sessionVars, hostVars, reviewVars, unclean, ending, files,
                 outcome>>

DiscoveryRemoval ==
  /\ Removal("removeDiscovered", "verifyDiscovered", "caught")
  /\ error' = IF cleanup' = "failed" THEN "plain" ELSE error
  /\ UNCHANGED stage

(* The tree, the resources and the transcript are inspected.               *)
DiscoveryVerified ==
  bytes = "pinned" /\ Pass("verifyDiscovered", "catalog", "catalog_validation")

(* Mutant: requests of the server are not counted in the transcript.       *)
OnlyListChangesCounted == "list_changed" \notin notices

(* inspectEnrolledTranscript() and the counters the runner compares.       *)
TranscriptQuiet == notices = {}

CatalogAccepted ==
  /\ pc = "catalog"
  /\ TranscriptQuiet
  /\ files' = [files EXCEPT !.discoveryCleanup = {"verified"}]
  /\ pc' = "compile"
  /\ stage' = "eligibility"
  /\ UNCHANGED <<cleanupVars, sessionVars, hostVars, reviewVars, unclean,
                 error, ending, outcome>>

(* The one call is compiled, the record made and the enrollment registered. *)
EnrollmentRegistered == Pass("compile", "artifacts", "review")

ArtifactsWritten == Pass("artifacts", "propose", "review")

(* The proposer answers within its deadline, and the draft compiles.       *)
HypothesisCompiled == Pass("propose", "decide", "review")

ReviewSettles(status, to) ==
  /\ pc = "decide"
  /\ review' = status
  /\ pc' = to
  /\ error' = IF to = "caught" THEN "plain" ELSE error
  /\ UNCHANGED <<cleanupVars, sessionVars, hostVars, notices, windowOpen,
                 monitor, unclean, stage, ending, files, outcome>>

(* An answer in time, well formed, that echoes the bindings it was shown.  *)
ReviewApproved == ReviewSettles("approved", "consume")

ReviewDeclined == ReviewSettles("declined", "caught")

ReviewConsumed ==
  /\ windowOpen
  /\ Pass("consume", "fresh", "session_before_monitor")

(* The runtime and the tree are validated again, then the called session.  *)
ExecutionStarted ==
  /\ pc = "fresh"
  /\ bytes = "pinned"
  /\ StartAgain(TRUE)
  /\ notices' = {}
  /\ pc' = "execute"
  /\ UNCHANGED <<hostVars, windowOpen, review, monitor, faultVars, files,
                 outcome>>

(* beforeToolCall() is counted before the dispatch is revalidated ...      *)
MonitorCalled ==
  /\ pc = "execute" /\ session = "hook"
  /\ monitor = "none"
  /\ monitor' = "called"
  /\ UNCHANGED <<cleanupVars, sessionVars, pc, hostVars, notices, windowOpen,
                 review, faultVars, files, outcome>>

(* ... the clock read first, the tree and the resources verified after it. *)
DispatchRevalidated ==
  /\ pc = "execute" /\ session = "hook"
  /\ monitor = "called"
  /\ windowOpen
  /\ monitor' = "revalidated"
  /\ UNCHANGED <<cleanupVars, sessionVars, pc, hostVars, notices, windowOpen,
                 review, faultVars, files, outcome>>

TreeVerified == bytes = "pinned"

MonitorPassed ==
  /\ pc = "execute"
  /\ monitor = "revalidated"
  /\ TreeVerified
  /\ HookPassed
  /\ monitor' = "passed"
  /\ UNCHANGED <<cleanupVars, pc, hostVars, notices, windowOpen, review,
                 faultVars, files, outcome>>

ExecutionReturned ==
  /\ pc = "execute" /\ session \in Settled
  /\ CleanupCalled
  /\ pc' = "removeExecuted"
  /\ UNCHANGED <<sessionVars, hostVars, reviewVars, faultVars, files, outcome>>

ExecutionStage ==
  IF cleanup' # "verified" THEN "cleanup_verification"
  ELSE IF monitor = "none" THEN "session_before_monitor"
  ELSE IF monitor # "passed" THEN "pre_dispatch_monitor"
  ELSE IF sentCalls = 0 THEN "transport_before_send"
  ELSE "runtime_or_protocol"

ExecutionRemoval ==
  /\ Removal("removeExecuted",
             IF session = "returned" THEN "verifyReturned" ELSE "caught",
             "caught")
  /\ CASE pc' = "caught" -> stage' = ExecutionStage /\ error' = "plain"
       [] pc' = "verifyReturned" ->
            stage' = "post_return_verification" /\ UNCHANGED error
       [] OTHER -> UNCHANGED <<stage, error>>

(* The tree, the resources, the transcript, the receipt; dispatch.json.    *)
ReturnVerified ==
  /\ bytes = "pinned" /\ TranscriptQuiet
  /\ Pass("verifyReturned", "dispose", "cleanup_verification")

(* disposeInputs(): each directory held is removed or is not, and lstat    *)
(* tells which.                                                            *)
Disposal(from, to) ==
  /\ pc = from
  /\ target' \in {target} \union (IF "target" \in held THEN {"gone"} ELSE {})
  /\ resources' \in
       {resources} \union (IF "resources" \in held THEN {"gone"} ELSE {})
  /\ pc' = to
  /\ UNCHANGED <<cleanupVars, sessionVars, bytes, held, ranOnChanged,
                 reviewVars, faultVars, files, outcome>>

InputsDisposed == Disposal("dispose", "writeCleanup")

(* Every input the receipt lists is absent.                                *)
HeldAbsent ==
  /\ "target" \in held => target = "gone"
  /\ "resources" \in held => resources = "gone"

Receipt(absent, disposed) ==
  IF absent /\ disposed THEN {"verified"} ELSE {"unverified"}

(* cleanup.json is written, and the run goes on only when it is verified.  *)
CleanupWritten ==
  /\ pc = "writeCleanup"
  /\ files' = [files EXCEPT !.cleanup = Receipt(TRUE, HeldAbsent)]
  /\ IF HeldAbsent
     THEN /\ held' = {} /\ pc' = "record" /\ error' = error
          /\ stage' = "post_return_verification"
     ELSE /\ pc' = "caught" /\ error' = "plain"
          /\ UNCHANGED <<held, stage>>
  /\ UNCHANGED <<cleanupVars, sessionVars, bytes, target, resources,
                 ranOnChanged, reviewVars, unclean, ending, outcome>>

(* Observation, comparison and attempt are built, checked and written.     *)
AttemptWritten ==
  /\ pc = "record"
  /\ files' = [files EXCEPT !.attempt = {"attempt"}]
  /\ pc' = "index"
  /\ UNCHANGED <<cleanupVars, sessionVars, hostVars, reviewVars, faultVars,
                 outcome>>

Returns(from, status) ==
  /\ pc = from
  /\ files' = [files EXCEPT !.index = {status}]
  /\ outcome' = "returned"
  /\ pc' = "done"
  /\ UNCHANGED <<cleanupVars, sessionVars, hostVars, reviewVars, faultVars>>

RunCompleted == Returns("index", "completed")

-----------------------------------------------------------------------------
(* What a step may throw: a signal of rejectEnrollment(), an error whose   *)
(* code classifyRejection() knows, or any other.                           *)
ErrorsAt(step) ==
  {"plain"} \union
  CASE step = "configure" -> {"unsupported_source"}
    [] step = "snapshot" -> {"runtime_tree_limit"}
    [] step = "runtime" -> {"invalid_descriptor"}
    [] step = "catalog" -> {"catalog_changed", "catalog_multi_page",
                            "catalog_incomplete", "no_tools"}
    [] step = "compile" -> {"schema_unsupported"}
    [] OTHER -> {}

Throws ==
  /\ pc \in {"configure", "image", "snapshot", "runtime", "startup",
             "verifyDiscovered", "catalog", "compile", "artifacts", "propose",
             "decide", "consume", "fresh", "verifyReturned", "writeCleanup",
             "record", "index"}
  /\ error' \in ErrorsAt(pc)
  /\ pc' = "caught"
  /\ UNCHANGED <<cleanupVars, sessionVars, hostVars, reviewVars, unclean,
                 stage, ending, files, outcome>>

DiscoveryThrew ==
  /\ pc = "discover" /\ session = "threw"
  /\ error' = "plain"
  /\ pc' = "caught"
  /\ UNCHANGED <<cleanupVars, sessionVars, hostVars, reviewVars, unclean,
                 stage, ending, files, outcome>>

(* The catch block calls removeManagedContainer() (again) while the        *)
(* container of the last session is not known to be absent.                *)
RemovalPending == session # "none" /\ cleanup # "verified"

RemoveAgain(branch) ==
  /\ cleanup' = "inspect" /\ absences' = 0 /\ removals' = 0
  /\ pc' = branch
  /\ UNCHANGED daemonVars

FailureCaught ==
  /\ pc = "caught" /\ Registered
  /\ IF withTool /\ RemovalPending THEN RemoveAgain("retryExecuted")
     ELSE pc' = "failDispose" /\ UNCHANGED cleanupVars
  /\ UNCHANGED <<sessionVars, hostVars, reviewVars, faultVars, files, outcome>>

FailureRemoval ==
  /\ Removal("retryExecuted", "failDispose", "failDispose")
  /\ stage' = IF cleanup' = "failed" THEN "cleanup_verification" ELSE stage
  /\ UNCHANGED error

(* The inputs are disposed of, whether or not the container is absent.     *)
FailureDisposed == Disposal("failDispose", "writeFailureCleanup")

ContainerAbsent == ~withTool \/ cleanup = "verified"

FailureCleanupWritten ==
  /\ pc = "writeFailureCleanup"
  /\ files' = [files EXCEPT !.failureCleanup =
                                Receipt(ContainerAbsent, HeldAbsent)]
  /\ held' = IF ContainerAbsent /\ HeldAbsent THEN {} ELSE held
  /\ pc' = "writeFailure"
  /\ UNCHANGED <<cleanupVars, sessionVars, bytes, target, resources,
                 ranOnChanged, reviewVars, faultVars, outcome>>

(* writeExecutionFailure()                                                 *)
FailureWritten ==
  /\ pc = "writeFailure"
  /\ LET verified == files.failureCleanup = {"verified"} IN
     files' = [files EXCEPT !.failure =
       {[stage |-> IF verified THEN stage ELSE "cleanup_verification",
         sent |-> sentCalls, review |-> review, verified |-> verified,
         inputsRetained |-> ~verified]}]
  /\ pc' = "failureIndex"
  /\ UNCHANGED <<cleanupVars, sessionVars, hostVars, reviewVars, faultVars,
                 outcome>>

RunFailed == Returns("failureIndex", "failed")

-----------------------------------------------------------------------------
RejectionCaught ==
  /\ pc = "caught" /\ ~Registered
  /\ ending' = IF unclean THEN "verification_failed" ELSE "not_started"
  /\ IF RemovalPending THEN RemoveAgain("retryDiscovered")
     ELSE pc' = "rejectInputs" /\ UNCHANGED cleanupVars
  /\ UNCHANGED <<sessionVars, hostVars, reviewVars, unclean, stage, error,
                 files, outcome>>

RejectionStage ==
  IF cleanup' = "failed" THEN "discovery_cleanup" ELSE stage

RejectionRemoval ==
  /\ pc = "retryDiscovered"
  /\ CleanupStep
  /\ pc' = IF cleanup' \in {"verified", "failed"} THEN "rejectInputs" ELSE pc
  /\ stage' = RejectionStage
  /\ ending' = IF cleanup' = "failed" THEN "verification_failed" ELSE ending
  /\ UNCHANGED <<sessionVars, hostVars, reviewVars, unclean, error, files,
                 outcome>>

DisposalAllowed == ending # "verification_failed"

RejectionDisposes ==
  DisposalAllowed /\ Disposal("rejectInputs", "rejectReceipt")

RejectionRetains ==
  /\ ~DisposalAllowed
  /\ pc = "rejectInputs"
  /\ pc' = "rejectFallback"
  /\ UNCHANGED <<cleanupVars, sessionVars, hostVars, reviewVars, faultVars,
                 files, outcome>>

Rejecting(to, status, receipt) ==
  /\ pc' = to
  /\ ending' = status
  /\ files' = [files EXCEPT !.rejectionCleanup = receipt]
  /\ UNCHANGED <<cleanupVars, sessionVars, hostVars, reviewVars, unclean,
                 stage, error, outcome>>

NothingStarted == held = {} /\ session = "none"

RejectionReceipt ==
  /\ pc = "rejectReceipt"
  /\ \/ NothingStarted /\ Rejecting("reject", "not_started", {})
     \/ /\ ~NothingStarted
        /\ \/ /\ HeldAbsent
              /\ Rejecting("rejectFallback", "verified_absent", {"verified"})
           \/ /\ ~HeldAbsent
              /\ Rejecting("rejectFallback", "verification_failed",
                           {"unverified"})
           \/ Rejecting("rejectFallback", "verification_failed", {})

(* The receipt that is still missing is written, its inputs unverified.    *)
RejectionFallback ==
  /\ pc = "rejectFallback"
  /\ Rejecting("reject", ending,
       IF files.rejectionCleanup # {} THEN files.rejectionCleanup
       ELSE Receipt(~unclean /\ ~RemovalPending, held = {}))

(* classifyRejection()                                                     *)
Reason(st, e) ==
  CASE st = "configuration" ->
         IF e = "unsupported_source" THEN e ELSE "invalid_target_config"
    [] st = "acquisition" -> "acquisition_failed"
    [] st = "prepared_tree_snapshot" ->
         IF e = "runtime_tree_limit" THEN "prepared_tree_limit_exceeded"
         ELSE "prepared_tree_incomplete"
    [] st = "runtime_validation" ->
         IF e = "invalid_descriptor" THEN "unsupported_runtime"
         ELSE "unsafe_node_invocation"
    [] st = "sandbox_image_validation" -> "sandbox_image_mismatch"
    [] st = "discovery_startup" -> "discovery_failed"
    [] st = "catalog_validation" ->
         IF e = "plain" THEN "catalog_limit_exceeded" ELSE e
    [] st = "discovery_cleanup" -> "cleanup_unverified"
    [] st = "eligibility" ->
         IF e = "schema_unsupported" THEN "input_schema_unsupported"
         ELSE "no_safe_single_call_candidate"

(* The schema of the record: which stage a reason belongs to, and which    *)
(* cleanup a stage allows.                                                 *)
ReasonStage ==
  [invalid_target_config |-> "configuration",
   unsupported_source |-> "configuration",
   acquisition_failed |-> "acquisition",
   prepared_tree_incomplete |-> "prepared_tree_snapshot",
   prepared_tree_limit_exceeded |-> "prepared_tree_snapshot",
   unsupported_runtime |-> "runtime_validation",
   unsafe_node_invocation |-> "runtime_validation",
   sandbox_image_mismatch |-> "sandbox_image_validation",
   discovery_failed |-> "discovery_startup",
   catalog_incomplete |-> "catalog_validation",
   catalog_multi_page |-> "catalog_validation",
   catalog_changed |-> "catalog_validation",
   catalog_limit_exceeded |-> "catalog_validation",
   no_tools |-> "catalog_validation",
   input_schema_unsupported |-> "eligibility",
   cleanup_unverified |-> "discovery_cleanup",
   no_safe_single_call_candidate |-> "eligibility"]

ValidRejection(r) ==
  /\ ReasonStage[r.reason] = r.stage
  /\ r.stage \in {"discovery_startup", "catalog_validation",
                  "discovery_cleanup", "eligibility"}
       => r.cleanup # "not_started"
  /\ r.stage = "discovery_cleanup" => r.cleanup = "verification_failed"

Rejection == [stage |-> stage, reason |-> Reason(stage, error),
              cleanup |-> ending]

RejectionWritten ==
  /\ pc = "reject"
  /\ ValidRejection(Rejection)
  /\ files' = [files EXCEPT !.rejection = {Rejection}]
  /\ pc' = "rejectIndex"
  /\ UNCHANGED <<cleanupVars, sessionVars, hostVars, reviewVars, faultVars,
                 outcome>>

RunRejected == Returns("rejectIndex", "rejected")

(* A record of the catch block that cannot be written: the run throws.     *)
EvidenceLost ==
  /\ pc \in {"writeFailureCleanup", "writeFailure", "failureIndex",
             "rejectFallback", "reject", "rejectIndex"}
  /\ outcome' = "threw"
  /\ pc' = "done"
  /\ UNCHANGED <<cleanupVars, sessionVars, hostVars, reviewVars, faultVars,
                 files>>

-----------------------------------------------------------------------------
Discovery ==
  \/ ConfigurationLoaded \/ ImageVerified \/ TargetPrepared
  \/ PreparationFails \/ TreeSnapshotted \/ RuntimeValidated
  \/ DiscoveryStarted \/ DiscoveryReturned \/ DiscoveryThrew
  \/ DiscoveryRemoval \/ DiscoveryVerified \/ CatalogAccepted

Execution ==
  \/ EnrollmentRegistered \/ ArtifactsWritten \/ HypothesisCompiled
  \/ ReviewApproved \/ ReviewDeclined \/ ReviewConsumed \/ ExecutionStarted
  \/ MonitorCalled \/ DispatchRevalidated \/ MonitorPassed \/ ExecutionReturned
  \/ ExecutionRemoval \/ ReturnVerified \/ InputsDisposed \/ CleanupWritten
  \/ AttemptWritten \/ RunCompleted

Failure ==
  \/ FailureCaught \/ FailureRemoval \/ FailureDisposed
  \/ FailureCleanupWritten \/ FailureWritten \/ RunFailed

Rejected ==
  \/ RejectionCaught \/ RejectionRemoval \/ RejectionDisposes
  \/ RejectionRetains \/ RejectionReceipt \/ RejectionFallback
  \/ RejectionWritten \/ RunRejected

Controller ==
  Discovery \/ Execution \/ Throws \/ SessionRuns \/ Failure \/ Rejected
  \/ EvidenceLost

Environment ==
  \/ HostChanges \/ WindowCloses \/ DaemonActs \/ NameChanges \/ TargetActs
  \/ RecordingActs
  \/ \E notice \in {"list_changed", "request"} : ServerSpeaks(notice)

Next == Controller \/ Environment

Spec == Init /\ [][Next]_vars

(* Every await of the runner settles: the session, the callbacks and the   *)
(* docker commands have deadlines, file operations return or fail.         *)
FairSpec == Spec /\ WF_vars(Controller) /\ WF_vars(DaemonActs)

-----------------------------------------------------------------------------
(* Types of the runner's variables.                                        *)
EnrolledTypeOK ==
  /\ SessionTypeOK
  /\ bytes \in {"pinned", "changed"}
  /\ target \in {"none", "present", "gone"}
  /\ resources \in {"none", "present", "gone"}
  /\ held \subseteq {"target", "resources"}
  /\ notices \subseteq {"list_changed", "request"}
  /\ review \in {"not_completed", "approved", "declined"}
  /\ monitor \in {"none", "called", "revalidated", "passed"}
  /\ ending \in {"not_started", "verified_absent", "verification_failed"}
  /\ outcome \in {"running", "returned", "threw"}

ContainerGone == container # "ours" /\ creation # "pending"

InputsGone == target # "present" /\ resources # "present"

(* attempt.json proves one reviewed call over the enrolled bytes, in a     *)
(* container that is gone with its inputs, over a quiet transcript, and    *)
(* cleanup.json says the same.                                             *)
AttemptProvesOneCall ==
  files.attempt # {} =>
    /\ review = "approved" /\ monitor = "passed" /\ sentCalls = 1
    /\ ~ranOnChanged /\ notices = {}
    /\ ContainerGone /\ InputsGone
    /\ files.cleanup = {"verified"}

(* failure.json never says that nothing was sent when a call was, never    *)
(* puts a sent call in a stage before the send, and says "verified" only   *)
(* when the container and both inputs are gone and the receipt says so.    *)
FailureTruthful ==
  \A f \in files.failure :
    /\ f.sent = sentCalls
    /\ f.stage \in {"review", "session_before_monitor",
                    "pre_dispatch_monitor", "transport_before_send"}
         => sentCalls = 0
    /\ sentCalls = 1 => f.review = "approved" /\ monitor = "passed"
    /\ f.verified => ContainerGone /\ InputsGone

(* rejection.json never claims more than was cleaned up: "not_started"     *)
(* only when nothing was made, "verified_absent" only when all is gone,    *)
(* and the receipt it refers to exists and agrees with it.                 *)
RejectionTruthful ==
  \A r \in files.rejection :
    /\ r.cleanup = "not_started" => creation = "none" /\ target = "none"
    /\ r.cleanup = "verified_absent" => ContainerGone /\ InputsGone
    /\ r.cleanup # "not_started" =>
         files.rejectionCleanup = IF r.cleanup = "verified_absent"
                                  THEN {"verified"} ELSE {"unverified"}

(* Whatever fails before the enrollment, and again while that is cleaned   *)
(* up, the record to be written satisfies its own schema: no rejection is  *)
(* lost because its stage, reason and cleanup contradict each other.       *)
RejectionNeverContradicts == pc = "reject" => ValidRejection(Rejection)

(* The inputs the discovery container mounts are kept while it exists or   *)
(* may still be created, on every path that rejects the target.            *)
DiscoveryInputsKept ==
  pc # "configure" /\ ~withTool /\ (container = "ours" \/ creation = "pending") =>
    target = "present" /\ resources = "present"

(* A rejected target leaves a truthful record, always one, and no          *)
(* container without its inputs.                                           *)
RejectionSound ==
  RejectionTruthful /\ RejectionNeverContradicts /\ DiscoveryInputsKept

(* What a session returns, and the records of an enrolled run, claim no    *)
(* more than happened.                                                     *)
RecordsSound ==
  /\ ReturnedMeansRecorded
  /\ AttemptProvesOneCall
  /\ FailureTruthful
  /\ RejectionSound

(* "... and retained host inputs whenever container absence is uncertain": *)
(* the same of the container of the reviewed call.                         *)
ExecutionInputsKept ==
  container = "ours" \/ creation = "pending" =>
    target = "present" /\ resources = "present"

(* Whatever fails, the runner returns or throws.                           *)
EnrolledRunEnds == <>(pc = "done")

=============================================================================
