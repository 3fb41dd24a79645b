---------------------------- MODULE ControlledRun ----------------------------
(***************************************************************************)
(* runControlledOutcomeExperiment() of src/src/audit/v2/controlled-runner  *)
(* .ts: one guarded tools/call against a container that mounts two host    *)
(* directories (the prepared target and the synthetic resources), its      *)
(* cleanup through ContainerCleanup, and the evidence files it leaves.     *)
(*                                                                         *)
(* An action is the code between two awaits.  The authority's permits are  *)
(* the module ControlledAuthority, the transport RecordingTransport: here  *)
(* the first is the permit's state and whether its window is still open,   *)
(* the second is what a send may do.                                       *)
(*                                                                         *)
(* Environment: the prepared tree and the mounted resources may change on  *)
(* the host at any time (never back), the live catalog may differ from the *)
(* reviewed one, time may run out, and every file operation may fail.      *)
(***************************************************************************)
EXTENDS ContainerCleanup

VARIABLES
  pc,            (* where the controller stands                              *)
  permit,        (* "none", "issued" or "consumed"                           *)
  windowOpen,    (* the permit and the policy have not expired               *)
  tree,          (* the prepared target tree on the host                     *)
  files,         (* the mounted synthetic resources on the host              *)
  ranOnChanged,  (* history: our container existed over changed bytes        *)
  checkedTree,   (* what digestTargetTree() returned to the monitor          *)
  checks,        (* monitorChecks                                            *)
  monitorPassed,
  sentCalls,
  sessionFailed, (* primaryFailure # undefined                               *)
  hasResult,     (* mcpResult.toolResult # undefined                         *)
  target,        (* the preparedTarget directory                             *)
  resources,     (* the synthetic resource directory                         *)
  hostStatus,    (* hostTemporaryInputsStatus                                *)
  cleanupFile,   (* {} or the status last written to cleanup.json            *)
  failureFile,   (* {} or the record in failure.json                         *)
  attemptFile,   (* attempt.json is on disk                                  *)
  outcome        (* "running", "returned" or "threw"                         *)

authorityVars == <<permit, windowOpen>>
bytesVars == <<tree, files, ranOnChanged>>
monitorVars == <<checkedTree, checks, monitorPassed>>
sessionVars == <<sentCalls, sessionFailed, hasResult>>
inputVars == <<target, resources, hostStatus>>
fileVars == <<cleanupFile, failureFile, attemptFile>>
vars == <<cleanupVars, pc, authorityVars, bytesVars, monitorVars, sessionVars,
          inputVars, fileVars, outcome>>

Preparing == {"prepare", "issue", "materialize", "consume"}
InSession == {"connect", "digest", "verify", "revalidate", "call", "await"}
Finishing == {"persist", "dispose", "persistAgain", "writeFailure", "examine",
              "disposeChecked", "persistChecked", "record", "caught",
              "persistCaught", "writeCaught", "finally"}
Stages == {"session_before_monitor", "pre_dispatch_monitor",
           "transport_before_send", "runtime_or_protocol",
           "post_return_verification", "cleanup_verification"}
HostStatuses == {"pending", "verified_absent", "retained",
                 "verification_failed"}

Init ==
  /\ CleanupInit
  /\ pc = "prepare"
  /\ permit = "none"
  /\ windowOpen = TRUE
  /\ tree = "pinned"
  /\ files = "intact"
  /\ ranOnChanged = FALSE
  /\ checkedTree = {}
  /\ checks = 0
  /\ monitorPassed = FALSE
  /\ sentCalls = 0
  /\ sessionFailed = FALSE
  /\ hasResult = FALSE
  /\ target = "none"
  /\ resources = "none"
  /\ hostStatus = "pending"
  /\ cleanupFile = {}
  /\ failureFile = {}
  /\ attemptFile = FALSE
  /\ outcome = "running"

-----------------------------------------------------------------------------
(* The environment: host bytes change, time passes, the daemon answers.    *)
TreeChanges ==
  /\ target = "present"
  /\ tree' = "changed"
  /\ ranOnChanged' = (ranOnChanged \/ container = "ours")
  /\ UNCHANGED <<cleanupVars, pc, authorityVars, files, monitorVars,
                 sessionVars, inputVars, fileVars, outcome>>

FilesChange ==
  /\ resources = "present"
  /\ files' = "changed"
  /\ ranOnChanged' = (ranOnChanged \/ container = "ours")
  /\ UNCHANGED <<cleanupVars, pc, authorityVars, tree, monitorVars,
                 sessionVars, inputVars, fileVars, outcome>>

WindowCloses ==
  /\ windowOpen' = FALSE
  /\ UNCHANGED <<cleanupVars, pc, permit, bytesVars, monitorVars, sessionVars,
                 inputVars, fileVars, outcome>>

DaemonActs ==
  /\ DaemonStep
  /\ ranOnChanged' = (ranOnChanged \/ /\ container' = "ours"
                                      /\ tree = "changed" \/ files = "changed")
  /\ UNCHANGED <<pc, authorityVars, tree, files, monitorVars, sessionVars,
                 inputVars, fileVars, outcome>>

NameChanges ==
  /\ NameStep
  /\ UNCHANGED <<pc, authorityVars, bytesVars, monitorVars, sessionVars,
                 inputVars, fileVars, outcome>>

-----------------------------------------------------------------------------
(* prepareTarget(), then the digest of the prepared tree against the pin.  *)
PrepareTarget ==
  /\ pc = "prepare"
  /\ target' = "present"
  /\ pc' = "issue"
  /\ UNCHANGED <<cleanupVars, authorityVars, bytesVars, monitorVars,
                 sessionVars, resources, hostStatus, fileVars, outcome>>

(* The tree is digested, the permit issued, and five records are written.  *)
IssuePermit ==
  /\ pc = "issue"
  /\ tree = "pinned"
  /\ windowOpen
  /\ permit' = "issued"
  /\ pc' = "materialize"
  /\ UNCHANGED <<cleanupVars, windowOpen, bytesVars, monitorVars, sessionVars,
                 inputVars, fileVars, outcome>>

MaterializeResources ==
  /\ pc = "materialize"
  /\ resources' = "present"
  /\ pc' = "consume"
  /\ UNCHANGED <<cleanupVars, authorityVars, bytesVars, monitorVars,
                 sessionVars, target, hostStatus, fileVars, outcome>>

(* The permit is consumed, then containerMayExist is set and the session   *)
(* spawns `docker run`.                                                    *)
ConsumePermit ==
  /\ pc = "consume"
  /\ permit = "issued"
  /\ windowOpen
  /\ permit' = "consumed"
  /\ RequestContainer
  /\ pc' = "connect"
  /\ UNCHANGED <<windowOpen, bytesVars, monitorVars, sessionVars, inputVars,
                 fileVars, outcome>>

(* Any step before the session may throw: straight to the finally block.   *)
PreparationFails ==
  /\ pc \in Preparing
  /\ pc' = "finally"
  /\ outcome' = "threw"
  /\ UNCHANGED <<cleanupVars, authorityVars, bytesVars, monitorVars,
                 sessionVars, inputVars, fileVars>>

-----------------------------------------------------------------------------
(* initialize and tools/list succeeded: beforeToolCall is called.          *)
HookCalled ==
  /\ pc = "connect"
  /\ container = "ours"
  /\ checks' = checks + 1
  /\ pc' = "digest"
  /\ UNCHANGED <<cleanupVars, authorityVars, bytesVars, checkedTree,
                 monitorPassed, sessionVars, inputVars, fileVars, outcome>>

DigestTree ==
  /\ pc = "digest"
  /\ checkedTree' = {tree}
  /\ pc' = "verify"
  /\ UNCHANGED <<cleanupVars, authorityVars, bytesVars, checks, monitorPassed,
                 sessionVars, inputVars, fileVars, outcome>>

VerifyResources ==
  /\ pc = "verify"
  /\ files = "intact"
  /\ pc' = "revalidate"
  /\ UNCHANGED <<cleanupVars, authorityVars, bytesVars, monitorVars,
                 sessionVars, inputVars, fileVars, outcome>>

(* revalidateControlledDispatch(): the digest taken two awaits earlier     *)
(* must be the pinned one, and the permit's window open now.               *)
MonitorAccepts == checkedTree = {"pinned"} /\ windowOpen

Revalidate ==
  /\ pc = "revalidate"
  /\ MonitorAccepts
  /\ monitorPassed' = TRUE
  /\ pc' = "call"
  /\ UNCHANGED <<cleanupVars, authorityVars, bytesVars, checkedTree, checks,
                 sessionVars, inputVars, fileVars, outcome>>

(* RecordingTransport hands the recorded call to the wire and reports it:  *)
(* while the call is awaited, or after its timeout while the failed phase  *)
(* is being written and the transport is still open.                       *)
CallSent ==
  /\ pc \in {"call", "timedOut"}
  /\ sentCalls' = sentCalls + 1
  /\ pc' = IF pc = "call" THEN "await" ELSE "close"
  /\ UNCHANGED <<cleanupVars, authorityVars, bytesVars, monitorVars,
                 sessionFailed, hasResult, inputVars, fileVars, outcome>>

CallTimesOut ==
  /\ pc = "call"
  /\ sessionFailed' = TRUE
  /\ pc' = "timedOut"
  /\ UNCHANGED <<cleanupVars, authorityVars, bytesVars, monitorVars,
                 sentCalls, hasResult, inputVars, fileVars, outcome>>

CallUnsent ==
  /\ pc = "timedOut"
  /\ pc' = "close"
  /\ UNCHANGED <<cleanupVars, authorityVars, bytesVars, monitorVars,
                 sessionVars, inputVars, fileVars, outcome>>

ResultArrives ==
  /\ pc = "await"
  /\ hasResult' = TRUE
  /\ pc' = "close"
  /\ UNCHANGED <<cleanupVars, authorityVars, bytesVars, monitorVars,
                 sentCalls, sessionFailed, inputVars, fileVars, outcome>>

(* Mutant: the wait for the result of the call has no timeout.             *)
SessionFailsUnlessAwaiting ==
  /\ pc \in InSession \ {"await"}
  /\ sessionFailed' = TRUE
  /\ pc' = "close"
  /\ UNCHANGED <<cleanupVars, authorityVars, bytesVars, monitorVars,
                 sentCalls, hasResult, inputVars, fileVars, outcome>>

(* A timeout, a refused check, a transport failure, a target that exits.   *)
SessionFails ==
  /\ pc \in InSession
  /\ sessionFailed' = TRUE
  /\ pc' = "close"
  /\ UNCHANGED <<cleanupVars, authorityVars, bytesVars, monitorVars,
                 sentCalls, hasResult, inputVars, fileVars, outcome>>

(* runMcpExperiment() closes the session, which may fail, and settles;     *)
(* removeManagedContainer() is called whatever the session did.            *)
CloseSession ==
  /\ pc = "close"
  /\ CleanupCalled
  /\ sessionFailed' \in {sessionFailed, TRUE}
  /\ pc' = "cleanup"
  /\ UNCHANGED <<authorityVars, bytesVars, monitorVars, sentCalls, hasResult,
                 inputVars, fileVars, outcome>>

CleanupRuns ==
  /\ pc = "cleanup"
  /\ CleanupStep
  /\ IF cleanup' \in {"verified", "failed"}
     THEN /\ pc' = "persist"
          /\ hostStatus' =
                IF cleanup' = "verified" THEN "pending" ELSE "retained"
     ELSE UNCHANGED <<pc, hostStatus>>
  /\ UNCHANGED <<authorityVars, bytesVars, monitorVars, sessionVars, target,
                 resources, fileVars, outcome>>

-----------------------------------------------------------------------------
(* persistCleanupEvidence(): one status made of both components.           *)
CleanupStatus ==
  IF cleanup # "verified" THEN "verification_failed"
  ELSE IF hostStatus \in {"pending", "verified_absent"} THEN hostStatus
  ELSE "verification_failed"

Persist(from, to) ==
  /\ pc = from
  /\ cleanupFile' = {CleanupStatus}
  /\ pc' = to
  /\ UNCHANGED <<cleanupVars, authorityVars, bytesVars, monitorVars,
                 sessionVars, inputVars, failureFile, attemptFile, outcome>>

(* The write fails outside every catch: no failure record is written.      *)
PersistThrows ==
  /\ pc \in {"persist", "persistAgain"}
  /\ pc' = "finally"
  /\ outcome' = "threw"
  /\ UNCHANGED <<cleanupVars, authorityVars, bytesVars, monitorVars,
                 sessionVars, inputVars, fileVars>>

RunFailed ==
  \/ cleanup = "failed" \/ sessionFailed
  \/ checks # 1 \/ sentCalls # 1 \/ ~hasResult

(* The first record of the cleanup decides which way the run goes on.      *)
PersistFirst ==
  Persist("persist", IF ~RunFailed THEN "examine"
                     ELSE IF cleanup = "failed" THEN "writeFailure"
                     ELSE "dispose")

(* disposeHostTemporaryInputs(): each directory is removed or is not.      *)
RemoveInputs ==
  /\ resources' = "gone" \/ resources' = resources
  /\ target' = "gone" \/ target' = target

Dispose(from, to) ==
  /\ pc = from
  /\ RemoveInputs
  /\ hostStatus' = IF resources' = "gone" /\ target' = "gone"
                   THEN "verified_absent" ELSE "verification_failed"
  /\ pc' = to
  /\ UNCHANGED <<cleanupVars, authorityVars, bytesVars, monitorVars,
                 sessionVars, fileVars, outcome>>

(* Mutant: the stage says what the monitor did, not what was sent.         *)
StageWithoutSend ==
  IF cleanup = "failed" \/ hostStatus # "verified_absent"
  THEN "cleanup_verification"
  ELSE IF checks = 0 THEN "session_before_monitor"
  ELSE IF ~monitorPassed THEN "pre_dispatch_monitor"
  ELSE IF ~hasResult THEN "transport_before_send"
  ELSE "runtime_or_protocol"

CleanupFailed == cleanup = "failed" \/ hostStatus # "verified_absent"

FailureStage ==
  IF CleanupFailed THEN "cleanup_verification"
  ELSE IF checks = 0 THEN "session_before_monitor"
  ELSE IF ~monitorPassed THEN "pre_dispatch_monitor"
  ELSE IF sentCalls = 0 THEN "transport_before_send"
  ELSE "runtime_or_protocol"

(* writeControlledFailureEvidence(): failure.json is written, or not.      *)
WriteFailure(from, stage, sent) ==
  /\ pc = from
  /\ failureFile' \in
       {failureFile,
        {[stage |-> stage, sent |-> sent, cleanupFailed |-> CleanupFailed]}}
  /\ pc' = "finally"
  /\ outcome' = "threw"
  /\ UNCHANGED <<cleanupVars, authorityVars, bytesVars, monitorVars,
                 sessionVars, inputVars, cleanupFile, attemptFile>>

(* Mutant: the mounted resources are not verified again after the call.    *)
ExaminedTreeOnly == tree = "pinned"

(* The call went through: the tree, the resources and the transcript are   *)
(* examined; a mismatch is caught.                                         *)
Examined == tree = "pinned" /\ files = "intact"

ExaminePasses ==
  /\ pc = "examine"
  /\ Examined
  /\ pc' = "disposeChecked"
  /\ UNCHANGED <<cleanupVars, authorityVars, bytesVars, monitorVars,
                 sessionVars, inputVars, fileVars, outcome>>

(* Anything that throws in the block: a mismatch, a write, a verification. *)
PostReturnThrows ==
  /\ pc \in {"examine", "persistChecked", "record"}
  /\ pc' = "caught"
  /\ UNCHANGED <<cleanupVars, authorityVars, bytesVars, monitorVars,
                 sessionVars, inputVars, fileVars, outcome>>

PersistChecked ==
  Persist("persistChecked",
          IF hostStatus = "verified_absent" THEN "record" ELSE "caught")

(* Observation, comparison and attempt are built, verified and written.    *)
RecordAttempt ==
  /\ pc = "record"
  /\ attemptFile' = TRUE
  /\ outcome' = "returned"
  /\ pc' = "finally"
  /\ UNCHANGED <<cleanupVars, authorityVars, bytesVars, monitorVars,
                 sessionVars, inputVars, cleanupFile, failureFile>>

(* The catch block: dispose if that is still to do, persist, write.        *)
CaughtBeforeDisposal ==
  /\ hostStatus = "pending"
  /\ Dispose("caught", "persistCaught")

CaughtAfterDisposal ==
  /\ hostStatus # "pending"
  /\ WriteFailure("caught", "post_return_verification", 1)

PersistCaughtThrows ==
  /\ pc = "persistCaught"
  /\ pc' = "finally"
  /\ outcome' = "threw"
  /\ UNCHANGED <<cleanupVars, authorityVars, bytesVars, monitorVars,
                 sessionVars, inputVars, fileVars>>

(* Mutant: the finally block disposes of the inputs in every case.         *)
DisposalAlwaysAllowed == TRUE

(* !containerMayExist || containerCleanupVerified                          *)
DisposalAllowed == permit # "consumed" \/ cleanup = "verified"

Finally ==
  /\ pc = "finally"
  /\ IF DisposalAllowed
     THEN /\ resources' \in IF resources = "none" THEN {"none"}
                            ELSE {"gone", resources}
          /\ target' \in IF target = "none" THEN {"none"} ELSE {"gone", target}
     ELSE UNCHANGED <<resources, target>>
  /\ pc' = "done"
  /\ UNCHANGED <<cleanupVars, authorityVars, bytesVars, monitorVars,
                 sessionVars, hostStatus, fileVars, outcome>>

-----------------------------------------------------------------------------
Prepare == PrepareTarget \/ IssuePermit \/ MaterializeResources
           \/ ConsumePermit \/ PreparationFails

Session == DigestTree \/ VerifyResources \/ Revalidate \/ CallSent
           \/ CallTimesOut \/ CallUnsent \/ SessionFails \/ CloseSession
           \/ CleanupRuns

(* What the target process must do: nothing makes it.                      *)
TargetAnswers == HookCalled \/ ResultArrives

FailedRun == \/ PersistFirst
             \/ Dispose("dispose", "persistAgain")
             \/ Persist("persistAgain", "writeFailure")
             \/ PersistThrows
             \/ WriteFailure("writeFailure", FailureStage,
                             IF sentCalls = 0 THEN 0 ELSE 1)

CheckedRun == \/ ExaminePasses
              \/ Dispose("disposeChecked", "persistChecked")
              \/ PersistChecked
              \/ PostReturnThrows
              \/ RecordAttempt
              \/ CaughtBeforeDisposal
              \/ Persist("persistCaught", "writeCaught")
              \/ PersistCaughtThrows
              \/ WriteFailure("writeCaught", "post_return_verification", 1)
              \/ CaughtAfterDisposal

Controller == Prepare \/ Session \/ FailedRun \/ CheckedRun \/ Finally

Environment ==
  TreeChanges \/ FilesChange \/ WindowCloses \/ DaemonActs \/ NameChanges

Next == Controller \/ TargetAnswers \/ Environment

Spec == Init /\ [][Next]_vars

(* Every await of the controller settles: file operations return or fail,  *)
(* the session has deadlines, the cleanup's commands have theirs.  Nothing *)
(* is assumed of the target process.                                       *)
FairSpec == Spec /\ WF_vars(Controller) /\ WF_vars(DaemonActs)

-----------------------------------------------------------------------------
(* Types of the controller's variables.                                    *)
TypeOK ==
  /\ CleanupTypeOK
  /\ pc \in Preparing \union InSession \union Finishing
            \union {"timedOut", "close", "cleanup", "done"}
  /\ permit \in {"none", "issued", "consumed"}
  /\ windowOpen \in BOOLEAN
  /\ tree \in {"pinned", "changed"}
  /\ files \in {"intact", "changed"}
  /\ ranOnChanged \in BOOLEAN
  /\ checkedTree \subseteq {"pinned", "changed"}
  /\ checks \in 0..1
  /\ monitorPassed \in BOOLEAN
  /\ sentCalls \in 0..1
  /\ sessionFailed \in BOOLEAN
  /\ hasResult \in BOOLEAN
  /\ target \in {"none", "present", "gone"}
  /\ resources \in {"none", "present", "gone"}
  /\ hostStatus \in HostStatuses
  /\ cleanupFile \subseteq {"pending", "verified_absent",
                            "verification_failed"}
  /\ failureFile \subseteq [stage: Stages, sent: 0..1, cleanupFailed: BOOLEAN]
  /\ attemptFile \in BOOLEAN
  /\ outcome \in {"running", "returned", "threw"}

(* "Host temporary inputs were retained because the container may still    *)
(* reference them": while our container exists, or the daemon may still    *)
(* create it, neither of the directories it mounts has been disposed of.   *)
InputsOutliveContainer ==
  container = "ours" \/ creation = "pending" =>
    target = "present" /\ resources = "present"

(* An attempt record is proof of a finished run: exactly one call was sent *)
(* after a passed monitor, the mounted bytes were the pinned ones to the   *)
(* end, nothing of the sandbox is left, cleanup.json says so, and there is *)
(* no failure record beside it.                                            *)
AttemptIsConclusive ==
  attemptFile =>
    /\ monitorPassed /\ checks = 1 /\ sentCalls = 1 /\ hasResult
    /\ permit = "consumed"
    /\ ~ranOnChanged
    /\ container # "ours" /\ creation # "pending"
    /\ target = "gone" /\ resources = "gone"
    /\ cleanupFile = {"verified_absent"}
    /\ failureFile = {}
    /\ ~sessionFailed

PreSendStages ==
  {"session_before_monitor", "pre_dispatch_monitor", "transport_before_send"}

(* The failure record tells the truth: a pre-send stage and sentCalls = 0  *)
(* only when nothing was sent, and a verified cleanup only when the        *)
(* container and both directories are gone for good.                       *)
FailureRecordTruthful ==
  \A f \in failureFile :
    /\ f.sent = sentCalls
    /\ f.stage \in PreSendStages => sentCalls = 0
    /\ f.stage = "transport_before_send" => monitorPassed
    /\ ~f.cleanupFailed => /\ container # "ours" /\ creation # "pending"
                           /\ target = "gone" /\ resources = "gone"

(* The one call is only ever sent after the monitor saw the pinned tree.   *)
SentOnlyChecked ==
  sentCalls > 0 => monitorPassed /\ checkedTree = {"pinned"}

(* The failure record cites cleanup.json as the evidence of a verified     *)
(* cleanup: the file then says that the cleanup is verified.               *)
CleanupFileAgrees ==
  \A f \in failureFile : ~f.cleanupFailed => cleanupFile = {"verified_absent"}

=============================================================================
