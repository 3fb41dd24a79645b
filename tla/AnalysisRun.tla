------------------------------ MODULE AnalysisRun ------------------------------
(***************************************************************************)
(* analyzeTarget() of src/src/analyze.ts with prepareTarget() and          *)
(* observeInstallLifecycle(): a target is acquired, its npm lifecycle is   *)
(* observed twice (scripts off, scripts on), it is started once to list    *)
(* its tools and once for each configured call, every time in a container  *)
(* of its own; the traces are normalised, the rules evaluated, and run.json *)
(* says how it all ended.                                                  *)
(*                                                                         *)
(* Any file or docker operation may fail.  What a failure must not do is   *)
(* to lose the manifest or to let it claim more than was observed.         *)
(***************************************************************************)
EXTENDS NpmContainer

CONSTANT Calls  (* how many tool calls are configured                        *)

ASSUME CallsAssumption == Calls \in Nat

VARIABLES
  step,       (* where analyzeTarget() stands                                *)
  manifest,   (* {} or {the status in run.json}                              *)
  prepared,   (* its directory: "none", "present", "gone", or "orphaned"     *)
              (* when the cleanup of a failed preparation failed too         *)
  cached,     (* hostNpmCache # undefined                                    *)
  installs,   (* the directory of the two installs                           *)
  observed,   (* installObservation # undefined                              *)
  outcomes,   (* mode -> {} or {its status in phases.jsonl and install.json} *)
  snapshot,   (* {} or {what provenance.json says was run}                   *)
  baseline,   (* the "before" state of the experiment under way is captured  *)
  deltas,     (* experiments with a filesystem delta                         *)
  sessions,   (* experiments whose session returned                          *)
  health,     (* observationHealth: "none", "partial" or "events"            *)
  delta,      (* the install delta is computed                               *)
  reported,   (* report and findings are written                             *)
  left,       (* history: containers that may exist although their owner     *)
              (* went on: {} or names                                        *)
  ended       (* "running", "returned" or "threw"                            *)

setupVars == <<prepared, cached, installs, observed, outcomes, snapshot>>
resultVars == <<baseline, deltas, sessions, health, delta, reported>>
analysisVars == <<step, manifest, setupVars, resultVars, left, ended>>
allAnalysisVars == <<cleanupVars, sessionVars, npmVars, analysisVars>>

Modes == {"disabled", "enabled"}
AnalysisInit ==
  /\ CleanupInit /\ SessionInit /\ NpmInit
  /\ step = "start"
  /\ manifest = {}
  /\ prepared = "none" /\ cached = FALSE /\ installs = "none"
  /\ observed = FALSE
  /\ outcomes = [m \in Modes |-> {}]
  /\ snapshot = {}
  /\ baseline = FALSE /\ deltas = 0 /\ sessions = 0
  /\ health = "none" /\ delta = FALSE /\ reported = FALSE
  /\ left = {}
  /\ ended = "running"

-----------------------------------------------------------------------------
(* The image is ensured, the store created, target.json and run.json       *)
(* written: before the try block, so an error here leaves what there is.   *)
RunStarts ==
  /\ step = "start"
  /\ step' = "prepare"
  /\ manifest' = {"running"}
  /\ UNCHANGED <<cleanupVars, sessionVars, npmVars, setupVars, resultVars,
                 left, ended>>

StartFails ==
  /\ step = "start"
  /\ step' = "done" /\ ended' = "threw"
  /\ UNCHANGED <<cleanupVars, sessionVars, npmVars, manifest, setupVars,
                 resultVars, left>>

(* What may still exist under the name of the container just left behind.  *)
LeftBehind(name) ==
  IF container = "ours" \/ creation = "pending" THEN {name} ELSE {}

(* A step of the try block that throws.                                    *)
TryThrows ==
  /\ step \in {"inspect", "mode", "choose", "static", "before",
               "after", "normalize", "health", "delta", "evaluate", "complete"}
  /\ step' = IF step = "mode" THEN "abandon" ELSE "caught"
  /\ UNCHANGED <<cleanupVars, sessionVars, npmVars, manifest, setupVars,
                 resultVars, left, ended>>

(* prepareTarget() throws: what it made is removed, or its own error says  *)
(* that it could not be.                                                   *)
PreparationThrows ==
  /\ step = "prepare"
  /\ prepared' \in {"gone", "orphaned"}
  /\ step' = "caught"
  /\ UNCHANGED <<cleanupVars, sessionVars, npmVars, manifest, cached,
                 installs, observed, outcomes, snapshot, resultVars, left,
                 ended>>

(* A local target that needs no npm is copied.                             *)
TargetCopied ==
  /\ step = "prepare"
  /\ prepared' = "present"
  /\ step' = "inspect"
  /\ UNCHANGED <<cleanupVars, sessionVars, npmVars, manifest, cached,
                 installs, observed, outcomes, snapshot, resultVars, left,
                 ended>>

AcquisitionStarts ==
  /\ step = "prepare"
  /\ StartNpm("acquisition")
  /\ prepared' = "present"
  /\ step' = "acquire"
  /\ UNCHANGED <<manifest, cached, installs, observed, outcomes, snapshot,
                 resultVars, left, ended>>

(* prepareTarget() after runNpmInstall(): the lock file is read, digested  *)
(* and preserved; or everything is removed again, as far as that succeeds. *)
AcquisitionEnds ==
  /\ step = "acquire"
  /\ NpmReturned
  /\ \/ /\ Acquired
        /\ cached' = TRUE
        /\ step' = "inspect"
        /\ UNCHANGED prepared
     \/ /\ prepared' \in {"gone", "orphaned"}
        /\ step' = "caught"
        /\ UNCHANGED cached
  /\ left' = left \union LeftBehind("acquisition")
  /\ UNCHANGED <<cleanupVars, sessionVars, manifest, installs, observed,
                 outcomes, snapshot, resultVars, ended>>

(* The package is inspected before anything of it has run.                 *)
PreInspected ==
  /\ step = "inspect"
  /\ step' = IF cached THEN "mode" ELSE "choose"
  /\ installs' = IF cached THEN "present" ELSE installs
  /\ UNCHANGED <<cleanupVars, sessionVars, npmVars, manifest, prepared,
                 cached, observed, outcomes, snapshot, resultVars, left, ended>>

(* The mode that is installed next: scripts disabled first.                *)
NextMode == IF outcomes["disabled"] = {} THEN "disabled" ELSE "enabled"

InstallStarts ==
  /\ step = "mode"
  /\ StartNpm("lifecycle")
  /\ step' = "install"
  /\ UNCHANGED <<manifest, setupVars, resultVars, left, ended>>

(* The phase is appended, install.json written.  Logs that cannot be       *)
(* written make the outcome a failure with that error.                     *)
InstallRecorded ==
  /\ step = "install"
  /\ NpmReturned
  /\ \E o \in {[status |-> InstallStatus, error |-> InstallError],
               [status |-> "failed", error |-> TRUE]} :
       outcomes' = [outcomes EXCEPT ![NextMode] = {o}]
  /\ left' = left \union LeftBehind(NextMode)
  /\ \/ /\ step' = IF NextMode = "disabled" THEN "mode" ELSE "choose"
        /\ observed' = (NextMode = "enabled")
     \/ step' = "abandon" /\ UNCHANGED observed
  /\ UNCHANGED <<cleanupVars, sessionVars, manifest, prepared, cached,
                 installs, snapshot, resultVars, ended>>

(* observeInstallLifecycle() throws: its directory is removed, or is not.  *)
InstallsAbandoned ==
  /\ step = "abandon"
  /\ installs' \in {"present", "gone"}
  /\ step' = "caught"
  /\ UNCHANGED <<cleanupVars, sessionVars, npmVars, manifest, prepared,
                 cached, observed, outcomes, snapshot, resultVars, left, ended>>

Completed(m) == \E o \in outcomes[m] : o.status = "completed"

(* The tree to run: the one whose scripts ran, if that install completed.  *)
RuntimeSnapshot == IF observed /\ Completed("enabled")
                   THEN "enabled" ELSE "disabled"

SnapshotChosen ==
  /\ step = "choose"
  /\ snapshot' = {RuntimeSnapshot}
  /\ step' = "static"
  /\ UNCHANGED <<cleanupVars, sessionVars, npmVars, manifest, prepared,
                 cached, installs, observed, outcomes, resultVars, left, ended>>

StaticallyInspected ==
  /\ step = "static"
  /\ step' = "before"
  /\ UNCHANGED <<cleanupVars, sessionVars, npmVars, manifest, setupVars,
                 resultVars, left, ended>>

-----------------------------------------------------------------------------
(* The profile and the invocation are made, the file system captured, and  *)
(* the session started.                                                    *)
ExperimentStarts ==
  /\ step = "before"
  /\ NewContainer
  /\ session' = "connect" /\ withTool' = (sessions > 0)
  /\ phases' = <<>> /\ retained' = FALSE /\ sentCalls' = 0
  /\ baseline' = TRUE
  /\ step' = "session"
  /\ UNCHANGED <<errorVars, npmVars, manifest, setupVars, deltas, sessions,
                 health, delta, reported, left, ended>>

ExperimentEnds ==
  /\ step = "session" /\ session \in Settled
  /\ CleanupCalled
  /\ step' = "remove"
  /\ UNCHANGED <<sessionVars, npmVars, manifest, setupVars, resultVars, left,
                 ended>>

(* finally: a removal that fails hides what the session threw, and skips   *)
(* the second capture.                                                     *)
ExperimentRemoval ==
  /\ step = "remove"
  /\ CleanupStep
  /\ step' = CASE cleanup' = "verified" -> "after"
               [] cleanup' = "failed" -> "caught"
               [] OTHER -> step
  /\ left' = IF cleanup' = "failed" THEN left \union {"session"} ELSE left
  /\ UNCHANGED <<sessionVars, npmVars, manifest, setupVars, resultVars, ended>>

(* Mutant: what the session threw is forgotten once the state is captured. *)
NextExperiment == IF deltas < Calls THEN "before" ELSE "normalize"

AfterCapture ==
  IF session = "threw" THEN "caught"
  ELSE IF deltas < Calls THEN "before" ELSE "normalize"

StateCaptured ==
  /\ step = "after"
  /\ baseline
  /\ baseline' = FALSE
  /\ deltas' = deltas + 1
  /\ sessions' = IF session = "returned" THEN sessions + 1 ELSE sessions
  /\ step' = AfterCapture
  /\ UNCHANGED <<cleanupVars, sessionVars, npmVars, manifest, setupVars,
                 health, delta, reported, left, ended>>

EventsNormalized ==
  /\ step = "normalize"
  /\ step' = "health"
  /\ UNCHANGED <<cleanupVars, sessionVars, npmVars, manifest, setupVars,
                 resultVars, left, ended>>

HealthWritten ==
  /\ step = "health"
  /\ health' = "events"
  /\ step' = "delta"
  /\ UNCHANGED <<cleanupVars, sessionVars, npmVars, manifest, setupVars,
                 baseline, deltas, sessions, delta, reported, left, ended>>

(* compareInstallLifecycle(), when both installs completed.                *)
InstallsCompared ==
  /\ step = "delta"
  /\ delta' = (observed /\ Completed("disabled") /\ Completed("enabled"))
  /\ step' = "evaluate"
  /\ UNCHANGED <<cleanupVars, sessionVars, npmVars, manifest, setupVars,
                 baseline, deltas, sessions, health, reported, left, ended>>

(* attributeEvents(), evaluateRuntimeRules(), writeReport()                *)
Evaluated ==
  /\ step = "evaluate"
  /\ reported' = TRUE
  /\ step' = "complete"
  /\ UNCHANGED <<cleanupVars, sessionVars, npmVars, manifest, setupVars,
                 baseline, deltas, sessions, health, delta, left, ended>>

(* The artifacts are collected and digested, and run.json is replaced.     *)
CompletedManifestWritten ==
  /\ step = "complete"
  /\ manifest' = {"completed"}
  /\ step' = "dispose" /\ ended' = "returned"
  /\ UNCHANGED <<cleanupVars, sessionVars, npmVars, setupVars, resultVars,
                 left>>

(* The catch block: the health of what was traced, as far as it goes, and  *)
(* the manifest of a failed run, unless it cannot be written.              *)
FailedManifestWritten ==
  /\ step = "caught"
  /\ health' \in IF health = "none" THEN {"none", "partial"} ELSE {health}
  /\ manifest' \in {{"failed"}, manifest}
  /\ step' = "dispose" /\ ended' = "threw"
  /\ UNCHANGED <<cleanupVars, sessionVars, npmVars, setupVars, baseline,
                 deltas, sessions, delta, reported, left>>

(* finally: both directories are disposed of, best effort.                 *)
Disposed ==
  /\ step = "dispose"
  /\ installs' \in IF observed THEN {"present", "gone"} ELSE {installs}
  /\ prepared' \in IF prepared = "present" THEN {"present", "gone"}
                   ELSE {prepared}
  /\ step' = "done"
  /\ UNCHANGED <<cleanupVars, sessionVars, npmVars, manifest, cached,
                 observed, outcomes, snapshot, resultVars, left, ended>>

-----------------------------------------------------------------------------
NpmRuns ==
  /\ step \in {"acquire", "install"}
  /\ NpmStep
  /\ UNCHANGED analysisVars

ClientRuns ==
  /\ step \in {"acquire", "install"}
  /\ ClientActs
  /\ UNCHANGED analysisVars

ClientEnds ==
  /\ step \in {"acquire", "install"}
  /\ ClientMustEnd
  /\ UNCHANGED analysisVars

ExperimentRuns ==
  /\ step = "session"
  /\ SessionStep
  /\ UNCHANGED <<cleanupVars, npmVars, analysisVars>>

(* There is no beforeToolCall() here.                                      *)
CallArmed ==
  /\ step = "session"
  /\ HookPassed
  /\ UNCHANGED <<cleanupVars, npmVars, analysisVars>>

AnalysisDaemon ==
  /\ DaemonStep /\ ended = "running"
  /\ UNCHANGED <<sessionVars, npmVars, analysisVars>>

AnalysisName ==
  /\ NameStep /\ ended = "running"
  /\ UNCHANGED <<sessionVars, npmVars, analysisVars>>

AnalysisTarget ==
  TargetAnswers /\ UNCHANGED <<cleanupVars, npmVars, analysisVars>>

AnalysisRecording ==
  RecordingFails /\ UNCHANGED <<cleanupVars, npmVars, analysisVars>>

AnalysisController ==
  \/ RunStarts \/ StartFails \/ TryThrows \/ PreparationThrows \/ TargetCopied
  \/ AcquisitionStarts \/ AcquisitionEnds \/ PreInspected \/ InstallStarts
  \/ InstallRecorded \/ InstallsAbandoned \/ SnapshotChosen
  \/ StaticallyInspected \/ ExperimentStarts \/ ExperimentEnds
  \/ ExperimentRemoval \/ StateCaptured \/ EventsNormalized \/ HealthWritten
  \/ InstallsCompared \/ Evaluated \/ CompletedManifestWritten
  \/ FailedManifestWritten \/ Disposed \/ NpmRuns \/ ExperimentRuns
  \/ CallArmed

AnalysisNext ==
  \/ AnalysisController \/ ClientRuns \/ AnalysisDaemon \/ AnalysisName
  \/ AnalysisTarget \/ AnalysisRecording

(* Every docker command and session has a deadline, and the timeout of an  *)
(* install fires; the daemon serves a pending request or drops it.         *)
AnalysisSpec ==
  /\ AnalysisInit /\ [][AnalysisNext]_allAnalysisVars
  /\ WF_allAnalysisVars(AnalysisController)
  /\ WF_allAnalysisVars(AnalysisDaemon)
  /\ WF_allAnalysisVars(ClientEnds)

-----------------------------------------------------------------------------
(* A completed manifest stands for a complete run: every experiment was    *)
(* recorded to its end and its file system compared, the observation       *)
(* health rests on the events, the tree that was run is the one provenance *)
(* says and its install completed, and an install delta is there exactly   *)
(* when both installs completed.                                           *)
CompletedMeansObserved ==
  manifest = {"completed"} =>
    /\ sessions = Calls + 1 /\ deltas = Calls + 1
    /\ reported /\ health = "events"
    /\ cached <=> observed
    /\ snapshot = {"enabled"} <=> observed /\ Completed("enabled")
    /\ delta <=> observed /\ \A m \in Modes : Completed(m)

(* When the manifest says completed, a container of the run can only be    *)
(* left of an install whose record says that its removal failed.           *)
CompletedLeavesNothing ==
  manifest = {"completed"} =>
    /\ left \subseteq {m \in Modes : \E o \in outcomes[m] : o.error}
    /\ container # "ours" /\ creation # "pending"

(* What the analysis writes is what happened, in run.json and in the       *)
(* outcome of each install.                                                *)
AnalysisSound ==
  CompletedMeansObserved /\ CompletedLeavesNothing /\ NpmOutcomeTruthful

(* analyzeTarget() has returned, with a completed manifest, or thrown.      *)
AnalysisSettled ==
  step = "done" /\ (ended = "returned" => manifest = {"completed"})

=============================================================================
