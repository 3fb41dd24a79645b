------------------------------ MODULE RunProofs ------------------------------
(***************************************************************************)
(* Theorems about the runs that start and remove containers, for every     *)
(* number of configured calls, of cleanup checks, and every delay of the   *)
(* daemon that the checks outlast: analyzeTarget(), and                    *)
(* runEnrolledOutcomeExperiment() with the comparison of its outcomes.     *)
(*                                                                         *)
(* The argument for the first: a completed manifest is written at the end  *)
(* of one path only, and what it claims is gathered along that path, each  *)
(* claim from the step that settles it on.  The containers of that path    *)
(* are those of experiments, whose removal was verified by the loop        *)
(* (ContainerCleanupProofs), and those of npm: a client that ended by      *)
(* itself took its container along, and one that was killed leaves the     *)
(* matter to a removal, whose failure the record of the install tells.     *)
(*                                                                         *)
(* For the second: the two containers are requested over both inputs, each *)
(* by a session whose phases, while nothing has failed, are those of its   *)
(* place; a removal that is called again starts over, so what a verified   *)
(* one means is the same on every path (ContainerCleanupProofs).  Which of *)
(* the two branches catches an error is told by the stage, and the stage   *)
(* by the step that threw.                                                 *)
(***************************************************************************)
EXTENDS AnalysisRun, EnrolledRun, OutcomeComparison, ContainerCleanupProofs,
        SequenceTheorems, FiniteSetTheorems

(* The container is not there, and no request can bring it up.             *)
NothingLeft == container # "ours" /\ creation # "pending"

(* The function that runs npm, where an install is under way.              *)
NpmInv ==
  /\ npm \in {"none", "running", "exited", "removing", "settled"}
  /\ step \in {"acquire", "install"} <=> npm # "none"
  /\ step = "acquire" => kind = "acquisition"
  /\ step = "install" => kind = "lifecycle"
  /\ npm \in {"exited", "removing", "settled"} /\ ~timedOut => NothingLeft
  /\ npm = "settled" => Removed
  /\ npm # "none" /\ cleanup = "failed" => removalError

(* Whose removal is the loop, and what a verified one leaves.              *)
Experiments == {"session", "remove", "after"}
Finishing == {"normalize", "health", "delta", "evaluate", "complete"}

ContainerInv ==
  /\ step \in {"install", "session", "remove"} => CleanupIInv
  /\ step = "after" \/ step \in Finishing => NothingLeft
  /\ step \in {"remove", "after"} => session \in Settled

(* The tree and the installs, from the step that settles them on.          *)
Installing == {"start", "prepare", "acquire", "inspect", "mode", "install"}
Chosen == {"static", "before"} \union Experiments \union Finishing
Going == Installing \union {"choose"} \union Chosen

(* The installs whose record has an error.                                 *)
Erring == {m \in Modes : \E o \in outcomes[m] : o.error}
BothCompleted == observed /\ \A m \in Modes : Completed(m)

SetupInv ==
  /\ DOMAIN outcomes = Modes
  /\ step \in Installing => outcomes["enabled"] = {} /\ ~observed
  /\ step \in {"mode", "install"} => cached
  /\ step = "choose" \/ step \in Chosen => (cached <=> observed)
  /\ step \in Chosen =>
       (snapshot = {"enabled"} <=> observed /\ Completed("enabled"))
  /\ step \in Going => left \subseteq Erring

(* One experiment more than configured calls, each counted at its end.     *)
ResultInv ==
  /\ deltas \in Nat /\ sessions \in Nat
  /\ step \in Installing \union {"choose", "static"} => deltas = 0
  /\ step \in Going => sessions = deltas
  /\ step \in {"before"} \union Experiments => deltas <= Calls
  /\ step \in Finishing => deltas = Calls + 1
  /\ step \in {"delta", "evaluate", "complete"} => health = "events"
  /\ step \in {"evaluate", "complete"} => (delta <=> BothCompleted)
  /\ step = "complete" => reported

ManifestInv ==
  manifest = {"completed"} =>
    /\ step \in {"dispose", "done"}
    /\ NothingLeft /\ left \subseteq Erring
    /\ sessions = Calls + 1 /\ deltas = Calls + 1
    /\ reported /\ health = "events" /\ (cached <=> observed)
    /\ snapshot = {"enabled"} <=> observed /\ Completed("enabled")
    /\ delta <=> BothCompleted

AnalysisInv ==
  /\ creation = "pending" => container # "ours"
  /\ NpmInv /\ ContainerInv /\ SetupInv /\ ResultInv /\ ManifestInv

-----------------------------------------------------------------------------
(* The initial states satisfy the invariant.                               *)
LEMMA AnalysisInitially == AnalysisInit => AnalysisInv
  BY CallsAssumption
  DEF AnalysisInit, CleanupInit, SessionInit, NpmInit, AnalysisInv, NpmInv,
      ContainerInv, SetupInv, ResultInv, ManifestInv, NothingLeft, Erring,
      Modes, Installing, Chosen, Experiments, Finishing, Going

(* A removal that is verified by the loop leaves nothing.                  *)
LEMMA VerifiedLeavesNothing ==
  ASSUME CleanupIInv, cleanup = "verified"
  PROVE  NothingLeft
  BY DEF CleanupIInv, AbsencesPaid, NothingLeft

(* A container with a name of its own has a removal of its own.            *)
LEMMA NewContainerFresh ==
  ASSUME NewContainer
  PROVE  CleanupIInv'
<1>1. taken' \in BOOLEAN
  BY Zenon DEF NewContainer
<1> QED
  BY <1>1, CleanupAssumption
  DEF NewContainer, CleanupIInv, CleanupTypeOK, AbsencesPaid, CleanupStates,
      Looping

(* No removal asks for a container, or brings one up.                      *)
LEMMA RemovalsOnlyRemove ==
  ASSUME CleanupStep \/ InspectOnce \/ RemoveOnce
  PROVE  creation' = creation /\ container' \in {"absent", container}
  BY DEF CleanupStep, InspectAbsent, InspectPresent, InspectForeign,
         InspectFails, RemoveReturns, RemoveFails, Settle, InspectOnce,
         RemoveOnce, daemonVars

(* Where the removal is the loop, it starts and goes on as the loop does.  *)
LEMMA LoopKept ==
  ASSUME AnalysisInv, [AnalysisNext]_allAnalysisVars,
         step' \in {"install", "session", "remove"}
  PROVE  CleanupIInv'
<1>1. /\ NpmInv /\ ContainerInv
      /\ creation = "pending" => container # "ours"
  BY DEF AnalysisInv
<1>2. CleanupIInv /\ [CleanupNext]_cleanupVars => CleanupIInv'
  BY CleanupInductive
<1>3. CASE UNCHANGED cleanupVars /\ step' = step
  BY <1>1, <1>2, <1>3 DEF ContainerInv
<1>4. CASE NewContainer
  BY <1>4, NewContainerFresh
<1>5. CASE ExperimentEnds
  BY <1>1, <1>2, <1>5 DEF ExperimentEnds, ContainerInv, CleanupNext
<1>6. CASE ExperimentRemoval
  BY <1>1, <1>2, <1>6 DEF ExperimentRemoval, ContainerInv, CleanupNext
<1>7. CASE NpmRuns
  <2>1. step = "install" /\ kind = "lifecycle" /\ CleanupIInv
    BY <1>1, <1>7 DEF NpmRuns, NpmInv, ContainerInv, analysisVars
  <2>2. CASE SecondRemoval
    BY <2>1, <2>2, CleanupAssumption
    DEF SecondRemoval, CleanupIInv, CleanupTypeOK, AbsencesPaid,
        CleanupStates, Looping, daemonVars
  <2>3. CASE TimeoutFires
    BY <1>2, <2>1, <2>3 DEF TimeoutFires, CleanupNext
  <2>4. CASE RemovalStep
    BY <1>2, <2>1, <2>4 DEF RemovalStep, CleanupNext
  <2>5. CASE NpmSettles
    BY <1>2, <2>1, <2>5 DEF NpmSettles
  <2> QED
    BY <1>7, <2>2, <2>3, <2>4, <2>5 DEF NpmRuns, NpmStep
<1>8. CASE ClientRuns
  <2>1. step = "install" /\ CleanupIInv
    BY <1>1, <1>8 DEF ClientRuns, ContainerInv, analysisVars
  <2> QED
    BY <1>2, <1>8, <2>1
    DEF ClientRuns, ClientActs, ClientFails, ClientExits, KilledClientExits,
        CleanupIInv, CleanupTypeOK, AbsencesPaid, CleanupStates, Looping,
        loopVars
<1>9. CASE AnalysisDaemon \/ AnalysisName
  BY <1>1, <1>2, <1>9
  DEF AnalysisDaemon, AnalysisName, ContainerInv, CleanupNext, analysisVars
<1>10. CASE UNCHANGED cleanupVars /\ step' \notin {"install", "session",
            "remove"}
  BY <1>10
<1> QED
  <2> USE DEF ContainerInv, analysisVars
  <2>1. CASE AnalysisController
    BY <2>1, <1>3, <1>4, <1>5, <1>6, <1>7
    DEF AnalysisController, RunStarts, StartFails, TryThrows,
        PreparationThrows, TargetCopied, AcquisitionStarts, StartNpm,
        AcquisitionEnds, PreInspected, InstallStarts, InstallRecorded,
        InstallsAbandoned, SnapshotChosen, StaticallyInspected,
        ExperimentStarts, StateCaptured, AfterCapture, EventsNormalized,
        HealthWritten, InstallsCompared, Evaluated, CompletedManifestWritten,
        FailedManifestWritten, Disposed, ExperimentRuns, CallArmed
  <2>2. CASE AnalysisTarget \/ AnalysisRecording
    BY <2>2, <1>3 DEF AnalysisTarget, AnalysisRecording
  <2>3. CASE UNCHANGED allAnalysisVars
    BY <2>3, <1>3 DEF allAnalysisVars
  <2> QED
    BY <2>1, <2>2, <2>3, <1>8, <1>9 DEF AnalysisNext

(* Every step keeps the rest of the invariant.                             *)
LEMMA AnalysisInductive ==
  ASSUME AnalysisInv, [AnalysisNext]_allAnalysisVars
  PROVE  AnalysisInv'
<1> USE CallsAssumption
    DEF AnalysisInv, NpmInv, SetupInv, ResultInv, ManifestInv,
        NothingLeft, Erring, BothCompleted, Completed, Modes, Installing,
        Chosen, Experiments, Finishing, Going, Removed, Settled, cleanupVars,
        daemonVars, loopVars, sessionVars, npmVars, setupVars, resultVars
<1>0. step' \in {"install", "session", "remove"} => CleanupIInv'
  BY LoopKept
<1> USE <1>0 DEF ContainerInv
<1>1. CASE RunStarts
  BY <1>1 DEF RunStarts
<1>2. CASE StartFails
  BY <1>2 DEF StartFails
<1>3. CASE TryThrows
  BY <1>3 DEF TryThrows
<1>4. CASE PreparationThrows
  BY <1>4 DEF PreparationThrows
<1>5. CASE TargetCopied
  BY <1>5 DEF TargetCopied
<1>6. CASE AcquisitionStarts
  BY <1>6 DEF AcquisitionStarts, StartNpm, NewContainer
<1>7. CASE AcquisitionEnds
  BY <1>7 DEF AcquisitionEnds, NpmReturned, Acquired, LeftBehind
<1>8. CASE PreInspected
  BY <1>8 DEF PreInspected
<1>9. CASE InstallStarts
  BY <1>9 DEF InstallStarts, StartNpm, NewContainer
<1>10. CASE InstallRecorded
  <2>1. /\ step = "install" /\ npm = "settled" /\ kind = "lifecycle"
        /\ CleanupIInv
    BY <1>10 DEF InstallRecorded, NpmReturned
  <2>2. LeftBehind(NextMode) = {} \/ InstallError
    <3>1. CASE cleanup = "verified"
      BY <2>1, <3>1, VerifiedLeavesNothing DEF LeftBehind
    <3>2. CASE cleanup = "failed"
      BY <2>1, <3>2 DEF LeftBehind, InstallError, InstallStatus
    <3> QED
      BY <2>1, <3>1, <3>2
  <2> DEFINE record == [status |-> InstallStatus, error |-> InstallError]
             failure == [status |-> "failed", error |-> TRUE]
  <2>3. LeftBehind(NextMode) = {} \/ record.error
    BY <2>2
  <2>4. failure.error
    OBVIOUS
  <2>5. PICK o \in {record, failure} :
          outcomes' = [outcomes EXCEPT ![NextMode] = {o}]
    BY <1>10 DEF InstallRecorded
  <2>6. LeftBehind(NextMode) = {} \/ o.error
    BY <2>3, <2>4, <2>5
  <2>7. NextMode \in Modes /\ LeftBehind(NextMode) \subseteq {NextMode}
    BY DEF NextMode, LeftBehind
  <2>8. outcomes[NextMode] = {} \/ NextMode = "enabled"
    BY DEF NextMode
  <2> HIDE DEF record, failure
  <2>9. left' \subseteq Erring'
    BY <1>10, <2>1, <2>5, <2>6, <2>7, <2>8 DEF InstallRecorded
  <2> QED
    BY <1>10, <2>5, <2>9 DEF InstallRecorded, NpmReturned, NextMode
<1>11. CASE InstallsAbandoned
  BY <1>11 DEF InstallsAbandoned
<1>12. CASE SnapshotChosen
  BY <1>12 DEF SnapshotChosen, RuntimeSnapshot
<1>13. CASE StaticallyInspected
  BY <1>13 DEF StaticallyInspected
<1>14. CASE ExperimentStarts
  BY <1>14 DEF ExperimentStarts, NewContainer, errorVars
<1>15. CASE ExperimentEnds
  BY <1>15 DEF ExperimentEnds, CleanupCalled
<1>16. CASE ExperimentRemoval
  <2>1. CleanupIInv
    BY <1>16 DEF ExperimentRemoval
  <2>2. CleanupIInv'
    BY <1>16, <2>1, CleanupInductive DEF ExperimentRemoval, CleanupNext
  <2>3. cleanup' = "verified" => NothingLeft'
    BY <2>2 DEF CleanupIInv, AbsencesPaid
  <2>4. creation' = creation /\ container' \in {"absent", container}
    BY <1>16, RemovalsOnlyRemove DEF ExperimentRemoval
  <2> QED
    BY <1>16, <2>3, <2>4 DEF ExperimentRemoval
<1>17. CASE StateCaptured
  BY <1>17 DEF StateCaptured, AfterCapture
<1>18. CASE EventsNormalized
  BY <1>18 DEF EventsNormalized
<1>19. CASE HealthWritten
  BY <1>19 DEF HealthWritten
<1>20. CASE InstallsCompared
  BY <1>20 DEF InstallsCompared
<1>21. CASE Evaluated
  BY <1>21 DEF Evaluated
<1>22. CASE CompletedManifestWritten
  BY <1>22 DEF CompletedManifestWritten
<1>23. CASE FailedManifestWritten
  BY <1>23 DEF FailedManifestWritten
<1>24. CASE Disposed
  BY <1>24 DEF Disposed
<1>25. CASE NpmRuns
  <2>2. CASE TimeoutFires
    BY <1>25, <2>2 DEF NpmRuns, TimeoutFires, CleanupCalled, analysisVars
  <2>3. CASE RemovalStep
    <3>1. creation' = creation /\ container' \in {"absent", container}
      BY <2>3, RemovalsOnlyRemove DEF RemovalStep
    <3>2. cleanup' = "failed" => removalError'
      BY <2>3 DEF RemovalStep, RemovalOutcome
    <3> QED
      BY <1>25, <2>3, <3>1, <3>2 DEF NpmRuns, RemovalStep, analysisVars
  <2>4. CASE SecondRemoval
    BY <1>25, <2>4 DEF NpmRuns, SecondRemoval, analysisVars
  <2>5. CASE NpmSettles
    BY <1>25, <2>5 DEF NpmRuns, NpmSettles, analysisVars
  <2> QED
    BY <1>25, <2>2, <2>3, <2>4, <2>5 DEF NpmRuns, NpmStep
<1>26. CASE ClientRuns
  <2>1. CASE ClientFails
    BY <1>26, <2>1 DEF ClientRuns, ClientFails, analysisVars
  <2>2. CASE ClientExits
    BY <1>26, <2>2 DEF ClientRuns, ClientExits, analysisVars
  <2>3. CASE KilledClientExits
    BY <1>26, <2>3 DEF ClientRuns, KilledClientExits, analysisVars
  <2> QED
    BY <1>26, <2>1, <2>2, <2>3 DEF ClientRuns, ClientActs
<1>27. CASE ExperimentRuns
  <2>1. CASE PhaseFails
    BY <1>27, <2>1 DEF ExperimentRuns, PhaseFails, analysisVars
  <2>2. CASE InterfaceRetained
    BY <1>27, <2>2 DEF ExperimentRuns, InterfaceRetained, analysisVars
  <2>3. CASE ToolChecked
    BY <1>27, <2>3 DEF ExperimentRuns, ToolChecked, analysisVars
  <2>4. CASE StepFails
    BY <1>27, <2>4 DEF ExperimentRuns, StepFails, analysisVars
  <2>5. CASE CallSent
    BY <1>27, <2>5 DEF ExperimentRuns, CallSent, analysisVars
  <2>6. CASE CooledDown
    BY <1>27, <2>6 DEF ExperimentRuns, CooledDown, analysisVars
  <2>7. CASE CloseSession
    BY <1>27, <2>7 DEF ExperimentRuns, CloseSession, analysisVars
  <2>8. CASE SettleSession
    BY <1>27, <2>8 DEF ExperimentRuns, SettleSession, analysisVars
  <2> QED
    BY <1>27, <2>1, <2>2, <2>3, <2>4, <2>5, <2>6, <2>7, <2>8
    DEF ExperimentRuns, SessionStep
<1>28. CASE CallArmed
  BY <1>28 DEF CallArmed, HookPassed, analysisVars
<1>29. CASE AnalysisDaemon
  BY <1>29
  DEF AnalysisDaemon, DaemonStep, DaemonCreates, DaemonRefuses, analysisVars
<1>32. CASE AnalysisName
  BY <1>32 DEF AnalysisName, NameStep, NameTaken, NameFreed, analysisVars
<1>30. CASE AnalysisTarget
  <2>1. CASE Connected
    BY <1>30, <2>1
    DEF AnalysisTarget, Connected, PhaseCompletes, analysisVars, TargetAnswers
  <2>2. CASE ToolsListed
    BY <1>30, <2>2
    DEF AnalysisTarget, ToolsListed, PhaseCompletes, analysisVars,
        TargetAnswers
  <2>3. CASE CallReturns
    BY <1>30, <2>3
    DEF AnalysisTarget, CallReturns, PhaseCompletes, analysisVars,
        TargetAnswers
  <2> QED
    BY <1>30, <2>1, <2>2, <2>3 DEF AnalysisTarget, TargetAnswers
<1>31. CASE AnalysisRecording
  BY <1>31
  DEF AnalysisRecording, RecordingFails, OpenSteps, PhaseSteps, analysisVars
<1>33. CASE UNCHANGED allAnalysisVars
  BY <1>33 DEF allAnalysisVars, analysisVars
<1> QED
  BY <1>1, <1>2, <1>3, <1>4, <1>5, <1>6, <1>7, <1>8, <1>9, <1>10, <1>11,
     <1>12, <1>13, <1>14, <1>15, <1>16, <1>17, <1>18, <1>19, <1>20, <1>21,
     <1>22, <1>23, <1>24, <1>25, <1>26, <1>27, <1>28, <1>29, <1>30, <1>31,
     <1>32, <1>33
  DEF AnalysisNext, AnalysisController

-----------------------------------------------------------------------------
(* The invariant holds in every reachable state.                           *)
THEOREM AnalysisInvariant == AnalysisSpec => []AnalysisInv
<1>1. AnalysisInv /\ [AnalysisNext]_allAnalysisVars => AnalysisInv'
  BY AnalysisInductive
<1> QED
  BY AnalysisInitially, <1>1, PTL DEF AnalysisSpec

(* run.json says completed only of a run of which every experiment was     *)
(* recorded to its end and removed, with the tree and the install delta    *)
(* that were observed; what may be left of a container is left of an       *)
(* install whose own record has an error.                                  *)
THEOREM AnalysisHolds == AnalysisSpec => []AnalysisSound
<1>1. ASSUME AnalysisInv PROVE AnalysisSound
  <2>1. CompletedMeansObserved
    BY <1>1
    DEF AnalysisInv, ManifestInv, BothCompleted, CompletedMeansObserved
  <2>2. CompletedLeavesNothing
    BY <1>1
    DEF AnalysisInv, ManifestInv, NothingLeft, Erring, CompletedLeavesNothing
  <2>3. ASSUME npm = "settled", kind = "lifecycle", ~InstallError
        PROVE  NothingLeft
    <3>1. step = "install" /\ CleanupIInv
      BY <1>1, <2>3 DEF AnalysisInv, NpmInv, ContainerInv
    <3>2. CASE cleanup = "verified"
      BY <3>1, <3>2, VerifiedLeavesNothing
    <3>3. CASE cleanup = "failed"
      BY <1>1, <2>3, <3>3
      DEF AnalysisInv, NpmInv, InstallError, InstallStatus
    <3> QED
      BY <1>1, <2>3, <3>2, <3>3 DEF AnalysisInv, NpmInv, Removed
  <2>4. ASSUME npm = "settled", ~timedOut PROVE NothingLeft
    BY <1>1, <2>4 DEF AnalysisInv, NpmInv
  <2> QED
    BY <2>1, <2>2, <2>3, <2>4
    DEF AnalysisSound, NpmOutcomeTruthful, NothingLeft
<1> QED
  BY AnalysisInvariant, <1>1, PTL

-----------------------------------------------------------------------------
(* The enrolled outcome run.                                               *)

(* The phases recorded where nothing has failed yet.                       *)
Done(s) == Phase(s, "completed")
Opened == <<Done("connect"), Done("list")>>
Called == <<Done("connect"), Done("list"), Done("call")>>
Quiet == <<Done("connect"), Done("list"), Done("cooldown")>>
Whole == <<Done("connect"), Done("list"), Done("call"),
           Done("cooldown")>>

SessionInv ==
  /\ session \in OpenSteps \union Settled \union {"none", "settle"}
  /\ session \in {"none", "connect"} => phases = <<>>
  /\ session = "list" => phases = <<Done("connect")>>
  /\ session \in {"retain", "check", "hook", "call"} => phases = Opened
  /\ session = "cooldown" => phases = IF withTool THEN Called ELSE Opened
  /\ session \in {"close", "settle", "returned"} =>
       primaryError \/ phases = IF withTool THEN Whole ELSE Quiet
  /\ primaryError => session \in {"failedCall", "close", "settle"}
  /\ session = "failedCall" => primaryError
  /\ session = "returned" => ~recordingFailed
  /\ session \in {"check", "hook", "call", "failedCall"} => withTool

SentInv ==
  /\ sentCalls \in 0..1
  /\ sentCalls = 1 => withTool /\ monitor = "passed"
  /\ session \in {"none", "connect", "list", "retain", "check", "hook"} =>
       sentCalls = 0
  /\ session \in {"cooldown", "close", "settle", "returned"} =>
       primaryError \/ ~withTool \/ sentCalls = 1
  /\ session \in {"call", "failedCall"} => monitor = "passed"
  /\ monitor # "none" => withTool
  /\ monitor \in {"none", "called", "revalidated", "passed"}

(* Where the session and the removal stand at each step of the runner.     *)
Early == {"configure", "image", "acquire", "snapshot", "runtime", "startup"}
Discovered == {"verifyDiscovered", "catalog", "compile"}
Reviewing == {"artifacts", "propose", "decide", "consume", "fresh"}
Returned == {"verifyReturned", "dispose", "writeCleanup", "record", "index"}
FailSteps == {"retryExecuted", "failDispose", "writeFailureCleanup",
              "writeFailure", "failureIndex"}
RejectSteps == {"retryDiscovered", "rejectInputs", "rejectReceipt",
                "rejectFallback", "reject", "rejectIndex"}

PlaceInv ==
  /\ session = "none" =>
       creation = "none" /\ cleanup = "idle" /\ ~withTool /\ container # "ours"
  /\ pc \in Early => session = "none"
  /\ pc \in {"discover", "execute"} => session # "none" /\ cleanup = "idle"
  /\ pc \notin {"discover", "execute"} =>
       session \in {"none", "returned", "threw"}
  /\ pc = "removeDiscovered" => session = "returned"
  /\ pc \in Discovered \union Reviewing \union Returned =>
       session = "returned" /\ cleanup = "verified"
  /\ pc \in {"execute", "removeExecuted"} \union Returned => withTool
  /\ pc \in {"discover",
     "removeDiscovered"} \union Discovered \union Reviewing =>
       ~withTool
  /\ withTool => Registered /\ review = "approved"
  /\ Registered => withTool \/ (session = "returned" /\ cleanup = "verified")
  /\ pc \in {"consume", "fresh"} => review = "approved"

(* The stage tells the branch of the catch block, and what was sent.       *)
BeforeSend == {"review", "session_before_monitor", "pre_dispatch_monitor",
               "transport_before_send"}

StageInv ==
  /\ pc = "configure" => stage = "configuration"
  /\ pc = "image" => stage = "sandbox_image_validation"
  /\ pc = "acquire" => stage = "acquisition"
  /\ pc = "snapshot" => stage = "prepared_tree_snapshot"
  /\ pc = "runtime" => stage = "runtime_validation"
  /\ pc \in {"startup", "discover", "removeDiscovered", "verifyDiscovered"} =>
       stage = "discovery_startup"
  /\ pc = "catalog" => stage = "catalog_validation"
  /\ pc = "compile" => stage = "eligibility"
  /\ pc \in {"artifacts", "propose", "decide", "consume"} => stage = "review"
  /\ pc \in {"fresh", "execute", "removeExecuted"} =>
       stage = "session_before_monitor"
  /\ pc \in {"verifyReturned", "record", "index"} =>
       stage = "post_return_verification"
  /\ pc \in {"dispose", "writeCleanup"} => stage = "cleanup_verification"
  /\ pc \in FailSteps => Registered
  /\ pc \in RejectSteps => ~Registered
  /\ pc \in FailSteps \union {"caught"} =>
       stage \notin BeforeSend \/ sentCalls = 0

(* The directories: held while they are there, on every path there is.     *)
Both == {"target", "resources"}
LateStages == {"discovery_startup", "catalog_validation", "discovery_cleanup",
               "eligibility"}

InputsInv ==
  /\ held \in {{}, {"target"}, Both}
  /\ held = {} => target # "present" /\ resources # "present"
  /\ held = {"target"} => resources = "none" /\ session = "none"
  /\ held = {"target"} => ~Registered
  /\ held = {} => Registered \/ (target = "none" /\ session = "none")
  /\ pc \in {"configure", "image",
     "acquire"} => held = {} /\ resources = "none"
  /\ pc \in {"snapshot", "runtime"} => held = {"target"} /\ target = "present"
  /\ pc \in {"startup", "discover", "removeDiscovered", "execute",
             "removeExecuted", "verifyReturned", "dispose"} \union Discovered
            \union Reviewing =>
       held = Both /\ target = "present" /\ resources = "present"
  /\ pc = "writeCleanup" => held = Both
  /\ stage \in LateStages => held = Both
  /\ container = "ours" \/ creation = "pending" =>
       withTool \/ (target = "present" /\ resources = "present")

FilesInv == DOMAIN files = DOMAIN NoFiles

(* What has been checked once the call returned, and stays so.             *)
ReturnInv ==
  /\ ranOnChanged => bytes = "changed"
  /\ pc \in Returned \ {"verifyReturned"} \/ files.attempt # {} =>
       /\ withTool /\ session = "returned" /\ cleanup = "verified"
       /\ ~ranOnChanged /\ notices = {}
  /\ pc \in {"record", "index"} \/ files.attempt # {} =>
       held = {} /\ files.cleanup = {"verified"}
  /\ files.attempt # {} => pc \in {"index", "caught", "done"} \union FailSteps

FailureInv ==
  /\ files.failureCleanup = {"verified"} =>
       /\ ContainerGone /\ InputsGone
       /\ pc \in {"writeFailure", "failureIndex", "done"}
  /\ files.failure # {} => pc \in {"failureIndex", "done"}
  /\ FailureTruthful

(* What a rejection will say of the cleanup.                               *)
Concluded ==
  \/ ending = "not_started" /\ creation = "none" /\ target = "none" /\ held = {}
  \/ /\ ending = "verified_absent" /\ files.rejectionCleanup = {"verified"}
     /\ ContainerGone /\ InputsGone
  \/ ending = "verification_failed" /\ files.rejectionCleanup = {"unverified"}

CatalogErrors == {"plain", "catalog_changed", "catalog_multi_page",
                  "catalog_incomplete", "no_tools"}

RejectionInv ==
  /\ pc \in {"caught"} \union RejectSteps =>
       stage # "catalog_validation" \/ error \in CatalogErrors
  /\ stage = "discovery_cleanup" =>
       /\ ending = "verification_failed"
       /\ pc \in {"rejectInputs", "rejectFallback", "reject", "rejectIndex",
          "done"}
  /\ pc \notin RejectSteps \union {"done"} => ending = "not_started"
  /\ pc \notin {"rejectFallback", "reject", "rejectIndex", "done"} =>
       files.rejectionCleanup = {}
  /\ pc = "retryDiscovered" =>
       \/ ending = "not_started"
       \/ ending = "verification_failed" /\ unclean
  /\ pc = "rejectInputs" =>
       \/ ending = "not_started" /\ ~RemovalPending
       \/ ending = "verification_failed" /\ (unclean \/ RemovalPending)
  /\ pc = "rejectReceipt" => ending = "not_started" /\ ~RemovalPending
  /\ pc = "rejectFallback" =>
       \/ Concluded /\ ending # "not_started"
       \/ /\ ending = "verification_failed" /\ files.rejectionCleanup = {}
          /\ unclean \/ RemovalPending \/ held # {}
  /\ pc = "reject" => Concluded
  /\ files.rejection # {} => pc \in {"rejectIndex", "done"} /\ Concluded
  /\ \A r \in files.rejection : r.cleanup = ending

RunInv ==
  /\ PlaceInv /\ StageInv /\ InputsInv /\ FilesInv /\ ReturnInv /\ FailureInv
  /\ RejectionInv

IInv == CleanupIInv /\ SessionInv /\ SentInv /\ RunInv

-----------------------------------------------------------------------------
(* Appending to a sequence that is written out.                            *)
LEMMA AppendOne ==
  ASSUME NEW S, NEW a \in S, NEW b \in S
  PROVE  Append(<<a>>, b) = <<a, b>>
<1>1. /\ <<a>> \in Seq(S) /\ <<a, b>> \in Seq(S)
      /\ Len(<<a, b>>) = 2 /\ <<a, b>>[1] = a /\ <<a, b>>[2] = b
  OBVIOUS
<1>2. /\ Append(<<a>>, b) \in Seq(S) /\ Len(Append(<<a>>, b)) = 2
      /\ Append(<<a>>, b)[1] = a /\ Append(<<a>>, b)[2] = b
  BY <1>1
<1>3. \A i \in 1..2 : Append(<<a>>, b)[i] = <<a, b>>[i]
  BY <1>1, <1>2
<1> QED
  BY <1>1, <1>2, <1>3, SeqEqual

LEMMA AppendTwo ==
  ASSUME NEW S, NEW a \in S, NEW b \in S, NEW c \in S
  PROVE  Append(<<a, b>>, c) = <<a, b, c>>
<1>1. /\ <<a, b>> \in Seq(S) /\ <<a, b, c>> \in Seq(S)
      /\ Len(<<a, b, c>>) = 3 /\ <<a, b, c>>[1] = a /\ <<a, b, c>>[2] = b
      /\ <<a, b, c>>[3] = c
  OBVIOUS
<1>2. /\ Append(<<a, b>>, c) \in Seq(S) /\ Len(Append(<<a, b>>, c)) = 3
      /\ Append(<<a, b>>, c)[1] = a /\ Append(<<a, b>>, c)[2] = b
      /\ Append(<<a, b>>, c)[3] = c
  BY <1>1
<1>3. \A i \in 1..3 : Append(<<a, b>>, c)[i] = <<a, b, c>>[i]
  BY <1>1, <1>2
<1> QED
  BY <1>1, <1>2, <1>3, SeqEqual

LEMMA AppendThree ==
  ASSUME NEW S, NEW a \in S, NEW b \in S, NEW c \in S, NEW d \in S
  PROVE  Append(<<a, b, c>>, d) = <<a, b, c, d>>
<1>1. /\ <<a, b, c>> \in Seq(S) /\ <<a, b, c, d>> \in Seq(S)
      /\ Len(<<a, b, c, d>>) = 4 /\ <<a, b, c, d>>[1] = a
      /\ <<a, b, c, d>>[2] = b /\ <<a, b, c, d>>[3] = c /\ <<a, b, c,
         d>>[4] = d
  OBVIOUS
<1>2. /\ Append(<<a, b, c>>, d) \in Seq(S) /\ Len(Append(<<a, b, c>>, d)) = 4
      /\ Append(<<a, b, c>>, d)[1] = a /\ Append(<<a, b, c>>, d)[2] = b
      /\ Append(<<a, b, c>>, d)[3] = c /\ Append(<<a, b, c>>, d)[4] = d
  BY <1>1
<1>3. \A i \in 1..4 : Append(<<a, b, c>>, d)[i] = <<a, b, c, d>>[i]
  BY <1>1, <1>2
<1> QED
  BY <1>1, <1>2, <1>3, SeqEqual

(* Each phase that completes is appended to those of its place.            *)
LEMMA PhasesAppended ==
  /\ Append(<<Done("connect")>>, Done("list")) = Opened
  /\ Append(Opened, Done("call")) = Called
  /\ Append(Opened, Done("cooldown")) = Quiet
  /\ Append(Called, Done("cooldown")) = Whole
<1> DEFINE S == {Done("connect"), Done("list"), Done("call"),
                 Done("cooldown")}
<1>1. /\ Done("connect") \in S /\ Done("list") \in S
      /\ Done("call") \in S /\ Done("cooldown") \in S
  OBVIOUS
<1> HIDE DEF S
<1> QED
  BY <1>1, AppendOne, AppendTwo, AppendThree DEF Opened, Called, Quiet, Whole

(* What of the run moves the session.                                      *)
SessionMoves ==
  \/ pc = "startup" /\ StartSession(FALSE) /\ monitor' = monitor
  \/ pc = "fresh" /\ StartAgain(TRUE) /\ monitor' = monitor
  \/ pc \in {"discover", "execute"} /\ SessionStep /\ monitor' = monitor
  \/ TargetAnswers /\ monitor' = monitor
  \/ RecordingFails /\ monitor' = monitor
  \/ pc = "execute" /\ HookPassed /\ monitor' = "passed"
  \/ UNCHANGED sessionVars /\ monitor' = monitor
  \/ /\ UNCHANGED sessionVars /\ pc = "execute" /\ session = "hook"
     /\ monitor' \in {"called", "revalidated"}

LEMMA SessionPart ==
  ASSUME [Next]_vars
  PROVE  SessionMoves
<1> USE DEF SessionMoves, vars, runVars, reviewVars
<1>1. CASE UNCHANGED vars
  BY <1>1
<1>2. CASE Discovery
  BY <1>2 DEF Discovery, ConfigurationLoaded, ImageVerified, TargetPrepared,
     PreparationFails, TreeSnapshotted, RuntimeValidated, DiscoveryStarted,
     DiscoveryReturned, DiscoveryThrew, DiscoveryRemoval, DiscoveryVerified,
     CatalogAccepted, Pass, Removal
<1>3. CASE Execution
  BY <1>3 DEF Execution, EnrollmentRegistered, ArtifactsWritten,
     HypothesisCompiled, ReviewApproved, ReviewDeclined, ReviewConsumed,
     ExecutionStarted, MonitorCalled, DispatchRevalidated, MonitorPassed,
     ExecutionReturned, ExecutionRemoval, ReturnVerified, InputsDisposed, CleanupWritten,
     AttemptWritten, RunCompleted, Pass, ReviewSettles, Removal, Disposal,
     Returns
<1>4. CASE Failure \/ Rejected
  BY <1>4 DEF Failure, FailureCaught, FailureRemoval, FailureDisposed,
     FailureCleanupWritten, FailureWritten, RunFailed, Rejected,
     RejectionCaught, RejectionRemoval, RejectionDisposes, RejectionRetains,
     RejectionReceipt, RejectionFallback, RejectionWritten, RunRejected,
     Removal, Disposal, Returns, Rejecting
<1>5. CASE Throws \/ SessionRuns \/ EvidenceLost
  BY <1>5 DEF Throws, SessionRuns, EvidenceLost
<1>6. CASE Environment
  BY <1>6 DEF Environment, HostChanges, WindowCloses, DaemonActs, NameChanges,
     TargetActs, RecordingActs, ServerSpeaks
<1> QED
  BY <1>1, <1>2, <1>3, <1>4, <1>5, <1>6 DEF Next, Controller

(* A session's phases are those of its place, until something fails.       *)
LEMMA SessionKept ==
  ASSUME IInv, [Next]_vars
  PROVE  SessionInv'
<1> USE DEF SessionInv, OpenSteps, PhaseSteps, Settled, errorVars
<1>1. SessionInv /\ PlaceInv
  BY DEF IInv, RunInv
<1>2. CASE UNCHANGED sessionVars
  BY <1>1, <1>2 DEF sessionVars
<1>3. CASE pc = "startup" /\ StartSession(FALSE)
  BY <1>1, <1>3 DEF StartSession
<1>4. CASE pc = "fresh" /\ StartAgain(TRUE)
  BY <1>1, <1>4 DEF StartAgain
<1>5. CASE TargetAnswers
  <2>1. CASE Connected
    BY <1>1, <2>1 DEF Connected, PhaseCompletes, Done
  <2>2. CASE ToolsListed
    BY <1>1, <2>2, PhasesAppended DEF ToolsListed, PhaseCompletes, Done
  <2>3. CASE CallReturns
    BY <1>1, <2>3, PhasesAppended DEF CallReturns, PhaseCompletes, Done
  <2> QED
    BY <1>5, <2>1, <2>2, <2>3 DEF TargetAnswers
<1>6. CASE RecordingFails
  BY <1>1, <1>6 DEF RecordingFails
<1>7. CASE HookPassed
  BY <1>1, <1>7 DEF HookPassed
<1>8. CASE SessionStep
  <2>1. CASE PhaseFails
    BY <1>1, <2>1 DEF PhaseFails
  <2>2. CASE InterfaceRetained
    BY <1>1, <2>2 DEF InterfaceRetained
  <2>3. CASE ToolChecked
    BY <1>1, <2>3 DEF ToolChecked
  <2>4. CASE StepFails
    BY <1>1, <2>4 DEF StepFails
  <2>5. CASE CallSent
    BY <1>1, <2>5 DEF CallSent
  <2>6. CASE CooledDown
    BY <1>1, <2>6, PhasesAppended DEF CooledDown, PhaseCompletes, Done
  <2>7. CASE CloseSession
    BY <1>1, <2>7 DEF CloseSession
  <2>8. CASE SettleSession
    BY <1>1, <2>8 DEF SettleSession, Complete
  <2> QED
    BY <1>8, <2>1, <2>2, <2>3, <2>4, <2>5, <2>6, <2>7, <2>8 DEF SessionStep
<1> QED
  BY <1>2, <1>3, <1>4, <1>5, <1>6, <1>7, <1>8, SessionPart DEF SessionMoves

(* The call is sent once, by the session whose monitor has passed.         *)
LEMMA SentKept ==
  ASSUME IInv, [Next]_vars
  PROVE  SentInv'
<1> USE DEF SentInv, errorVars
<1>1. SessionInv /\ SentInv /\ PlaceInv
  BY DEF IInv, RunInv
<1>2. CASE UNCHANGED sessionVars /\ monitor' = monitor
  BY <1>1, <1>2 DEF sessionVars, errorVars
<1>3. CASE UNCHANGED sessionVars /\ pc = "execute" /\ session = "hook"
           /\ monitor' \in {"called", "revalidated"}
  BY <1>1, <1>3 DEF sessionVars, errorVars, PlaceInv
<1>4. CASE pc = "startup" /\ StartSession(FALSE) /\ monitor' = monitor
  BY <1>1, <1>4 DEF StartSession, PlaceInv
<1>5. CASE pc = "fresh" /\ StartAgain(TRUE) /\ monitor' = monitor
  BY <1>1, <1>5 DEF StartAgain, PlaceInv, Reviewing
<1>6. CASE TargetAnswers /\ monitor' = monitor
  <2>1. CASE Connected
    BY <1>1, <1>6, <2>1 DEF Connected, PhaseCompletes
  <2>2. CASE ToolsListed
    BY <1>1, <1>6, <2>2 DEF ToolsListed, PhaseCompletes
  <2>3. CASE CallReturns
    BY <1>1, <1>6, <2>3 DEF CallReturns, PhaseCompletes
  <2> QED
    BY <1>6, <2>1, <2>2, <2>3 DEF TargetAnswers
<1>7. CASE RecordingFails /\ monitor' = monitor
  BY <1>1, <1>7 DEF RecordingFails
<1>8. CASE pc = "execute" /\ HookPassed /\ monitor' = "passed"
  BY <1>1, <1>8 DEF HookPassed, PlaceInv
<1>9. CASE SessionStep /\ monitor' = monitor
  <2>1. CASE PhaseFails
    BY <1>1, <1>9, <2>1 DEF PhaseFails, SessionInv
  <2>2. CASE InterfaceRetained
    BY <1>1, <1>9, <2>2 DEF InterfaceRetained
  <2>3. CASE ToolChecked
    BY <1>1, <1>9, <2>3 DEF ToolChecked
  <2>4. CASE StepFails
    BY <1>1, <1>9, <2>4 DEF StepFails
  <2>5. CASE CallSent
    BY <1>1, <1>9, <2>5 DEF CallSent, SessionInv
  <2>6. CASE CooledDown
    BY <1>1, <1>9, <2>6 DEF CooledDown, PhaseCompletes
  <2>7. CASE CloseSession
    BY <1>1, <1>9, <2>7 DEF CloseSession, SessionInv
  <2>8. CASE SettleSession
    BY <1>1, <1>9, <2>8 DEF SettleSession, Complete
  <2> QED
    BY <1>9, <2>1, <2>2, <2>3, <2>4, <2>5, <2>6, <2>7, <2>8 DEF SessionStep
<1> QED
  BY <1>2, <1>3, <1>4, <1>5, <1>6, <1>7, <1>8, <1>9, SessionPart
  DEF SessionMoves

-----------------------------------------------------------------------------
(* A removal that is called again, or for a new container, starts over.    *)
LEMMA CleanupKept ==
  ASSUME IInv, [Next]_vars
  PROVE  CleanupIInv'
<1> USE DEF cleanupVars, daemonVars, loopVars, vars
<1>1. CleanupIInv
  BY DEF IInv, RunInv
<1>2. CASE [CleanupNext]_cleanupVars
  BY <1>1, <1>2, CleanupInductive
<1>3. CASE NewContainer
  BY <1>3, NewContainerFresh
<1>4. ASSUME cleanup' = "inspect", absences' = 0, UNCHANGED daemonVars,
             removals' = 0
      PROVE  CleanupIInv'
  BY <1>1, <1>4, CleanupAssumption
  DEF CleanupIInv, CleanupTypeOK, AbsencesPaid, CleanupStates, Looping
<1>5. CASE Discovery
  BY <1>2, <1>5 DEF CleanupNext, Discovery, ConfigurationLoaded,
     ImageVerified,
     TargetPrepared, PreparationFails, TreeSnapshotted, RuntimeValidated,
     DiscoveryStarted, StartSession, DiscoveryReturned, DiscoveryThrew,
     DiscoveryRemoval, DiscoveryVerified, CatalogAccepted, Pass, Removal
<1>6. CASE Execution
  BY <1>2, <1>3, <1>6 DEF CleanupNext, Execution, EnrollmentRegistered,
     ArtifactsWritten, HypothesisCompiled, ReviewApproved, ReviewDeclined,
     ReviewConsumed, ExecutionStarted, StartAgain, MonitorCalled,
     DispatchRevalidated, MonitorPassed, ExecutionReturned, ExecutionRemoval, ReturnVerified,
     InputsDisposed, CleanupWritten, AttemptWritten, RunCompleted, Pass,
     ReviewSettles, Removal, Disposal, Returns
<1>7. CASE Failure \/ Rejected
  BY <1>2, <1>4, <1>7 DEF CleanupNext, Failure, FailureCaught, FailureRemoval,
     FailureDisposed, FailureCleanupWritten, FailureWritten, RunFailed,
     Rejected, RejectionCaught, RejectionRemoval, RejectionDisposes,
     RejectionRetains, RejectionReceipt, RejectionFallback, RejectionWritten,
     RunRejected, RemoveAgain, Removal, Disposal, Returns, Rejecting
<1>8. CASE Throws \/ SessionRuns \/ EvidenceLost \/ Environment
  BY <1>2, <1>8 DEF CleanupNext, Throws, SessionRuns, EvidenceLost,
     Environment, HostChanges, WindowCloses, DaemonActs, NameChanges,
     TargetActs, RecordingActs, ServerSpeaks
<1> QED
  BY <1>2, <1>5, <1>6, <1>7, <1>8 DEF Next, Controller

-----------------------------------------------------------------------------
(* Up to the enrollment: the container is requested last, over both inputs.*)
LEMMA DiscoveryKeeps ==
  ASSUME IInv, CleanupIInv', SessionInv', SentInv', Discovery
  PROVE  RunInv'
<1> USE DEF IInv, RunInv, CleanupIInv, CleanupTypeOK, SessionInv, SentInv,
            PlaceInv, StageInv, InputsInv, FilesInv, NoFiles, ReturnInv,
            FailureInv, FailureTruthful, ContainerGone, InputsGone,
            RejectionInv, Concluded, CatalogErrors, LateStages, Both,
            AbsencesPaid, RemovalPending, Early, Discovered, Reviewing,
            Returned, FailSteps, RejectSteps, BeforeSend, Registered,
            OpenSteps, PhaseSteps, Settled, hostVars, reviewVars, faultVars,
            sessionVars, errorVars, cleanupVars, daemonVars, loopVars,
            runVars, CleanupStates, Looping
<1>1. CASE ConfigurationLoaded
  BY <1>1 DEF ConfigurationLoaded, Pass
<1>2. CASE ImageVerified
  BY <1>2 DEF ImageVerified, Pass
<1>3. CASE TargetPrepared
  <2>1. PlaceInv'
    BY <1>3 DEF TargetPrepared
  <2>2. StageInv'
    BY <1>3 DEF TargetPrepared
  <2>3. InputsInv'
    <3>1. {"target"} # {} /\ {"target"} # Both
      <4>1. "resources" \in Both /\ "resources" \notin {"target"}
        OBVIOUS
      <4> QED
        BY <4>1
    <3>2. /\ pc' = "snapshot" /\ stage' = "prepared_tree_snapshot"
          /\ held' = {"target"} /\ target' = "present" /\ resources' = resources
          /\ session' = session /\ container' = container /\ creation' = creation
      BY <1>3 DEF TargetPrepared
    <3>3. session = "none" /\ resources = "none"
      BY <1>3 DEF TargetPrepared
    <3> QED
      BY <3>1, <3>2, <3>3
  <2>4. FilesInv'
    BY <1>3 DEF TargetPrepared
  <2>5. ReturnInv'
    BY <1>3 DEF TargetPrepared
  <2>6. FailureInv'
    BY <1>3 DEF TargetPrepared
  <2>7. RejectionInv'
    BY <1>3 DEF TargetPrepared
  <2> QED
    BY <2>1, <2>2, <2>3, <2>4, <2>5, <2>6, <2>7 DEF RunInv
<1>4. CASE PreparationFails
  BY <1>4 DEF PreparationFails
<1>5. CASE TreeSnapshotted
  BY <1>5 DEF TreeSnapshotted, Pass
<1>6. CASE RuntimeValidated
  BY <1>6 DEF RuntimeValidated
<1>7. CASE DiscoveryStarted
  BY <1>7 DEF DiscoveryStarted, StartSession, RequestContainer
<1>8. CASE DiscoveryReturned
  BY <1>8 DEF DiscoveryReturned, CleanupCalled
<1>9. CASE DiscoveryThrew
  BY <1>9 DEF DiscoveryThrew
<1>10. CASE DiscoveryRemoval
  BY <1>10 DEF DiscoveryRemoval, Removal, CleanupStep, InspectAbsent,
     InspectPresent, InspectForeign, InspectFails, RemoveReturns,
     RemoveFails, Settle
<1>11. CASE DiscoveryVerified
  BY <1>11 DEF DiscoveryVerified, Pass
<1>12. CASE CatalogAccepted
  BY <1>12 DEF CatalogAccepted, TranscriptQuiet
<1> QED
  BY <1>1, <1>2, <1>3, <1>4, <1>5, <1>6, <1>7, <1>8, <1>9, <1>10, <1>11,
     <1>12 DEF Discovery

(* The second container is requested after the review, over what is left. *)
LEMMA ExecutionKeeps ==
  ASSUME IInv, CleanupIInv', SessionInv', SentInv', Execution
  PROVE  RunInv'
<1> USE DEF IInv, RunInv, CleanupIInv, CleanupTypeOK, SessionInv, SentInv,
            PlaceInv, StageInv, InputsInv, FilesInv, NoFiles, ReturnInv,
            FailureInv, FailureTruthful, ContainerGone, InputsGone,
            RejectionInv, Concluded, CatalogErrors, LateStages, Both,
            AbsencesPaid, RemovalPending, Early, Discovered, Reviewing,
            Returned, FailSteps, RejectSteps, BeforeSend, Registered,
            OpenSteps, PhaseSteps, Settled, hostVars, reviewVars, faultVars,
            sessionVars, errorVars, cleanupVars, daemonVars, loopVars,
            runVars, CleanupStates, Looping
<1>1. CASE EnrollmentRegistered
  BY <1>1 DEF EnrollmentRegistered, Pass
<1>2. CASE ArtifactsWritten
  BY <1>2 DEF ArtifactsWritten, Pass
<1>3. CASE HypothesisCompiled
  BY <1>3 DEF HypothesisCompiled, Pass
<1>4. CASE ReviewApproved
  BY <1>4 DEF ReviewApproved, ReviewSettles
<1>5. CASE ReviewDeclined
  BY <1>5 DEF ReviewDeclined, ReviewSettles
<1>6. CASE ReviewConsumed
  BY <1>6 DEF ReviewConsumed, Pass
<1>7. CASE ExecutionStarted
  BY <1>7 DEF ExecutionStarted, StartAgain, NewContainer
<1>8. CASE MonitorCalled
  BY <1>8 DEF MonitorCalled
<1>17. CASE DispatchRevalidated
  BY <1>17 DEF DispatchRevalidated
<1>9. CASE MonitorPassed
  BY <1>9 DEF MonitorPassed, HookPassed
<1>10. CASE ExecutionReturned
  BY <1>10 DEF ExecutionReturned, CleanupCalled
<1>11. CASE ExecutionRemoval
  BY <1>11 DEF ExecutionRemoval, Removal, CleanupStep, InspectAbsent,
     InspectPresent, InspectForeign, InspectFails, RemoveReturns,
     RemoveFails, Settle, ExecutionStage
<1>12. CASE ReturnVerified
  BY <1>12 DEF ReturnVerified, Pass, TranscriptQuiet
<1>13. CASE InputsDisposed
  BY <1>13 DEF InputsDisposed, Disposal
<1>14. CASE CleanupWritten
  BY <1>14 DEF CleanupWritten, HeldAbsent, Receipt
<1>15. CASE AttemptWritten
  BY <1>15 DEF AttemptWritten
<1>16. CASE RunCompleted
  BY <1>16 DEF RunCompleted, Returns
<1> QED
  BY <1>1, <1>2, <1>3, <1>4, <1>5, <1>6, <1>7, <1>8, <1>9, <1>10, <1>11,
     <1>12, <1>13, <1>14, <1>15, <1>16, <1>17 DEF Execution

(* A failed run verifies the removal before it says so, and disposes once. *)
LEMMA FailureKeeps ==
  ASSUME IInv, CleanupIInv', SessionInv', SentInv', Failure
  PROVE  RunInv'
<1> USE DEF IInv, RunInv, CleanupIInv, CleanupTypeOK, SessionInv, SentInv,
            PlaceInv, StageInv, InputsInv, FilesInv, NoFiles, ReturnInv,
            FailureInv, FailureTruthful, ContainerGone, InputsGone,
            RejectionInv, Concluded, CatalogErrors, LateStages, Both,
            AbsencesPaid, RemovalPending, Early, Discovered, Reviewing,
            Returned, FailSteps, RejectSteps, BeforeSend, Registered,
            OpenSteps, PhaseSteps, Settled, hostVars, reviewVars, faultVars,
            sessionVars, errorVars, cleanupVars, daemonVars, loopVars,
            runVars, CleanupStates, Looping
<1>1. CASE FailureCaught
  BY <1>1 DEF FailureCaught, RemoveAgain, RemovalPending
<1>2. CASE FailureRemoval
  BY <1>2 DEF FailureRemoval, Removal, CleanupStep, InspectAbsent,
     InspectPresent, InspectForeign, InspectFails, RemoveReturns,
     RemoveFails, Settle
<1>3. CASE FailureDisposed
  BY <1>3 DEF FailureDisposed, Disposal
<1>4. CASE FailureCleanupWritten
  BY <1>4 DEF FailureCleanupWritten, Receipt, ContainerAbsent, HeldAbsent
<1>5. CASE FailureWritten
  <2>1. PlaceInv'
    BY <1>5 DEF FailureWritten
  <2>2. StageInv'
    BY <1>5 DEF FailureWritten
  <2>3. InputsInv'
    BY <1>5 DEF FailureWritten
  <2>4. FilesInv'
    BY <1>5 DEF FailureWritten
  <2>5. ReturnInv'
    BY <1>5 DEF FailureWritten
  <2>6. FailureInv'
    <3> DEFINE verified == files.failureCleanup = {"verified"}
               record == [stage |-> IF verified THEN stage
                                    ELSE "cleanup_verification",
                          sent |-> sentCalls, review |-> review,
                          verified |-> verified, inputsRetained |-> ~verified]
    <3>1. /\ files' = [files EXCEPT !.failure = {record}] /\ pc' = "failureIndex"
          /\ UNCHANGED <<cleanupVars, sessionVars, hostVars, reviewVars>>
      BY <1>5 DEF FailureWritten
    <3>2. /\ record.sent = sentCalls /\ record.review = review
          /\ record.verified => ContainerGone /\ InputsGone
          /\ record.stage \in BeforeSend => sentCalls = 0
      BY <1>5 DEF FailureWritten
    <3> HIDE DEF record
    <3>3. /\ files'.failure = {record}
          /\ files'.failureCleanup = files.failureCleanup
      BY <3>1
    <3> QED
      BY <3>1, <3>2, <3>3
  <2>7. RejectionInv'
    BY <1>5 DEF FailureWritten
  <2> QED
    BY <2>1, <2>2, <2>3, <2>4, <2>5, <2>6, <2>7 DEF RunInv
<1>6. CASE RunFailed
  BY <1>6 DEF RunFailed, Returns
<1> QED
  BY <1>1, <1>2, <1>3, <1>4, <1>5, <1>6 DEF Failure

(* A rejected one does not dispose of its inputs before it is verified.   *)
LEMMA RejectedKeeps ==
  ASSUME IInv, CleanupIInv', SessionInv', SentInv', Rejected
  PROVE  RunInv'
<1> USE DEF IInv, RunInv, CleanupIInv, CleanupTypeOK, SessionInv, SentInv,
            PlaceInv, StageInv, InputsInv, FilesInv, NoFiles, ReturnInv,
            FailureInv, FailureTruthful, ContainerGone, InputsGone,
            RejectionInv, Concluded, CatalogErrors, LateStages, Both,
            AbsencesPaid, RemovalPending, Early, Discovered, Reviewing,
            Returned, FailSteps, RejectSteps, BeforeSend, Registered,
            OpenSteps, PhaseSteps, Settled, hostVars, reviewVars, faultVars,
            sessionVars, errorVars, cleanupVars, daemonVars, loopVars,
            runVars, CleanupStates, Looping
<1>1. CASE RejectionCaught
  BY <1>1 DEF RejectionCaught, RemoveAgain, RemovalPending
<1>2. CASE RejectionRemoval
  BY <1>2 DEF RejectionRemoval, CleanupStep, InspectAbsent, InspectPresent,
     InspectForeign, InspectFails, RemoveReturns, RemoveFails, Settle,
     RejectionStage
<1>3. CASE RejectionDisposes
  BY <1>3 DEF RejectionDisposes, DisposalAllowed, Disposal
<1>4. CASE RejectionRetains
  BY <1>4 DEF RejectionRetains, DisposalAllowed
<1>5. CASE RejectionReceipt
  BY <1>5 DEF RejectionReceipt, Rejecting, NothingStarted, HeldAbsent
<1>6. CASE RejectionFallback
  <2>1. PlaceInv'
    BY <1>6 DEF RejectionFallback, Rejecting, Receipt, RemovalPending
  <2>2. StageInv'
    BY <1>6 DEF RejectionFallback, Rejecting, Receipt, RemovalPending
  <2>3. InputsInv'
    BY <1>6 DEF RejectionFallback, Rejecting, Receipt, RemovalPending
  <2>4. FilesInv'
    BY <1>6 DEF RejectionFallback, Rejecting, Receipt, RemovalPending
  <2>5. ReturnInv'
    BY <1>6 DEF RejectionFallback, Rejecting, Receipt, RemovalPending
  <2>6. FailureInv'
    BY <1>6 DEF RejectionFallback, Rejecting, Receipt, RemovalPending
  <2>7. RejectionInv'
    BY <1>6 DEF RejectionFallback, Rejecting, Receipt, RemovalPending
  <2> QED
    BY <2>1, <2>2, <2>3, <2>4, <2>5, <2>6, <2>7 DEF RunInv
<1>7. CASE RejectionWritten
  BY <1>7 DEF RejectionWritten, Rejection
<1>8. CASE RunRejected
  BY <1>8 DEF RunRejected, Returns
<1> QED
  BY <1>1, <1>2, <1>3, <1>4, <1>5, <1>6, <1>7, <1>8 DEF Rejected

(* An error names its stage; a session in progress moves nothing else.     *)
LEMMA ThrowsKeeps ==
  ASSUME IInv, CleanupIInv', SessionInv', SentInv',
         Throws \/ SessionRuns \/ EvidenceLost
  PROVE  RunInv'
<1> USE DEF IInv, RunInv, CleanupIInv, CleanupTypeOK, SessionInv, SentInv,
            PlaceInv, StageInv, InputsInv, FilesInv, NoFiles, ReturnInv,
            FailureInv, FailureTruthful, ContainerGone, InputsGone,
            RejectionInv, Concluded, CatalogErrors, LateStages, Both,
            AbsencesPaid, RemovalPending, Early, Discovered, Reviewing,
            Returned, FailSteps, RejectSteps, BeforeSend, Registered,
            OpenSteps, PhaseSteps, Settled, hostVars, reviewVars, faultVars,
            sessionVars, errorVars, cleanupVars, daemonVars, loopVars,
            runVars, CleanupStates, Looping
<1>1. CASE Throws
  BY <1>1 DEF Throws, ErrorsAt
<1>2. CASE SessionRuns
  <2>1. CASE PhaseFails
    BY <1>2, <2>1 DEF SessionRuns, PhaseFails
  <2>2. CASE InterfaceRetained
    BY <1>2, <2>2 DEF SessionRuns, InterfaceRetained
  <2>3. CASE ToolChecked
    BY <1>2, <2>3 DEF SessionRuns, ToolChecked
  <2>4. CASE StepFails
    BY <1>2, <2>4 DEF SessionRuns, StepFails
  <2>5. CASE CallSent
    BY <1>2, <2>5 DEF SessionRuns, CallSent
  <2>6. CASE CooledDown
    BY <1>2, <2>6 DEF SessionRuns, CooledDown, PhaseCompletes
  <2>7. CASE CloseSession
    BY <1>2, <2>7 DEF SessionRuns, CloseSession
  <2>8. CASE SettleSession
    BY <1>2, <2>8 DEF SessionRuns, SettleSession, Complete
  <2> QED
    BY <1>2, <2>1, <2>2, <2>3, <2>4, <2>5, <2>6, <2>7, <2>8 DEF SessionRuns,
       SessionStep
<1>3. CASE EvidenceLost
  BY <1>3 DEF EvidenceLost
<1> QED
  BY <1>1, <1>2, <1>3

(* Bytes change, the server speaks, the daemon answers: nothing breaks.    *)
LEMMA EnvironmentKeeps ==
  ASSUME IInv, CleanupIInv', SessionInv', SentInv', Environment
  PROVE  RunInv'
<1> USE DEF IInv, RunInv, CleanupIInv, CleanupTypeOK, SessionInv, SentInv,
            PlaceInv, StageInv, InputsInv, FilesInv, NoFiles, ReturnInv,
            FailureInv, FailureTruthful, ContainerGone, InputsGone,
            RejectionInv, Concluded, CatalogErrors, LateStages, Both,
            AbsencesPaid, RemovalPending, Early, Discovered, Reviewing,
            Returned, FailSteps, RejectSteps, BeforeSend, Registered,
            OpenSteps, PhaseSteps, Settled, hostVars, reviewVars, faultVars,
            sessionVars, errorVars, cleanupVars, daemonVars, loopVars,
            runVars, CleanupStates, Looping
<1>1. CASE HostChanges
  <2>1. PlaceInv'
    BY <1>1 DEF HostChanges
  <2>2. StageInv'
    BY <1>1 DEF HostChanges
  <2>3. InputsInv'
    BY <1>1 DEF HostChanges
  <2>4. FilesInv'
    BY <1>1 DEF HostChanges
  <2>5. ReturnInv'
    BY <1>1 DEF HostChanges
  <2>6. FailureInv'
    BY <1>1 DEF HostChanges
  <2>7. RejectionInv'
    BY <1>1 DEF HostChanges
  <2> QED
    BY <2>1, <2>2, <2>3, <2>4, <2>5, <2>6, <2>7 DEF RunInv
<1>2. CASE WindowCloses
  BY <1>2 DEF WindowCloses
<1>3. CASE DaemonActs
  BY <1>3 DEF DaemonActs, DaemonStep, DaemonCreates, DaemonRefuses
<1>7. CASE NameChanges
  BY <1>7 DEF NameChanges, NameStep, NameTaken, NameFreed
<1>4. CASE TargetActs
  BY <1>4 DEF TargetActs, TargetAnswers, Connected, ToolsListed, CallReturns,
     PhaseCompletes
<1>5. CASE RecordingActs
  BY <1>5 DEF RecordingActs, RecordingFails
<1>6. ASSUME NEW notice, ServerSpeaks(notice) PROVE RunInv'
  BY <1>6 DEF ServerSpeaks
<1> QED
  BY <1>1, <1>2, <1>3, <1>4, <1>5, <1>6, <1>7 DEF Environment

-----------------------------------------------------------------------------
(* The initial states satisfy the invariant.                               *)
LEMMA RunInitially ==
  ASSUME Init
  PROVE  IInv
<1>1. CleanupIInv
  BY CleanupInitially DEF Init
<1>2. SessionInv /\ SentInv
  BY DEF Init, SessionInit, SessionInv, SentInv
<1>3. PlaceInv /\ StageInv
  BY DEF Init, SessionInit, CleanupInit, PlaceInv, StageInv, Early,
     Discovered,
     Reviewing, Returned, FailSteps, RejectSteps, Registered
<1>4. InputsInv
  BY DEF Init, SessionInit, CleanupInit, InputsInv, Discovered, Reviewing,
     LateStages, Both, Registered
<1>5. FilesInv /\ ReturnInv
  BY DEF Init, NoFiles, FilesInv, ReturnInv, Returned
<1>6. FailureInv /\ RejectionInv
  BY DEF Init, NoFiles, FailureInv, FailureTruthful, RejectionInv, RejectSteps
<1> QED
  BY <1>1, <1>2, <1>3, <1>4, <1>5, <1>6 DEF IInv, RunInv

(* The invariant holds in every reachable state of the run.                *)
THEOREM EnrolledRunInvariant == Spec => []IInv
<1>1. ASSUME IInv, [Next]_vars
      PROVE  IInv'
  <2>1. CleanupIInv' /\ SessionInv' /\ SentInv'
    BY <1>1, CleanupKept, SessionKept, SentKept
  <2>2. CASE UNCHANGED vars
    BY <1>1, <2>1, <2>2
    DEF IInv, RunInv, vars, runVars, cleanupVars, daemonVars, loopVars,
        sessionVars, errorVars, hostVars, reviewVars, faultVars,
        PlaceInv, StageInv, InputsInv, FilesInv, ReturnInv, FailureInv,
        FailureTruthful, ContainerGone, InputsGone, RejectionInv, Concluded,
        RemovalPending, Registered
  <2>3. CASE Next
    <3>1. RunInv'
      BY <1>1, <2>1, <2>3, DiscoveryKeeps, ExecutionKeeps, FailureKeeps,
         RejectedKeeps, ThrowsKeeps, EnvironmentKeeps DEF Next, Controller
    <3> QED
      BY <2>1, <3>1 DEF IInv
  <2> QED
    BY <1>1, <2>2, <2>3
<1> QED
  BY RunInitially, <1>1, PTL DEF Spec

(* What the session returns is a complete recording.                       *)
LEMMA ReturnedRecorded ==
  ASSUME IInv
  PROVE  ReturnedMeansRecorded
<1> SUFFICES ASSUME session = "returned"
             PROVE  /\ ~recordingFailed
                    /\ [i \in DOMAIN phases |-> phases[i].step] =
                         IF withTool
                         THEN <<"connect", "list", "call", "cooldown">>
                         ELSE <<"connect", "list", "cooldown">>
                    /\ \A i \in DOMAIN phases : phases[i].status = "completed"
                    /\ (sentCalls = 1) <=> withTool
  BY DEF ReturnedMeansRecorded
<1>1. ~recordingFailed /\ ~primaryError
  BY DEF IInv, SessionInv
<1>2. phases = IF withTool THEN Whole ELSE Quiet
  BY <1>1 DEF IInv, SessionInv
<1>3. /\ [i \in DOMAIN phases |-> phases[i].step] =
           IF withTool THEN <<"connect", "list", "call", "cooldown">>
                       ELSE <<"connect", "list", "cooldown">>
      /\ \A i \in DOMAIN phases : phases[i].status = "completed"
  <2>1. CASE withTool
    BY <1>2, <2>1 DEF Whole, Done, Phase
  <2>2. CASE ~withTool
    BY <1>2, <2>2 DEF Quiet, Done, Phase
  <2> QED
    BY <2>1, <2>2
<1>4. (sentCalls = 1) <=> withTool
  BY <1>1 DEF IInv, SentInv
<1> QED
  BY <1>1, <1>3, <1>4

(* An attempt is written over a finished removal and disposal.             *)
LEMMA AttemptProved ==
  ASSUME IInv
  PROVE  AttemptProvesOneCall
<1> SUFFICES ASSUME files.attempt # {}
             PROVE  /\ review = "approved" /\ monitor = "passed" /\ sentCalls = 1
                    /\ ~ranOnChanged /\ notices = {}
                    /\ ContainerGone /\ InputsGone
                    /\ files.cleanup = {"verified"}
  BY DEF AttemptProvesOneCall
<1>1. /\ withTool /\ session = "returned" /\ cleanup = "verified"
      /\ ~ranOnChanged /\ notices = {} /\ held = {}
      /\ files.cleanup = {"verified"}
  BY DEF IInv, RunInv, ReturnInv
<1>2. sentCalls = 1 /\ monitor = "passed"
  BY <1>1 DEF IInv, SessionInv, SentInv
<1>3. review = "approved"
  BY <1>1 DEF IInv, RunInv, PlaceInv
<1>4. ContainerGone /\ InputsGone
  BY <1>1 DEF IInv, RunInv, CleanupIInv, AbsencesPaid, InputsInv,
     ContainerGone, InputsGone
<1> QED
  BY <1>1, <1>2, <1>3, <1>4

(* Every stage the catch block rejects at has a reason of that stage.      *)
LEMMA ReasonsFit ==
  ASSUME IInv, pc = "reject"
  PROVE  ValidRejection(Rejection)
<1>1. ~Registered /\ Concluded
  BY DEF IInv, RunInv, StageInv, RejectionInv, RejectSteps
<1>2. stage = "catalog_validation" => error \in CatalogErrors
  BY DEF IInv, RunInv, RejectionInv, RejectSteps
<1>3. ReasonStage[Reason(stage, error)] = stage
  BY <1>1, <1>2 DEF ReasonStage, Reason, Registered, CatalogErrors
<1>4. /\ stage \in LateStages => ending # "not_started"
      /\ stage = "discovery_cleanup" => ending = "verification_failed"
  <2>1. Both # {}
    BY DEF Both
  <2> QED
    BY <1>1, <2>1 DEF IInv, RunInv, InputsInv, RejectionInv, Concluded
<1> QED
  BY <1>3, <1>4 DEF ValidRejection, Rejection, LateStages

(* A rejection says of the cleanup what is so.                             *)
LEMMA RejectionHolds ==
  ASSUME IInv
  PROVE  RejectionSound
<1>1. RejectionTruthful
  BY DEF IInv, RunInv, RejectionInv, Concluded, RejectionTruthful
<1>2. RejectionNeverContradicts
  BY ReasonsFit DEF RejectionNeverContradicts
<1>3. DiscoveryInputsKept
  BY DEF IInv, RunInv, InputsInv, DiscoveryInputsKept
<1> QED
  BY <1>1, <1>2, <1>3 DEF RejectionSound

(* Whatever fails and in whatever order, a session that returns, an        *)
(* attempt, a failure record and a rejection claim no more than happened:  *)
(* for every number of cleanup checks that outlasts the daemon's delay.    *)
THEOREM EnrolledRecordsHold == Spec => []RecordsSound
<1>1. IInv => RecordsSound
  BY ReturnedRecorded, AttemptProved, RejectionHolds
  DEF RecordsSound, IInv, RunInv, FailureInv
<1> QED
  BY <1>1, EnrolledRunInvariant, PTL


-----------------------------------------------------------------------------
(***************************************************************************)
(* Theorems about the comparison of a hypothesis with what a trial showed, *)
(* for every draft, effect, policy and trial result.                       *)
(*                                                                         *)
(* The argument: whatever was recorded, every effect that occurred keeps a *)
(* row of its own, and what is weighed against the limits of a rule only   *)
(* grows with the effects.  So a verdict is earned by the rows beneath it, *)
(* and the schema refuses a comparison only where its two versions of one  *)
(* rule disagree or an observation's own limit is not the approved one     *)
(* (KnownDisagreement).                                                    *)
(***************************************************************************)

(* Two versions of the rules weigh a missed prediction differently, next   *)
(* to a dimension that stays inconclusive; and one judges an overflow by   *)
(* the capture's own limit, the other by the approved one.                 *)
KnownDisagreement(h, r, seen) ==
  \/ /\ \E p \in h.predictions :
          ~\E e \in seen : EffectMatchesPrediction(p, e)
     /\ \A s \in Required : r.sensors[s] = "complete"
     /\ \/ h.classes = {} \/ "unknown" \in h.shapes
        \/ r.schema = "not_assessed" \/ r.capture.status # "complete"
        \/ \A a \in r.analysis : a.coverage = "prefix"
  \/ OtherLimit(r.capture)

ComparisonInv ==
  /\ policy \in Policies
  /\ effects \subseteq EffectIds /\ IsFiniteSet(effects)
  /\ \A h \in hypothesis :
       hypothesis = {h} /\ h.predictions = Predictions /\ h.reasonable \in Nat
  /\ \A r \in result : result = {r} /\ r \in Results /\ Recordable(r)
  /\ \A c \in comparison : \E h \in hypothesis, r \in result :
       c = Comparison(h, r, effects)
  /\ refused => \E h \in hypothesis, r \in result :
       ~Accepted(Comparison(h, r, effects))

-----------------------------------------------------------------------------
(* What counts against the limits of a rule only grows with the effects.   *)
LEMMA LimitsTighten ==
  ASSUME NEW rule, rule.max \in Nat,
         NEW T \in SUBSET EffectIds, IsFiniteSet(T), NEW S \in SUBSET T,
         WithinRuleLimits(rule, T)
  PROVE  WithinRuleLimits(rule, S)
<1> DEFINE Units(e) == {e} \X (1..EffectOf[e].amount)
           Matching(X) == {e \in X : BaseRuleMatches(rule, e)}
           Counted(X) == UNION {Units(e) : e \in Matching(X)}
<1>1. IsFiniteSet(Matching(T)) /\ Matching(T) \subseteq EffectIds
  BY FS_Subset
<1>2. \A e \in EffectIds : IsFiniteSet(Units(e))
  <2> TAKE e \in EffectIds
  <2>1. IsFiniteSet({e})
    BY FS_Singleton
  <2>2. EffectOf[e].amount \in Int /\ 1 \in Int
    BY ComparisonAssumption
  <2>3. IsFiniteSet(1..EffectOf[e].amount)
    BY <2>2, FS_Interval
  <2> QED
    BY <2>1, <2>3, FS_Product
<1>3. IsFiniteSet({Units(e) : e \in Matching(T)})
  <2> DEFINE f == [e \in Matching(T) |-> Units(e)]
             R == {Units(e) : e \in Matching(T)}
  <2>1. f \in Surjection(Matching(T), R)
    BY DEF Surjection
  <2> QED
    BY <1>1, <2>1, FS_Surjection
<1>4. IsFiniteSet(Counted(T))
  BY <1>1, <1>2, <1>3, FS_UNION
<1>5. Counted(S) \subseteq Counted(T)
  OBVIOUS
<1>6. /\ Cardinality(Counted(S)) <= Cardinality(Counted(T))
      /\ Cardinality(Counted(S)) \in Nat /\ Cardinality(Counted(T)) \in Nat
  BY <1>4, <1>5, FS_Subset, FS_CardinalityType
<1>7. Cardinality(Counted(T)) <= rule.max
  BY DEF WithinRuleLimits
<1>8. Cardinality(Counted(S)) <= rule.max
  BY <1>6, <1>7
<1> QED
  BY <1>8 DEF WithinRuleLimits

(* How an effect is appraised: a rule that denies it decides, then one     *)
(* that asks for a review, whatever its limits; only then do limits count. *)
RulesOf(e) == {rule \in policy.rules : BaseRuleMatches(rule, e)}
Denied(e) == \E rule \in RulesOf(e) : rule.decision = "deny"
Reviewed(e) == \E rule \in RulesOf(e) : rule.decision = "review_required"
Allowed(e, seen) ==
  \E rule \in RulesOf(e) : WithinRuleLimits(rule, seen)

LEMMA AppraisalCases ==
  ASSUME NEW e, NEW seen
  PROVE  /\ Appraise(e, seen).decision =
              IF Denied(e) THEN "denied"
              ELSE IF Reviewed(e) THEN "review_required"
              ELSE IF Allowed(e, seen) THEN "allowed" ELSE Default
         /\ (Appraise(e, seen).basis = "default_decision")
              <=> (Appraise(e, seen).rules = {})
<1> DEFINE base == RulesOf(e)
           denying == {rule \in base : rule.decision = "deny"}
           within == {rule \in base \ denying :
                        WithinRuleLimits(rule, seen)}
           exceeded == (base \ denying) \ within
           InReview(rules) == {rule \in rules :
                                 rule.decision = "review_required"}
           Ids(rules) == {rule.ruleId : rule \in rules}
           a == Appraise(e, seen)
<1>1. denying # {} => a = Appraisal("denied", "matching_rule", Ids(denying))
  BY DEF Appraise, RulesOf
<1>2. denying = {} /\ InReview(exceeded) # {} =>
        a = Appraisal("review_required", "rule_limits_exceeded",
                      Ids(InReview(exceeded)))
  BY DEF Appraise, RulesOf
<1>3. denying = {} /\ InReview(exceeded) = {} /\ within # {} =>
        a = Appraisal(IF InReview(within) # {} THEN "review_required"
                      ELSE "allowed", "matching_rule", Ids(within))
  BY DEF Appraise, RulesOf
<1>4. denying = {} /\ InReview(exceeded) = {} /\ within = {} =>
        a = Appraisal(Default, IF exceeded # {} THEN "rule_limits_exceeded"
                               ELSE "default_decision", Ids(exceeded))
  BY DEF Appraise, RulesOf
<1>5. /\ Denied(e) <=> denying # {}
      /\ denying = {} =>
           /\ Reviewed(e) <=> InReview(exceeded) # {} \/ InReview(within) # {}
           /\ Allowed(e, seen) <=> within # {}
  BY DEF Denied, Reviewed, Allowed
<1>6. /\ InReview(within) # {} => within # {}
      /\ \A rules : Ids(rules) = {} <=> rules = {}
  OBVIOUS
<1> HIDE DEF denying, within, exceeded, Reviewing, Ids, a
<1>7. a.decision = IF Denied(e) THEN "denied"
              ELSE IF Reviewed(e) THEN "review_required"
              ELSE IF Allowed(e, seen) THEN "allowed" ELSE Default
  BY <1>1, <1>2, <1>3, <1>4, <1>5, <1>6 DEF Appraisal
<1>8. (a.basis = "default_decision") <=> (a.rules = {})
  BY <1>1, <1>2, <1>3, <1>4, <1>6 DEF Appraisal
<1> QED
  BY <1>7, <1>8 DEF a

(* The rows of the two tables.                                             *)
LEMMA Rows ==
  ASSUME NEW h, NEW seen
  PROVE  /\ DOMAIN PredictedRows(h, seen) = h.predictions
         /\ \A p \in h.predictions : PredictedRows(h, seen)[p] =
              {e \in seen : EffectMatchesPrediction(p, e)}
         /\ DOMAIN ObservedRows(h, seen) = seen
         /\ \A e \in seen :
              /\ ObservedRows(h, seen)[e].predictions =
                   {p \in h.predictions : EffectMatchesPrediction(p, e)}
              /\ ObservedRows(h, seen)[e].appraisal = Appraise(e, seen)
  BY DEF PredictedRows, ObservedRows

(* The schema accepts whatever the writer makes of a valid observation,    *)
(* the known disagreements aside.                                          *)
LEMMA AcceptedUnlessKnown ==
  ASSUME NEW h, h.reasonable \in Nat,
         NEW r \in Results, Recordable(r), NEW seen,
         ~KnownDisagreement(h, r, seen)
  PROVE  Accepted(Comparison(h, r, seen))
<1> DEFINE c == Comparison(h, r, seen)
<1> HIDE DEF c
<1>r. /\ \A a, b \in r.analysis : a = b
      /\ r.capture.status \in {"complete", "truncated", "unavailable"}
      /\ r.capture.status # "unavailable" => r.capture.bytes \in Nat
      /\ r.capture.status = "truncated" =>
           /\ r.capture.atLeast \in Nat
           /\ r.capture.atLeast >= r.capture.bytes
           /\ r.capture.overflow <=> ( /\ r.capture.cause = "plan_output_limit"
                                       /\ r.capture.atLeast > ApprovedMax )
  <2>1. ~OtherLimit(r.capture)
    BY DEF KnownDisagreement
  <2> QED
    BY <2>1, ComparisonAssumption DEF Recordable, OtherLimit
<1>c. /\ c.capture = r.capture
      /\ c.coverage = {a.coverage : a \in r.analysis}
      /\ c.complete = CompleteSensors(r)
      /\ c.incomplete = Required \ CompleteSensors(r)
      /\ c.content = ContentComparison(h, r.analysis)
  BY DEF c, Comparison
<1>s. /\ c.protocol.expected = h.protocols
      /\ c.protocol.observed = r.protocol
      /\ c.protocol.status =
           IF r.protocol \in h.protocols THEN "matches" ELSE "deviates"
      /\ c.shape.expected = h.shapes /\ c.shape.observed = r.shape
      /\ c.shape.status = ShapeStatus(h, r)
      /\ c.schema.observed = r.schema
      /\ c.schema.status = SchemaStatus(r.schema)
      /\ c.maxReasonable = h.reasonable
      /\ c.reasonable = SizeStatus(r.capture, h.reasonable)
      /\ c.approved = SizeStatus(r.capture, ApprovedMax)
  BY DEF c, Comparison
<1>t. /\ c.predicted = PredictedRows(h, seen)
      /\ c.effects = ObservedRows(h, seen)
      /\ c.expectation = Combine({c.protocol.status, c.shape.status,
           c.schema.status, c.reasonable, c.content.status,
           EffectStatus(c.predicted, c.effects, c.complete)})
      /\ c.policy = PolicySummary(c.effects, c.approved, c.complete)
      /\ c.risk = IntrinsicRisk(r)
      /\ c.verdict = Verdict(c.expectation, c.policy, c.risk)
  BY DEF c, Comparison
<1>a. /\ c.content.expected = h.classes
      /\ c.content.observed = UNION {a.classes : a \in r.analysis}
      /\ c.content.signals = UNION {a.signals : a \in r.analysis}
      /\ r.analysis = {} => c.content.unexpected = {} /\ c.content.missing = {}
      /\ r.analysis # {} =>
           /\ c.content.unexpected = c.content.observed \ h.classes
           /\ c.content.missing = h.classes \ c.content.observed
      /\ c.content.status =
           IF r.analysis = {} \/ h.classes = {} THEN "inconclusive"
           ELSE IF \A a \in r.analysis : a.coverage = "prefix"
           THEN IF c.content.signals # {} THEN "deviates" ELSE "inconclusive"
           ELSE IF c.content.observed # h.classes THEN "deviates"
           ELSE "matches"
  BY <1>c DEF ContentComparison
<1>b. /\ c.coverage = {} <=> r.analysis = {}
      /\ c.coverage = {"prefix"} <=>
           r.analysis # {} /\ \A a \in r.analysis : a.coverage = "prefix"
  BY <1>c
<1>1. CoverageConsistent(c)
  BY <1>r, <1>c, <1>a, <1>b DEF CoverageConsistent, CompleteSensors
<1>2. /\ c.protocol.status =
           IF c.protocol.observed \in c.protocol.expected THEN "matches"
           ELSE "deviates"
      /\ c.shape.status =
           IF CapturedBytes(c.capture) = {} \/ "unknown" \in c.shape.expected
           THEN "inconclusive"
           ELSE IF c.shape.observed \in c.shape.expected THEN "matches"
           ELSE "deviates"
      /\ c.schema.status = SchemaStatus(c.schema.observed)
  BY <1>c, <1>s DEF ShapeStatus, CapturedBytes
<1>3. SizeFollows(c, c.reasonable, c.maxReasonable)
  BY <1>r, <1>c, <1>s DEF SizeFollows, SizeStatus, CapturedBytes
<1>4. SizeFollows(c, c.approved, ApprovedMax)
  BY <1>r, <1>c, <1>s DEF SizeFollows, SizeStatus, CapturedBytes
<1>5. ContentFollows(c)
  BY <1>a, <1>b DEF ContentFollows
<1>6. RowsAgree(c)
  BY <1>t, Rows, AppraisalCases DEF RowsAgree
<1>7. ExpectationFollows(c)
  <2> DEFINE unforeseen == \E e \in DOMAIN c.effects :
                             c.effects[e].predictions = {}
             missed == \E p \in DOMAIN c.predicted : c.predicted[p] = {}
             status == EffectStatus(c.predicted, c.effects, c.complete)
             open == \/ c.shape.status = "inconclusive"
                     \/ c.schema.status = "inconclusive"
                     \/ c.reasonable = "inconclusive"
                     \/ c.content.status = "inconclusive"
  <2>1. status = IF unforeseen THEN "deviates"
                 ELSE IF ~missed THEN "matches"
                 ELSE IF c.complete = Required THEN "deviates"
                 ELSE "inconclusive"
    BY DEF EffectStatus
  <2>2. ~(open /\ missed /\ c.complete = Required)
    <3> SUFFICES ASSUME open, missed, c.complete = Required PROVE FALSE
      OBVIOUS
    <3>1. \E p \in h.predictions :
            ~\E e \in seen : EffectMatchesPrediction(p, e)
      BY <1>t, Rows
    <3>2. \A s \in Required : r.sensors[s] = "complete"
      BY <1>c DEF CompleteSensors
    <3>3. \/ h.classes = {} \/ "unknown" \in h.shapes
          \/ r.schema = "not_assessed" \/ r.capture.status # "complete"
          \/ \A a \in r.analysis : a.coverage = "prefix"
      <4>1. c.shape.status = "inconclusive" =>
              "unknown" \in h.shapes \/ r.capture.status # "complete"
        BY <1>s DEF ShapeStatus
      <4>2. c.schema.status = "inconclusive" => r.schema = "not_assessed"
        BY <1>s DEF SchemaStatus
      <4>3. c.reasonable = "inconclusive" => r.capture.status # "complete"
        BY <1>s DEF SizeStatus
      <4>4. c.content.status = "inconclusive" =>
              h.classes = {} \/ \A a \in r.analysis : a.coverage = "prefix"
        BY <1>a
      <4> QED
        BY <4>1, <4>2, <4>3, <4>4
    <3> QED
      BY <3>1, <3>2, <3>3 DEF KnownDisagreement
  <2>3. c.protocol.status # "inconclusive"
    BY <1>s
  <2>4. c.expectation = Combine({c.protocol.status, c.shape.status,
           c.schema.status, c.reasonable, c.content.status, status})
    BY <1>t
  <2> HIDE DEF status, unforeseen, missed
  <2>5. c.expectation \in
          LET definite ==
                {c.protocol.status, c.shape.status, c.schema.status,
                 c.reasonable, c.content.status}
                \union (IF unforeseen THEN {"deviates"} ELSE {})
          IN  IF "deviates" \in definite THEN {"deviates"}
              ELSE IF "inconclusive" \in definite THEN {"inconclusive"}
              ELSE IF missed THEN {"deviates", "inconclusive"} ELSE {"matches"}
    BY <2>1, <2>2, <2>3, <2>4 DEF Combine
  <2> QED
    BY <2>5 DEF ExpectationFollows, unforeseen, missed
<1>8. SummariesFollow(c)
  <2>1. (c.content.signals # {}) <=> c.risk = "signals_observed"
    BY <1>a, <1>t DEF IntrinsicRisk
  <2>2. c.risk = "no_signal_observed" =>
          c.capture.status = "complete" /\ c.coverage = {"complete"}
    BY <1>r, <1>c, <1>t DEF IntrinsicRisk
  <2>3. c.complete # Required <=> c.incomplete # {}
    BY <1>c DEF CompleteSensors
  <2> QED
    BY <1>t, <2>1, <2>2, <2>3 DEF SummariesFollow, PolicySummary
<1> QED
  BY <1>1, <1>2, <1>3, <1>4, <1>5, <1>6, <1>7, <1>8 DEF Accepted, c

(* What a comparison that expects nothing else shows of the observation.   *)
EarnedBy(h, r, seen) ==
  /\ r.capture.status = "complete"
  /\ r.capture.bytes <= ApprovedMax /\ r.capture.bytes <= h.reasonable
  /\ \E a \in r.analysis : a.coverage = "complete" /\ a.signals = {}
  /\ \A s \in Required : r.sensors[s] = "complete"
  /\ \A p \in h.predictions :
       \E e \in seen : EffectMatchesPrediction(p, e)
  /\ \A e \in seen :
       LET base == {rule \in policy.rules : BaseRuleMatches(rule, e)}
       IN  /\ \E p \in h.predictions : EffectMatchesPrediction(p, e)
           /\ \A rule \in base : rule.decision = "allow"
           /\ \E rule \in base : WithinRuleLimits(rule, seen)

LEMMA VerdictEarned ==
  ASSUME policy \in Policies,
         NEW h, h.reasonable \in Nat, NEW r \in Results, NEW seen,
         Comparison(h, r, seen).verdict = "expected_within_policy"
  PROVE  EarnedBy(h, r, seen)
<1> DEFINE c == Comparison(h, r, seen)
<1> HIDE DEF c
<1>1. /\ c.reasonable = SizeStatus(r.capture, h.reasonable)
      /\ c.approved = SizeStatus(r.capture, ApprovedMax)
      /\ c.complete = CompleteSensors(r)
      /\ c.predicted = PredictedRows(h, seen)
      /\ c.effects = ObservedRows(h, seen)
      /\ c.expectation = Combine({c.protocol.status, c.shape.status,
           c.schema.status, c.reasonable, c.content.status,
           EffectStatus(c.predicted, c.effects, c.complete)})
      /\ c.policy = PolicySummary(c.effects, c.approved, c.complete)
      /\ c.risk = IntrinsicRisk(r)
      /\ c.verdict = Verdict(c.expectation, c.policy, c.risk)
  BY DEF c, Comparison
<1>2. /\ c.expectation = "matches" /\ c.policy = "within_policy"
      /\ c.risk = "no_signal_observed"
  <2>1. c.verdict = "expected_within_policy"
    BY DEF c
  <2>2. /\ c.expectation \in {"deviates", "inconclusive", "matches"}
        /\ c.policy \in {"policy_deviation", "review_required",
                         "inconclusive", "within_policy"}
        /\ c.risk \in {"signals_observed", "no_signal_observed",
                       "inconclusive"}
    BY <1>1 DEF Combine, PolicySummary, IntrinsicRisk
  <2> QED
    BY <1>1, <2>1, <2>2 DEF Verdict
<1>3. /\ r.capture.status = "complete"
      /\ \E a \in r.analysis : a.coverage = "complete" /\ a.signals = {}
  BY <1>1, <1>2 DEF IntrinsicRisk
<1>4. /\ c.reasonable = "matches"
      /\ EffectStatus(c.predicted, c.effects, c.complete) = "matches"
  <2>1. c.reasonable \in {"deviates", "inconclusive", "matches"}
    BY <1>1 DEF SizeStatus
  <2>2. EffectStatus(c.predicted, c.effects, c.complete)
          \in {"deviates", "inconclusive", "matches"}
    BY DEF EffectStatus
  <2> QED
    BY <1>1, <1>2, <2>1, <2>2 DEF Combine
<1>5. /\ c.approved = "matches" /\ c.complete = Required
      /\ \A e \in DOMAIN c.effects :
           c.effects[e].appraisal.decision \notin {"denied", "review_required"}
  BY <1>1, <1>2 DEF PolicySummary, Decisions, SizeStatus
<1>6. r.capture.bytes <= ApprovedMax /\ r.capture.bytes <= h.reasonable
  <2>1. r.capture.bytes \in Nat /\ ApprovedMax \in Nat
    BY <1>3, ComparisonAssumption
  <2> QED
    BY <1>1, <1>3, <1>4, <1>5, <2>1 DEF SizeStatus
<1>7. \A s \in Required : r.sensors[s] = "complete"
  BY <1>1, <1>5 DEF CompleteSensors
<1>8. /\ \A e \in DOMAIN c.effects : c.effects[e].predictions # {}
      /\ \A p \in DOMAIN c.predicted : c.predicted[p] # {}
  BY <1>4, <1>5 DEF EffectStatus
<1>9. \A p \in h.predictions :
        \E e \in seen : EffectMatchesPrediction(p, e)
  BY <1>1, <1>8, Rows
<1>10. ASSUME NEW e \in seen
       PROVE  /\ \E p \in h.predictions : EffectMatchesPrediction(p, e)
              /\ \A rule \in RulesOf(e) : rule.decision = "allow"
              /\ \E rule \in RulesOf(e) : WithinRuleLimits(rule, seen)
  <2>1. /\ e \in DOMAIN c.effects
        /\ c.effects[e].predictions =
             {p \in h.predictions : EffectMatchesPrediction(p, e)}
        /\ c.effects[e].appraisal = Appraise(e, seen)
    BY <1>1, Rows
  <2>2. Appraise(e, seen).decision \notin {"denied", "review_required"}
    BY <1>5, <2>1
  <2>3. ~Denied(e) /\ ~Reviewed(e) /\ Allowed(e, seen)
    BY <2>2, AppraisalCases DEF Default
  <2>4. \A rule \in RulesOf(e) :
          rule.decision \in {"allow", "deny", "review_required"}
    BY ComparisonAssumption DEF RulesOf
  <2> QED
    BY <1>8, <2>1, <2>3, <2>4 DEF Denied, Reviewed, Allowed
<1> QED
  BY <1>3, <1>6, <1>7, <1>9, <1>10 DEF EarnedBy, RulesOf

-----------------------------------------------------------------------------
(* The initial states satisfy the invariant.                               *)
LEMMA ComparisonInitially == ComparisonInit => ComparisonInv
  BY FS_EmptySet DEF ComparisonInit, ComparisonInv

(* So does every step.                                                     *)
LEMMA ComparisonInductive ==
  ASSUME ComparisonInv, [ComparisonNext]_comparisonVars
  PROVE  ComparisonInv'
<1>1. ASSUME NEW draft \in Drafts, NEW at \in Moments,
             CompileHypothesis(draft, at)
      PROVE  ComparisonInv'
  <2>1. comparison = {} /\ ~refused
    BY <1>1 DEF ComparisonInv, CompileHypothesis
  <2> QED
    BY <1>1, <2>1, ComparisonAssumption
    DEF ComparisonInv, CompileHypothesis, Recordable, AnalysisRecordable
<1>2. ASSUME NEW at \in Moments, Record(at)
      PROVE  ComparisonInv'
  <2>1. comparison = {} /\ ~refused
    BY <1>2 DEF ComparisonInv, Record
  <2> QED
    BY <1>2, <2>1 DEF ComparisonInv, Record
<1>3. ASSUME NEW e \in EffectIds, ObserveEffect(e)
      PROVE  ComparisonInv'
  BY <1>3, FS_AddElement DEF ComparisonInv, ObserveEffect
<1>4. ASSUME policy' = policy, effects' = effects
      PROVE  \A h, r : Comparison(h, r, effects)' = Comparison(h, r, effects)
  BY <1>4 DEF Comparison, ObservedRows, Appraise, Default
<1>5. CASE Compare
  BY <1>4, <1>5 DEF ComparisonInv, Compare
<1>6. CASE UNCHANGED comparisonVars
  BY <1>4, <1>6 DEF ComparisonInv, comparisonVars
<1> QED
  BY <1>1, <1>2, <1>3, <1>5, <1>6 DEF ComparisonNext

(* The invariant holds in every reachable state.                           *)
THEOREM ComparisonInvariant == ComparisonSpec => []ComparisonInv
<1>1. ComparisonInv /\ [ComparisonNext]_comparisonVars => ComparisonInv'
  BY ComparisonInductive
<1> QED
  BY ComparisonInitially, <1>1, PTL DEF ComparisonSpec

(* compareOutcome() and its schema agree on every observation that may be  *)
(* recorded, whichever limit it names for itself, two known disagreements  *)
(* aside, and "expected_within_policy" is earned, whatever the policy, the *)
(* predictions and the effects are.                                        *)
THEOREM ComparisonHolds == ComparisonSpec => []ComparisonSound
<1>1. ASSUME ComparisonInv PROVE ComparisonSound
  <2>1. ASSUME refused
        PROVE  \E h \in hypothesis, r \in result :
                 KnownDisagreement(h, r, effects)
    BY <1>1, <2>1, AcceptedUnlessKnown DEF ComparisonInv
  <2>2. ASSUME NEW c \in comparison, c.verdict = "expected_within_policy"
        PROVE  \E h \in hypothesis, r \in result :
                 EarnedBy(h, r, effects) /\ h.predictions = Predictions
    BY <1>1, <2>2, VerdictEarned DEF ComparisonInv
  <2> QED
    BY <2>1, <2>2 DEF ComparisonSound, KnownDisagreement, EarnedBy
<1> QED
  BY ComparisonInvariant, <1>1, PTL

(* An effect that was denied or had to be reviewed is not excused by what  *)
(* is observed later.                                                      *)
THEOREM NothingIsExcused == ComparisonSpec => NeverExcused
<1>1. ASSUME ComparisonInv, ComparisonInv', [ComparisonNext]_comparisonVars,
             NEW e \in effects
      PROVE  Lenience(Appraise(e, effects').decision)
               <= Lenience(Appraise(e, effects).decision)
  <2>1. /\ effects \subseteq effects'
        /\ effects' \subseteq EffectIds /\ IsFiniteSet(effects')
    <3>1. effects \subseteq effects'
      BY <1>1
      DEF ComparisonNext, CompileHypothesis, Record, ObserveEffect, Compare,
          comparisonVars
    <3> QED
      BY <1>1, <3>1 DEF ComparisonInv
  <2>2. \A rule \in RulesOf(e) : rule.max \in Nat
    BY <1>1, ComparisonAssumption DEF RulesOf, ComparisonInv
  <2>3. Allowed(e, effects') => Allowed(e, effects)
    BY <2>1, <2>2, LimitsTighten DEF Allowed
  <2> QED
    BY <2>3, AppraisalCases DEF Lenience, Default
<1>2. ComparisonInv /\ ComparisonInv' /\ [ComparisonNext]_comparisonVars =>
        [\A e \in effects :
           Lenience(Appraise(e, effects').decision)
             <= Lenience(Appraise(e, effects).decision)]_comparisonVars
  BY <1>1
<1> QED
  BY ComparisonInvariant, <1>2, PTL DEF ComparisonSpec, NeverExcused

=============================================================================
