---------------------------- MODULE McExperiment ----------------------------
(***************************************************************************)
(* runMcpExperiment() of src/src/mcp/stdio.ts: one MCP session with one    *)
(* container, in phases (initialize, list the tools, perhaps one guarded   *)
(* tools/call, cooldown), closed whatever happens.  The analysis and the   *)
(* enrolled run both use it.                                               *)
(*                                                                         *)
(* The recording transport is the module RecordingTransport: here it is    *)
(* its `failure` and whether the guarded call has left.  The recording may *)
(* fail at any time the session is open (a refused message, a file that    *)
(* cannot be written, standard error over its quota).                      *)
(***************************************************************************)
EXTENDS ContainerCleanup, Sequences

VARIABLES
  session,          (* where runMcpExperiment() stands                       *)
  withTool,         (* toolExperiment # undefined                            *)
  phases,           (* the phases pushed so far                              *)
  recordingFailed,  (* recording.failure # undefined                         *)
  primaryError,     (* primaryError # undefined                              *)
  cleanupError,     (* cleanupError # undefined                              *)
  retained,         (* mcpInterface and discoveredCatalog are assigned       *)
  sentCalls         (* onToolCallSent() was called that often                *)

sessionVars == <<session, withTool, phases, recordingFailed, primaryError,
                 cleanupError, retained, sentCalls>>
errorVars == <<recordingFailed, primaryError, cleanupError>>

PhaseSteps == {"connect", "list", "call", "cooldown"}
OpenSteps == PhaseSteps \union {"retain", "check", "hook", "failedCall",
                                "close"}
Settled == {"returned", "threw"}

SessionInit ==
  /\ session = "none"
  /\ withTool = FALSE
  /\ phases = <<>>
  /\ recordingFailed = FALSE
  /\ primaryError = FALSE
  /\ cleanupError = FALSE
  /\ retained = FALSE
  /\ sentCalls = 0

(* The transport spawns `docker run`; connect() starts the first phase.    *)
StartSession(tool) ==
  /\ session = "none"
  /\ RequestContainer
  /\ session' = "connect"
  /\ withTool' = tool
  /\ UNCHANGED <<phases, errorVars, retained, sentCalls>>

(* Another container of the same run, with a name of its own.              *)
NewContainer ==
  /\ creation' = "pending"
  /\ container' \in {"absent", "foreign"}
  /\ lag' = 0 /\ taken' = FALSE
  /\ cleanup' = "idle" /\ absences' = 0 /\ removals' = 0

StartAgain(tool) ==
  /\ session = "returned"
  /\ NewContainer
  /\ session' = "connect"
  /\ withTool' = tool
  /\ phases' = <<>>
  /\ retained' = FALSE
  /\ UNCHANGED <<errorVars, sentCalls>>

Phase(step, status) == [step |-> step, status |-> status]

(* inPhase(): the task succeeds, the queue of records is flushed, and the  *)
(* phase is appended to phases.jsonl.                                      *)
PhaseCompletes(from, to) ==
  /\ session = from
  /\ ~recordingFailed
  /\ phases' = Append(phases, Phase(from, "completed"))
  /\ session' = to
  /\ UNCHANGED <<withTool, errorVars, sentCalls>>

Connected == PhaseCompletes("connect", "list") /\ UNCHANGED retained

ToolsListed == PhaseCompletes("list", "retain") /\ UNCHANGED retained

(* The task fails, times out, or the flush finds a failed recording; a     *)
(* completed phase that cannot be appended is followed by a failed one.    *)
PhaseFails ==
  /\ session \in PhaseSteps
  /\ \/ phases' = Append(phases, Phase(session, "failed"))
     \/ /\ ~recordingFailed
        /\ phases' = phases \o <<Phase(session, "completed"),
                                 Phase(session, "failed")>>
  /\ primaryError' = TRUE
  /\ session' = IF session = "call" THEN "failedCall" ELSE "close"
  /\ UNCHANGED <<withTool, recordingFailed, cleanupError, retained, sentCalls>>

(* The interface and the catalog are bounded, cloned and written.          *)
InterfaceRetained ==
  /\ session = "retain"
  /\ retained' = TRUE
  /\ session' = IF withTool THEN "check" ELSE "cooldown"
  /\ UNCHANGED <<withTool, phases, errorVars, sentCalls>>

(* The tool is advertised, its schema compiles and admits the input.       *)
ToolChecked ==
  /\ session = "check"
  /\ ~recordingFailed
  /\ session' = "hook"
  /\ UNCHANGED <<withTool, phases, errorVars, retained, sentCalls>>

(* beforeToolCall() returned and changed nothing: the one call is armed.   *)
HookPassed ==
  /\ session = "hook"
  /\ session' = "call"
  /\ UNCHANGED <<withTool, phases, errorVars, retained, sentCalls>>

(* Any of the steps between the phases throws.                             *)
StepFails ==
  /\ session \in {"retain", "check", "hook"}
  /\ primaryError' = TRUE
  /\ session' = "close"
  /\ UNCHANGED <<withTool, phases, recordingFailed, cleanupError, retained,
                 sentCalls>>

(* The transport hands the recorded call to the wire: in its phase, or     *)
(* after its timeout while the failed phase is still being written.        *)
CallSent ==
  /\ session \in {"call", "failedCall"}
  /\ sentCalls = 0
  /\ ~recordingFailed
  /\ sentCalls' = 1
  /\ UNCHANGED <<session, withTool, phases, errorVars, retained>>

CallReturns ==
  /\ sentCalls = 1
  /\ PhaseCompletes("call", "cooldown")
  /\ UNCHANGED retained

CooledDown == PhaseCompletes("cooldown", "close") /\ UNCHANGED retained

RecordingFails ==
  /\ session \in OpenSteps
  /\ recordingFailed' = TRUE
  /\ UNCHANGED <<session, withTool, phases, primaryError, cleanupError,
                 retained, sentCalls>>

(* client.close(), recording.close() and the two streams of standard       *)
(* error: each may fail, and the last bytes may still exceed the quota.    *)
CloseSession ==
  /\ session \in {"close", "failedCall"}
  /\ cleanupError' \in BOOLEAN
  /\ recordingFailed' \in {recordingFailed, TRUE}
  /\ session' = "settle"
  /\ UNCHANGED <<withTool, phases, primaryError, retained, sentCalls>>

Complete == ~primaryError /\ ~recordingFailed /\ ~cleanupError /\ retained

(* It returns, or throws and its local variables are gone.                 *)
SettleSession ==
  /\ session = "settle"
  /\ IF Complete
     THEN /\ session' = "returned"
          /\ UNCHANGED <<phases, errorVars, retained>>
     ELSE /\ session' = "threw"
          /\ phases' = <<>>
          /\ recordingFailed' = FALSE
          /\ primaryError' = FALSE
          /\ cleanupError' = FALSE
          /\ retained' = FALSE
  /\ UNCHANGED <<withTool, sentCalls>>

(* What the target must do: nothing makes it.                              *)
TargetAnswers ==
  /\ container = "ours"
  /\ Connected \/ ToolsListed \/ CallReturns

(* The controller's own steps, and the deadlines of the target's.          *)
SessionStep ==
  \/ PhaseFails \/ InterfaceRetained \/ ToolChecked \/ StepFails \/ CallSent
  \/ CooledDown \/ CloseSession \/ SettleSession

-----------------------------------------------------------------------------
SessionTypeOK ==
  /\ CleanupTypeOK
  /\ session \in OpenSteps \union Settled \union {"none", "settle"}
  /\ withTool \in BOOLEAN
  /\ phases \in Seq([step: PhaseSteps, status: {"completed", "failed"}])
  /\ recordingFailed \in BOOLEAN /\ primaryError \in BOOLEAN
  /\ cleanupError \in BOOLEAN /\ retained \in BOOLEAN
  /\ sentCalls \in 0..1

(* A result is only returned for a session that is recorded from the first *)
(* phase to the last: every phase completed, in order and once, none of    *)
(* them recorded a second time as failed, no message lost to a failed      *)
(* recording, and the call sent exactly when there was one to send.        *)
ReturnedMeansRecorded ==
  session = "returned" =>
    /\ ~recordingFailed
    /\ [i \in DOMAIN phases |-> phases[i].step] =
         IF withTool THEN <<"connect", "list", "call", "cooldown">>
                     ELSE <<"connect", "list", "cooldown">>
    /\ \A i \in DOMAIN phases : phases[i].status = "completed"
    /\ (sentCalls = 1) <=> withTool

=============================================================================
