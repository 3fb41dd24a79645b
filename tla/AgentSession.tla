---------------------------- MODULE AgentSession ----------------------------
(***************************************************************************)
(* The recorded MCP session of an agent trial, src/src/agent/mcp-session.ts*)
(* (AgentTrial sees of it only whether its transport has failed).  Unlike  *)
(* the transport of src/src/mcp/stdio.ts its record queue survives a failed*)
(* record: those queued behind it still run, so the transcript may have a  *)
(* gap, which a phase or the close has to report.                          *)
(*                                                                         *)
(* An action is the code between two awaits.  The client and the inner     *)
(* transport are the MCP library: a closed inner transport refuses sends,  *)
(* a message is handed to the client as it is enqueued.                    *)
(***************************************************************************)
EXTENDS Naturals, Sequences, SequencesExt

CONSTANTS
  Catalogs,             (* tools that may be listed: sequences of [name, size]*)
  MessageSizes,         (* serialized sizes of messages and stderr chunks     *)
  MaxTranscriptCount,   (* MAX_MCP_TRANSCRIPT_MESSAGES                        *)
  MaxTranscriptSize,    (* MAX_MCP_TRANSCRIPT_BYTES                           *)
  MaxToolCount,         (* MAX_MCP_TOOL_COUNT                                 *)
  MaxToolSchema,        (* MAX_MCP_INPUT_SCHEMA_BYTES                         *)
  MaxArgumentSize,      (* MAX_MCP_TOOL_ARGUMENT_BYTES                        *)
  MaxStderr,            (* MAX_MCP_STDERR_BYTES                               *)
  MaxPhases             (* bound: phases of a session                         *)

VARIABLES
  log,           (* messages accepted by enqueue(), in sequence              *)
  tried,         (* records of recordQueue that have run                     *)
  recorded,      (* sequence numbers in mcp-transcript.jsonl, file order     *)
  handed,        (* sequence numbers handed to inner.send                    *)
  terminal,      (* terminalError is set, and recordingError with it         *)
  linked,        (* the inner transport has a process to write to            *)
  child,         (* the server process: "none", "running" or "ended"         *)
  hanging,       (* closeRequested                                           *)
  session,       (* state: "opening", "open", "closing" or "closed"          *)
  offered,       (* advertisedToolNames                                      *)
  phase,         (* the phase inPhase() runs: its kind, task and extent      *)
  phases,        (* phaseRecords                                             *)
  observed,      (* observedTransportFailure is set                          *)
  stderr,        (* bytes captured                                           *)
  cut,           (* quotaExceeded                                            *)
  teardown,      (* where closeResources() stands                            *)
  flushed,       (* the extent of the last flush of closeResources()         *)
  closeFailed,   (* closeError                                               *)
  closeResult    (* of close(): "none", "ok" or "failed"                     *)

queueVars == <<log, tried, recorded, handed>>
linkVars == <<terminal, linked, child>>
phaseVars == <<session, offered, phase, phases, observed>>
stderrVars == <<stderr, cut>>
teardownVars == <<teardown, flushed, closeFailed, closeResult>>
sessionVars == <<queueVars, linkVars, hanging, phaseVars, stderrVars,
                 teardownVars>>

NoPhase == [kind |-> "none", task |-> "none", since |-> 0, flush |-> 0]

SessionInit ==
  /\ log = <<>> /\ tried = 0 /\ recorded = <<>> /\ handed = <<>>
  /\ terminal = FALSE /\ linked = FALSE /\ child = "none" /\ hanging = FALSE
  /\ session = "opening" /\ offered = {} /\ phase = NoPhase /\ phases = <<>>
  /\ observed = FALSE
  /\ stderr = 0 /\ cut = FALSE
  /\ teardown = "none" /\ flushed = 0 /\ closeFailed = FALSE
  /\ closeResult = "none"

-----------------------------------------------------------------------------
(* The record queue.                                                       *)

(* abort(): the first failure stays, and starts inner.close().             *)
Fail == terminal' = TRUE /\ linked' = FALSE /\ UNCHANGED child

Size(messages) == FoldLeft(LAMBDA sum, m : sum + m.size, 0, messages)

(* What enqueue() asks of a message before it gets a sequence number.      *)
Fits(size) ==
  /\ Len(log) + 1 <= MaxTranscriptCount
  /\ Size(log) + size <= MaxTranscriptSize

Enqueue(from, size) ==
  /\ log' = Append(log, [from |-> from, size |-> size])
  /\ UNCHANGED <<tried, recorded, handed>>

(* send(): the library's requests and notifications of the running phase.  *)
Send(size) ==
  /\ phase.task = "pending" /\ phase.kind # "cooldown"
  /\ ~terminal /\ child # "none"
  /\ IF Fits(size) THEN Enqueue("client", size) /\ UNCHANGED linkVars
     ELSE Fail /\ UNCHANGED queueVars
  /\ UNCHANGED <<hanging, phaseVars, stderrVars, teardownVars>>

(* inner.onmessage, which is also what answers the phase's request.        *)
Answered == \E n \in ToSet(handed) : n > phase.since

Receive(size) ==
  /\ child = "running" /\ ~terminal
  /\ IF Fits(size)
     THEN /\ Enqueue("server", size)
          /\ \/ UNCHANGED phase
             \/ /\ phase.task = "pending" /\ Answered
                /\ phase' = [phase EXCEPT !.task = IF phase.kind = "tool"
                                                   THEN "ok" ELSE "listed"]
          /\ UNCHANGED linkVars
     ELSE Fail /\ UNCHANGED <<queueVars, phase>>
  /\ UNCHANGED <<hanging, session, offered, phases, observed, stderrVars,
                 teardownVars>>

(* The record at the head of the queue is appended, and the send that      *)
(* waits for it goes on to inner.send().                                   *)
RecordWritten ==
  /\ tried < Len(log)
  /\ tried' = tried + 1
  /\ recorded' = Append(recorded, tried')
  /\ \/ log[tried'].from = "server" /\ UNCHANGED <<handed, linkVars>>
     \/ /\ log[tried'].from = "client" /\ linked
        /\ handed' = Append(handed, tried') /\ UNCHANGED linkVars
     \/ log[tried'].from = "client" /\ ~linked /\ Fail /\ UNCHANGED handed
  /\ UNCHANGED <<log, hanging, phaseVars, stderrVars, teardownVars>>

(* ... or its append fails, before or after the line is in the file; the   *)
(* queue goes on.                                                          *)
RecordLost ==
  /\ tried < Len(log)
  /\ tried' = tried + 1
  /\ recorded' \in {recorded, Append(recorded, tried')}
  /\ Fail
  /\ UNCHANGED <<log, handed, hanging, phaseVars, stderrVars, teardownVars>>

(* inner.send() rejects, or inner.onerror or a stderr stream reports.      *)
TransportError ==
  /\ child = "running" /\ ~terminal
  /\ Fail
  /\ UNCHANGED <<queueVars, hanging, phaseVars, stderrVars, teardownVars>>

(* inner.onclose: a failure unless close() was called; requests that are   *)
(* pending fail.                                                           *)
ChildEnds ==
  /\ child = "running"
  /\ child' = "ended" /\ linked' = FALSE
  /\ terminal' = (terminal \/ ~hanging)
  /\ phase' = IF phase.task = "pending" /\ phase.kind # "cooldown"
              THEN [phase EXCEPT !.task = "error"] ELSE phase
  /\ UNCHANGED <<queueVars, hanging, session, offered, phases, observed,
                 stderrVars, teardownVars>>

(* BoundedStderrTransform: what is over the quota is cut off, and aborts.  *)
StderrChunk(size) ==
  /\ child = "running" /\ ~cut /\ teardown \notin {"streams", "done"}
  /\ IF stderr + size <= MaxStderr
     THEN stderr' = stderr + size /\ UNCHANGED <<cut, linkVars>>
     ELSE stderr' = MaxStderr /\ cut' = TRUE /\ Fail
  /\ UNCHANGED <<queueVars, hanging, phaseVars, teardownVars>>

-----------------------------------------------------------------------------
(* Phases.                                                                 *)
StartPhase(type) ==
  /\ phase = NoPhase /\ Len(phases) < MaxPhases
  /\ phase' = [kind |-> type, task |-> "pending", since |-> Len(log),
               flush |-> 0]
  /\ UNCHANGED <<session, offered, phases, observed>>

(* initialize(): the client connects, the process starts or does not.      *)
Initialize ==
  /\ session = "opening" /\ phases = <<>>
  /\ StartPhase("initialization")
  /\ \/ child' = "running" /\ linked' = TRUE /\ UNCHANGED terminal
     \/ Fail
  /\ UNCHANGED <<queueVars, hanging, stderrVars, teardownVars>>

(* assertOpen(), refusing with the transport's failure.                    *)
Refused ==
  /\ session = "open" /\ phase = NoPhase
  /\ terminal /\ ~observed
  /\ observed' = TRUE
  /\ UNCHANGED <<queueVars, linkVars, hanging, session, offered, phase, phases,
                 stderrVars, teardownVars>>

ArgumentsFit(size) == size <= MaxArgumentSize

(* callTool() of an advertised tool; it throws for any other.              *)
CallTool(tool, size) ==
  /\ session = "open" /\ ~terminal
  /\ tool \in offered /\ ArgumentsFit(size)
  /\ StartPhase("tool")
  /\ UNCHANGED <<queueVars, linkVars, hanging, stderrVars, teardownVars>>

Cooldown ==
  /\ session = "open" /\ ~terminal
  /\ StartPhase("cooldown")
  /\ UNCHANGED <<queueVars, linkVars, hanging, stderrVars, teardownVars>>

(* The task fails: a timeout, an error answer, interface.json not written; *)
(* that of a cooldown only ends.                                           *)
TaskEnds ==
  /\ phase.task \in {"pending", "listed"}
  /\ phase' = [phase EXCEPT !.task = IF phase.kind = "cooldown" THEN "ok"
                                     ELSE "error"]
  /\ UNCHANGED <<queueVars, linkVars, hanging, session, offered, phases,
                 observed, stderrVars, teardownVars>>

(* What initialize() asks of the tools the server lists.                   *)
Admitted(catalog) ==
  /\ Len(catalog) <= MaxToolCount
  /\ \A i \in DOMAIN catalog : catalog[i].size <= MaxToolSchema
  /\ \A i, j \in DOMAIN catalog : catalog[i].name = catalog[j].name => i = j

ListsTools(catalog) ==
  /\ phase.task = "listed"
  /\ offered' = IF Admitted(catalog) THEN {t.name : t \in ToSet(catalog)}
                ELSE offered
  /\ phase' = [phase EXCEPT !.task =
                 IF Admitted(catalog) THEN "ok" ELSE "error"]
  /\ UNCHANGED <<queueVars, linkVars, hanging, session, phases, observed,
                 stderrVars, teardownVars>>

(* flush(): what has been enqueued by now is waited for, ...               *)
Flush ==
  /\ phase.task \in {"ok", "error"} /\ phase.flush = 0
  /\ phase' = [phase EXCEPT !.flush = Len(log) + 1]
  /\ UNCHANGED <<queueVars, linkVars, hanging, session, offered, phases,
                 observed, stderrVars, teardownVars>>

FlushDone == phase.flush # 0 /\ tried + 1 >= phase.flush

(* ... and a failure found then makes the phase a failed one, after another*)
(* flush.                                                                  *)
FlushFails ==
  /\ FlushDone /\ phase.task = "ok" /\ terminal
  /\ phase' = [phase EXCEPT !.task = "error", !.flush = 0]
  /\ UNCHANGED <<queueVars, linkVars, hanging, session, offered, phases,
                 observed, stderrVars, teardownVars>>

(* recordPhase(): the phase is remembered, then appended to phases.jsonl;  *)
(* the caller gets an error when that fails.                               *)
PhaseEnds(status) ==
  /\ phases' = Append(phases, [kind |-> phase.kind, status |-> status,
                               extent |-> phase.flush - 1])
  /\ phase' = NoPhase
  /\ UNCHANGED <<queueVars, linkVars, hanging, offered, stderrVars,
                 teardownVars>>

PhaseCompletes ==
  /\ FlushDone /\ phase.task = "ok" /\ ~terminal
  /\ PhaseEnds("completed")
  /\ session' \in IF phase.kind = "initialization" THEN {"opening", "open"}
                  ELSE {session}
  /\ UNCHANGED observed

PhaseFails ==
  /\ FlushDone /\ phase.task = "error"
  /\ PhaseEnds("failed")
  /\ observed' = (observed \/ terminal)
  /\ UNCHANGED session

-----------------------------------------------------------------------------
(* close(), by the caller that opened the session or failed to.            *)
Close ==
  /\ teardown = "none" /\ phase = NoPhase /\ phases # <<>>
  /\ session' = "closing" /\ hanging' = TRUE /\ linked' = FALSE
  /\ teardown' = "inner"
  /\ UNCHANGED <<queueVars, terminal, child, offered, phase, phases, observed,
                 stderrVars, flushed, closeFailed, closeResult>>

(* inner.close() settles, whether or not the process has ended; after an   *)
(* abort it is the abort's own, whose failure is kept behind the first.    *)
InnerCloses ==
  /\ teardown = "inner"
  /\ \/ teardown' = "flush" /\ flushed' = Len(log) /\ UNCHANGED closeFailed
     \/ ~terminal /\ teardown' = "streams" /\ closeFailed' = TRUE
        /\ UNCHANGED flushed
  /\ UNCHANGED <<queueVars, linkVars, hanging, phaseVars, stderrVars,
                 closeResult>>

(* Mutant: a failure of the transport is no failure of the close.          *)
Reported == TRUE

(* A failure a caller already has does not fail the close too.             *)
KnownFailure == observed

(* The flush of the transport's close(), then that of closeResources().    *)
CloseFlushes ==
  /\ teardown \in {"flush", "again"} /\ tried >= flushed
  /\ \/ terminal /\ teardown' = "streams" /\ closeFailed' = ~KnownFailure
        /\ UNCHANGED flushed
     \/ ~terminal /\ teardown = "flush" /\ teardown' = "again"
        /\ flushed' = Len(log) /\ UNCHANGED closeFailed
     \/ ~terminal /\ teardown = "again" /\ teardown' = "streams"
        /\ UNCHANGED <<flushed, closeFailed>>
  /\ UNCHANGED <<queueVars, linkVars, hanging, phaseVars, stderrVars,
                 closeResult>>

(* The stderr streams are finished, or fail; the close settles.            *)
CloseReturns ==
  /\ teardown = "streams"
  /\ teardown' = "done"
  /\ closeFailed' \in {closeFailed, TRUE}
  /\ closeResult' = IF closeResult = "none"
                    THEN IF closeFailed' THEN "failed" ELSE "ok"
                    ELSE closeResult
  /\ session' = "closed"
  /\ UNCHANGED <<queueVars, linkVars, hanging, offered, phase, phases, observed,
                 stderrVars, flushed>>

(* closeWithinDeadline(): the close rejects, its work goes on.             *)
CloseTimesOut ==
  /\ teardown \notin {"none", "done"} /\ closeResult = "none"
  /\ closeResult' = "failed" /\ session' = "closed"
  /\ UNCHANGED <<queueVars, linkVars, hanging, offered, phase, phases, observed,
                 stderrVars, teardown, flushed, closeFailed>>

-----------------------------------------------------------------------------
SessionNext ==
  \/ \E size \in MessageSizes : Send(size) \/ Receive(size) \/ StderrChunk(size)
  \/ RecordWritten \/ RecordLost \/ TransportError \/ ChildEnds
  \/ Initialize \/ Refused \/ Cooldown \/ TaskEnds
  \/ \E tool \in offered, size \in MessageSizes : CallTool(tool, size)
  \/ \E catalog \in Catalogs : ListsTools(catalog)
  \/ Flush \/ FlushFails \/ PhaseCompletes \/ PhaseFails
  \/ Close \/ InnerCloses \/ CloseFlushes \/ CloseReturns \/ CloseTimesOut

SessionSpec == SessionInit /\ [][SessionNext]_sessionVars

-----------------------------------------------------------------------------
Whole(extent) == \A n \in 1..extent : n \in ToSet(recorded)

(* Nothing reaches the server that is not in the transcript; a phase ends  *)
(* as completed only with every message accepted before its flush in the   *)
(* transcript; and a close that returns leaves no gap before its flush,    *)
(* unless a caller was given the failure earlier.  Records that run behind *)
(* a failed one leave gaps, but never an unreported one.                   *)
AgentTranscriptSound ==
  /\ ToSet(handed) \subseteq ToSet(recorded)
  /\ \A i, j \in DOMAIN recorded : i < j => recorded[i] < recorded[j]
  /\ \A p \in ToSet(phases) : p.status = "completed" => Whole(p.extent)
  /\ closeResult = "ok" /\ ~observed => Whole(flushed)

=============================================================================
