------------------------- MODULE RecordingTransport -------------------------
(***************************************************************************)
(* The recording MCP transport of src/src/mcp/stdio.ts, class              *)
(* RecordingTransport: it stands between the MCP client and the child      *)
(* process, appends every message to a durable transcript BEFORE the       *)
(* message reaches the wire, and lets one armed tools/call through.        *)
(*                                                                         *)
(* One JavaScript event loop runs all of this.  An action is the code      *)
(* between two awaits.  The continuation of an awaited transcript append   *)
(* runs in the microtasks of that append's settlement, before any I/O      *)
(* callback and before the next queued append is started (its reaction is  *)
(* registered earlier), so RecordAppended takes it in the same step.       *)
(*                                                                         *)
(* Bounds: each member of Sends is one call of send(); MaxMessages and     *)
(* MaxBytes are the transcript limits of the code (256 and 2,000,000).     *)
(***************************************************************************)
EXTENDS Naturals, Sequences

CONSTANTS
  Sends,        (* the calls of send() the client makes                      *)
  NoSend,       (* the "send" of a message that came from the server         *)
  ClientMsgs,   (* the messages the client may send                          *)
  ServerMsgs,   (* the messages the child process may send                   *)
  Params,       (* canonical {name, arguments} of tool calls                 *)
  MaxMessages,  (* MAX_MCP_TRANSCRIPT_MESSAGES                               *)
  MaxBytes      (* MAX_MCP_TRANSCRIPT_BYTES                                  *)

ClientKinds == {"initialize", "tools/call", "other"}
ServerKinds == {"list_changed", "other"}

(* A message: `bounded` says whether cloneBoundedJson accepts it, `size`   *)
(* is its serialized length with the newline.                              *)
Message(kinds) == [kind: kinds, params: Params, size: Nat, bounded: BOOLEAN]

ASSUME TransportAssumption ==
  /\ NoSend \notin Sends
  /\ ClientMsgs \subseteq Message(ClientKinds)
  /\ ServerMsgs \subseteq Message(ServerKinds)
  /\ MaxMessages \in Nat
  /\ MaxBytes \in Nat

VARIABLES
  accepted,        (* messages given a sequence number, in that order        *)
  bytes,           (* acceptedMessageBytes                                   *)
  appended,        (* sequence numbers in mcp-transcript.jsonl, file order   *)
  settled,         (* records of the queue that were appended                *)
  queueRejected,   (* recordQueue is a rejected promise                      *)
  wire,            (* sequence numbers handed to inner.send, in order        *)
  reports,         (* calls of onToolCallSent                                *)
  sends,           (* the state of each send()                               *)
  armed,           (* {} or {canonicalParams}: armedToolCall                 *)
  reserved,        (* armedToolCall.sent                                     *)
  listChanged,     (* observedToolsListChanged                               *)
  initializeSeen,  (* initializeRequestId # undefined                        *)
  failed,          (* terminalError # undefined                              *)
  closeRequested,
  abortRequested,  (* abortPromise # undefined                               *)
  innerStarted,
  innerClosed,
  closing,         (* where closeResources() stands                          *)
  closeError,      (* closeResources() will reject                           *)
  closed

transcriptVars == <<accepted, bytes, appended, settled, queueRejected>>
wireVars == <<wire, reports>>
guardVars == <<armed, reserved, listChanged, initializeSeen>>
innerVars == <<innerStarted, innerClosed>>
failVars == <<failed, closeRequested, abortRequested>>
closeVars == <<closing, closeError, closed>>
vars == <<transcriptVars, wireVars, sends, guardVars, failVars, innerVars,
          closeVars>>

SendStates == {"idle", "recording", "draining", "done", "failed"}
CloseStates == {"none", "inner", "barrier", "sends", "flush", "done"}
Entry == [msg: ClientMsgs \union ServerMsgs, send: Sends \union {NoSend}]

-----------------------------------------------------------------------------
Init ==
  /\ accepted = <<>>
  /\ bytes = 0
  /\ appended = <<>>
  /\ settled = 0
  /\ queueRejected = FALSE
  /\ wire = <<>>
  /\ reports = 0
  /\ sends = [s \in Sends |-> "idle"]
  /\ armed = {}
  /\ reserved = FALSE
  /\ listChanged = FALSE
  /\ initializeSeen = FALSE
  /\ failed = FALSE
  /\ closeRequested = FALSE
  /\ abortRequested = FALSE
  /\ innerStarted = FALSE
  /\ innerClosed = FALSE
  /\ closing = "none"
  /\ closeError = FALSE
  /\ closed = FALSE

(* abort(): the first failure closes the gate and starts inner.close().    *)
Abort ==
  IF closed \/ failed
  THEN UNCHANGED failVars
  ELSE failed' = TRUE /\ closeRequested' = TRUE /\ abortRequested' = TRUE

(* What enqueue() asks of a message before it gets a sequence number.      *)
WithinLimits(m) ==
  /\ m.bounded
  /\ Len(accepted) < MaxMessages
  /\ bytes + m.size <= MaxBytes

(* inspectMessage() throws on a second initialize request.                 *)
Admissible(m) == WithinLimits(m) /\ ~(m.kind = "initialize" /\ initializeSeen)

(* enqueue() on success: inspectMessage's notes, then the sequence number. *)
Accept(m, s) ==
  /\ accepted' = Append(accepted, [msg |-> m, send |-> s])
  /\ bytes' = bytes + m.size
  /\ listChanged' = (listChanged \/ m.kind = "list_changed")
  /\ initializeSeen' = (initializeSeen \/ m.kind = "initialize")
  /\ UNCHANGED <<appended, settled, queueRejected>>

(* Mutant: a repeated tools/call is not refused.                           *)
GuardAllowsRepeats(m) ==
  m.kind = "tools/call" => ~listChanged /\ m.params \in armed

(* guardToolCallSend(): what it requires, and what it then reserves.       *)
GuardAllows(m) ==
  m.kind = "tools/call" => ~reserved /\ ~listChanged /\ m.params \in armed

Reserve(m) == reserved' = (reserved \/ m.kind = "tools/call")

(* Mutant: the catalog is not looked at again after the append.            *)
RecheckIgnoresCatalog(m) ==
  m.kind = "tools/call" => reserved /\ m.params \in armed

(* recheckToolCallSend(), after the append.                                *)
RecheckAllows(m) ==
  m.kind = "tools/call" => reserved /\ ~listChanged /\ m.params \in armed

-----------------------------------------------------------------------------
(* armSingleToolCall() throws once armed or once the transport is closing. *)
Arm(p) ==
  /\ ~closeRequested
  /\ armed = {}
  /\ armed' = {p}
  /\ UNCHANGED <<transcriptVars, wireVars, sends, reserved, listChanged,
                 initializeSeen, failVars, innerVars, closeVars>>

(* send() after close was requested: rejected, nothing else happens.       *)
SendWhenClosing(s) ==
  /\ sends[s] = "idle"
  /\ closeRequested
  /\ sends' = [sends EXCEPT ![s] = "failed"]
  /\ UNCHANGED <<transcriptVars, wireVars, guardVars, failVars, innerVars,
                 closeVars>>

(* sendWhileOpen() up to its await, refused by the tool-call guard.        *)
SendRefusedByGuard(s, m) ==
  /\ sends[s] = "idle"
  /\ ~closeRequested
  /\ ~GuardAllows(m)
  /\ Abort
  /\ sends' = [sends EXCEPT ![s] = "failed"]
  /\ UNCHANGED <<transcriptVars, wireVars, guardVars, innerVars, closeVars>>

(* ... or refused by enqueue(): the guard has already reserved the call.   *)
SendRefusedByQueue(s, m) ==
  /\ sends[s] = "idle"
  /\ ~closeRequested
  /\ GuardAllows(m)
  /\ ~Admissible(m)
  /\ Reserve(m)
  /\ Abort
  /\ sends' = [sends EXCEPT ![s] = "failed"]
  /\ UNCHANGED <<transcriptVars, wireVars, armed, listChanged,
                 initializeSeen, innerVars, closeVars>>

(* Mutant: the message goes to the wire without awaiting its append.       *)
SendUnrecorded(s, m) ==
  /\ sends[s] = "idle"
  /\ ~closeRequested
  /\ GuardAllows(m)
  /\ Admissible(m)
  /\ Reserve(m)
  /\ Accept(m, s)
  /\ wire' = Append(wire, Len(accepted) + 1)
  /\ reports' = reports
  /\ sends' = [sends EXCEPT ![s] = "draining"]
  /\ UNCHANGED <<armed, failVars, innerVars, closeVars>>

(* ... or accepted: the send now awaits its transcript append.             *)
SendAccepted(s, m) ==
  /\ sends[s] = "idle"
  /\ ~closeRequested
  /\ GuardAllows(m)
  /\ Admissible(m)
  /\ Reserve(m)
  /\ Accept(m, s)
  /\ sends' = [sends EXCEPT ![s] = "recording"]
  /\ UNCHANGED <<wireVars, armed, failVars, innerVars, closeVars>>

(* The rest of sendWhileOpen(), once the append of record r has returned.  *)
HandOff(r) ==
  /\ wire' = Append(wire, r)
  /\ reports' = IF accepted[r].msg.kind = "tools/call"
                THEN reports + 1 ELSE reports
  /\ sends' = [sends EXCEPT ![accepted[r].send] = "draining"]
  /\ UNCHANGED failVars

ResumeSend(r) ==
  LET mayGo == ~closeRequested /\ RecheckAllows(accepted[r].msg) IN
  \/ accepted[r].send = NoSend /\ UNCHANGED <<wireVars, sends, failVars>>
  \/ accepted[r].send # NoSend /\ mayGo /\ HandOff(r)
  \/ /\ accepted[r].send # NoSend /\ ~mayGo
     /\ Abort
     /\ sends' = [sends EXCEPT ![accepted[r].send] = "failed"]
     /\ UNCHANGED wireVars

(* The append at the head of the queue is durable.                         *)
RecordAppended ==
  /\ ~queueRejected
  /\ settled < Len(accepted)
  /\ settled' = settled + 1
  /\ appended' = Append(appended, settled + 1)
  /\ ResumeSend(settled + 1)
  /\ UNCHANGED <<accepted, bytes, queueRejected, guardVars, innerVars,
                 closeVars>>

(* Mutant: the queue goes on after a failed append.                        *)
RecordSkipped ==
  /\ settled < Len(accepted)
  /\ settled' = settled + 1
  /\ Abort
  /\ sends' = [s \in Sends |->
                 IF s = accepted[settled + 1].send THEN "failed" ELSE sends[s]]
  /\ UNCHANGED <<accepted, bytes, appended, queueRejected, wireVars, guardVars,
                 innerVars, closeVars>>

(* ... or it fails, before or after the line is in the file (the sync may  *)
(* fail): the queue rethrows, so no later record is written and every send *)
(* that waits on one fails.                                                *)
RecordFails ==
  /\ ~queueRejected
  /\ settled < Len(accepted)
  /\ queueRejected' = TRUE
  /\ appended' = Append(appended, settled + 1) \/ appended' = appended
  /\ Abort
  /\ sends' = [s \in Sends |->
                 IF sends[s] = "recording" THEN "failed" ELSE sends[s]]
  /\ UNCHANGED <<accepted, bytes, settled, wireVars, guardVars, innerVars,
                 closeVars>>

(* The promise of inner.send() settles: the pipe drained, or it rejected.  *)
Drained(s) ==
  /\ sends[s] = "draining"
  /\ sends' = [sends EXCEPT ![s] = "done"]
  /\ UNCHANGED <<transcriptVars, wireVars, guardVars, failVars, innerVars,
                 closeVars>>

WireRejects(s) ==
  /\ sends[s] = "draining"
  /\ Abort
  /\ sends' = [sends EXCEPT ![s] = "failed"]
  /\ UNCHANGED <<transcriptVars, wireVars, guardVars, innerVars, closeVars>>

-----------------------------------------------------------------------------
(* inner.start() resolves: the child process runs.                         *)
InnerStarted ==
  /\ ~innerStarted
  /\ ~closed
  /\ innerStarted' = TRUE
  /\ UNCHANGED <<transcriptVars, wireVars, sends, guardVars, failVars,
                 innerClosed, closeVars>>

(* inner.onmessage: a message of the child process is accepted, ...        *)
ServerMessageAccepted(m) ==
  /\ innerStarted /\ ~innerClosed /\ ~closed
  /\ ~closeRequested
  /\ Admissible(m)
  /\ Accept(m, NoSend)
  /\ UNCHANGED <<wireVars, sends, armed, reserved, failVars, innerVars,
                 closeVars>>

(* ... refused by enqueue(), ...                                           *)
ServerMessageRefused(m) ==
  /\ innerStarted /\ ~innerClosed /\ ~closed
  /\ ~closeRequested
  /\ ~Admissible(m)
  /\ Abort
  /\ UNCHANGED <<transcriptVars, wireVars, sends, guardVars, innerVars,
                 closeVars>>

(* ... or arrives while the transcript is being finalized: it is dropped,  *)
(* and the transport remembers that the transcript misses it.              *)
ServerMessageLate ==
  /\ innerStarted /\ ~innerClosed /\ ~closed
  /\ closeRequested
  /\ failed' = TRUE
  /\ UNCHANGED <<transcriptVars, wireVars, sends, guardVars, closeRequested,
                 abortRequested, innerVars, closeVars>>

(* inner.onclose.                                                          *)
InnerClosed ==
  /\ innerStarted /\ ~innerClosed /\ ~closed
  /\ innerClosed' = TRUE
  /\ failed' = (failed \/ ~closeRequested)
  /\ closeRequested' = TRUE
  /\ UNCHANGED <<transcriptVars, wireVars, sends, guardVars, abortRequested,
                 innerStarted, closeVars>>

(* inner.onerror and the stderr streams call abort().                      *)
InnerError ==
  /\ ~closed
  /\ Abort
  /\ UNCHANGED <<transcriptVars, wireVars, sends, guardVars, innerVars,
                 closeVars>>

-----------------------------------------------------------------------------
(* close() and the awaits of closeResources().  A deadline of 5 s may end  *)
(* the barrier and the wait for active sends; the flush has none.          *)
CloseCalled ==
  /\ closing = "none"
  /\ closing' = "inner"
  /\ closeRequested' = TRUE
  /\ UNCHANGED <<transcriptVars, wireVars, sends, guardVars, failed,
                 abortRequested, innerVars, closeError, closed>>

CloseInner ==
  /\ closing = "inner"
  /\ closing' = "barrier"
  /\ closeError' = TRUE \/ UNCHANGED closeError
  /\ UNCHANGED <<transcriptVars, wireVars, sends, guardVars, failVars,
                 innerVars, closed>>

(* Mutant: no deadline on the child's close event.                         *)
BarrierWithoutDeadline ==
  /\ closing = "barrier"
  /\ innerStarted => innerClosed
  /\ closing' = "sends"
  /\ UNCHANGED <<transcriptVars, wireVars, sends, guardVars, failVars,
                 innerVars, closeError, closed>>

CloseBarrier ==
  /\ closing = "barrier"
  /\ closing' = "sends"
  /\ closeError' = (closeError \/ (innerStarted /\ ~innerClosed))
  /\ UNCHANGED <<transcriptVars, wireVars, sends, guardVars, failVars,
                 innerVars, closed>>

SendsSettled == \A s \in Sends : sends[s] \notin {"recording", "draining"}

(* Mutant: the deadline on active sends passes silently.                   *)
CloseSendsSilently ==
  /\ closing = "sends"
  /\ closing' = "flush"
  /\ UNCHANGED <<transcriptVars, wireVars, sends, guardVars, failVars,
                 innerVars, closeError, closed>>

CloseSends ==
  /\ closing = "sends"
  /\ closing' = "flush"
  /\ closeError' = (closeError \/ ~SendsSettled)
  /\ UNCHANGED <<transcriptVars, wireVars, sends, guardVars, failVars,
                 innerVars, closed>>

(* Mutant: close() does not await the record queue.                        *)
QueueNotAwaited == TRUE

QueueSettled == queueRejected \/ settled = Len(accepted)

CloseFlush ==
  /\ closing = "flush"
  /\ QueueSettled
  /\ closing' = "done"
  /\ closed' = TRUE
  /\ closeError' = (closeError \/ queueRejected \/ failed)
  /\ UNCHANGED <<transcriptVars, wireVars, sends, guardVars, failVars,
                 innerVars>>

-----------------------------------------------------------------------------
Next ==
  \/ \E p \in Params : Arm(p)
  \/ \E s \in Sends : SendWhenClosing(s) \/ Drained(s) \/ WireRejects(s)
  \/ \E s \in Sends, m \in ClientMsgs :
       SendRefusedByGuard(s, m) \/ SendRefusedByQueue(s, m)
       \/ SendAccepted(s, m)
  \/ RecordAppended \/ RecordFails
  \/ \E m \in ServerMsgs : ServerMessageAccepted(m) \/ ServerMessageRefused(m)
  \/ InnerStarted \/ ServerMessageLate \/ InnerClosed \/ InnerError
  \/ CloseCalled \/ CloseInner \/ CloseBarrier \/ CloseSends \/ CloseFlush

Spec == Init /\ [][Next]_vars

(* A file append returns or fails, inner.close() kills the child within    *)
(* seconds, and the two deadlines fire: nothing else is assumed.           *)
Fairness ==
  /\ WF_vars(RecordAppended \/ RecordFails)
  /\ WF_vars(CloseInner)
  /\ WF_vars(CloseBarrier)
  /\ WF_vars(CloseSends)
  /\ WF_vars(CloseFlush)

FairSpec == Spec /\ Fairness

-----------------------------------------------------------------------------
(* The types of the transport's fields, with the two transcript limits     *)
(* enqueue() enforces.                                                     *)
TypeOK ==
  /\ accepted \in Seq(Entry)
  /\ Len(accepted) <= MaxMessages
  /\ bytes \in 0..MaxBytes
  /\ appended \in Seq(Nat)
  /\ settled \in 0..Len(accepted)
  /\ wire \in Seq(Nat)
  /\ reports \in Nat
  /\ sends \in [Sends -> SendStates]
  /\ armed \subseteq Params
  /\ closing \in CloseStates
  /\ queueRejected \in BOOLEAN /\ reserved \in BOOLEAN
  /\ listChanged \in BOOLEAN /\ initializeSeen \in BOOLEAN
  /\ failed \in BOOLEAN /\ closeRequested \in BOOLEAN
  /\ abortRequested \in BOOLEAN /\ innerStarted \in BOOLEAN
  /\ innerClosed \in BOOLEAN /\ closeError \in BOOLEAN
  /\ closed \in BOOLEAN

(* The file is a prefix of what was accepted, and only the record whose    *)
(* append failed may be in it without being settled: recordQueue rethrows. *)
PrefixAppended ==
  /\ appended = [i \in 1..Len(appended) |-> i]
  /\ \/ Len(appended) = settled
     \/ queueRejected /\ Len(appended) = settled + 1

(* The transcript file is a gap-free prefix of what was accepted, however  *)
(* appends fail and whatever aborts the transport, and what was accepted   *)
(* never exceeds the limits on messages and bytes of both directions.      *)
TranscriptGapFree ==
  PrefixAppended /\ Len(accepted) <= MaxMessages /\ bytes <= MaxBytes

(* Write-ahead: when a message is on the wire, its own record and the      *)
(* record of everything accepted before it are in the transcript file, and *)
(* the wire has the messages in transcript order.                          *)
WriteAhead ==
  /\ \A i \in DOMAIN wire : \A r \in 1..wire[i] :
       \E j \in DOMAIN appended : appended[j] = r
  /\ \A i, j \in DOMAIN wire : i < j => wire[i] < wire[j]

ToolCallsOnWire ==
  {i \in DOMAIN wire : accepted[wire[i]].msg.kind = "tools/call"}

(* At most one tools/call ever reaches the child process; it carries the   *)
(* armed parameters and is reported through onToolCallSent.                *)
SingleGuardedCall ==
  /\ \A i, j \in ToolCallsOnWire : i = j
  /\ \A i \in ToolCallsOnWire : accepted[wire[i]].msg.params \in armed
  /\ reports = (IF ToolCallsOnWire = {} THEN 0 ELSE 1)

CatalogChangeAccepted ==
  \E i \in DOMAIN accepted : accepted[i].msg.kind = "list_changed"

(* No tools/call is handed to the wire once a list_changed notification    *)
(* was accepted, even one that came while the call's append was pending.   *)
NoDispatchAfterCatalogChange ==
  [][ToolCallsOnWire' # ToolCallsOnWire => ~CatalogChangeAccepted]_vars

(* "No callback can mutate transcript state after close() settles."        *)
ClosedIsFinal ==
  [][closed => UNCHANGED <<transcriptVars, wireVars, guardVars, failVars,
                           closeVars>>]_vars

(* A close() that resolves leaves a complete transcript: every accepted    *)
(* message is in the file, no message was dropped, no send is pending.     *)
CleanCloseIsComplete ==
  closed /\ ~closeError =>
    /\ Len(appended) = Len(accepted)
    /\ ~failed
    /\ SendsSettled

(* close() settles: it waits on the record queue and on deadlines only.    *)
CloseSettles == (closing # "none") ~> closed

=============================================================================
