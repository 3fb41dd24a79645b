--------------------------- MODULE DetonationProofs ---------------------------
(***************************************************************************)
(* Theorems about what an experiment observes on the host's side of the    *)
(* container.  First the two recorders of MCP sessions, for any messages,  *)
(* any number of sends and phases, and any limits: RecordingTransport,     *)
(* where no record is written behind a failed one (its invariant is IInv), *)
(* then AgentSession, where the later records still run (SessionIInv).     *)
(* Then the claims of the interface that the server lists, for any         *)
(* interface and any limits (ClaimsInv), and the capture of a profile and  *)
(* its delta, for any trees, any limits, and any failures and expiries of  *)
(* the clock.                                                              *)
(*                                                                         *)
(* The argument for the capture: an object that is not retained is         *)
(* explained by an issue or a truncation, or it is still to come, under a  *)
(* root or a name that the walk has left.  When the capture stops at a     *)
(* position, all that is still to come comes after it, since the walk      *)
(* takes the least name first and leaves a directory only when nothing is  *)
(* left of it.  So a snapshot without an issue or a truncation has the     *)
(* whole tree, and the delta of two such is the difference of the trees.   *)
(***************************************************************************)
EXTENDS RecordingTransport, AgentSession, InterfaceClaims, FilesystemState,
        SequenceTheorems, FiniteSetTheorems, WellFoundedInduction, TLAPS

(* Every action but these four leaves the transcript and the wire alone,   *)
(* and none takes back an armed or reserved call.                          *)
LEMMA StepKinds ==
  ASSUME TypeOK, [Next]_vars
  PROVE  \/ \E s \in Sends, m \in ClientMsgs : SendAccepted(s, m)
         \/ \E m \in ServerMsgs : ServerMessageAccepted(m)
         \/ RecordAppended
         \/ RecordFails
         \/ /\ UNCHANGED <<accepted, appended, settled, queueRejected, wire,
                           reports, listChanged>>
            /\ reserved => reserved'
            /\ armed # {} => armed' = armed
<1> USE DEF transcriptVars, wireVars, guardVars
<1>1. ASSUME NEW p \in Params, Arm(p)
      PROVE  /\ UNCHANGED <<accepted, appended, settled, queueRejected, wire,
                            reports, listChanged, reserved>>
             /\ armed = {}
  BY <1>1 DEF Arm
<1>2. ASSUME NEW s \in Sends, NEW m \in ClientMsgs, SendRefusedByQueue(s, m)
      PROVE  /\ UNCHANGED <<accepted, appended, settled, queueRejected, wire,
                            reports, listChanged, armed>>
             /\ reserved => reserved'
  BY <1>2 DEF SendRefusedByQueue, Reserve
<1>3. QED
  BY <1>1, <1>2
  DEF Next, vars, SendWhenClosing, SendRefusedByGuard, Drained, WireRejects,
      InnerStarted, ServerMessageRefused, ServerMessageLate,
      InnerClosed, InnerError, CloseCalled, CloseInner, CloseBarrier,
      CloseSends, CloseFlush

(* abort() leaves three Booleans.                                          *)
LEMMA AbortTypes ==
  ASSUME TypeOK, Abort
  PROVE  failed' \in BOOLEAN /\ closeRequested' \in BOOLEAN
         /\ abortRequested' \in BOOLEAN
BY DEF TypeOK, Abort, failVars

(* enqueue() gives a message of the alphabet a sequence number.             *)
LEMMA AcceptTypes ==
  ASSUME TypeOK, NEW m \in ClientMsgs \union ServerMsgs,
         NEW s \in Sends \union {NoSend}, Admissible(m), Accept(m, s)
  PROVE  /\ accepted' = Append(accepted, [msg |-> m, send |-> s])
         /\ accepted' \in Seq(Entry)
         /\ Len(accepted') = Len(accepted) + 1 /\ Len(accepted') <= MaxMessages
         /\ bytes' \in 0..MaxBytes
         /\ settled \in 0..Len(accepted')
         /\ UNCHANGED <<appended, settled, queueRejected>>
         /\ listChanged' \in BOOLEAN /\ initializeSeen' \in BOOLEAN
<1>1. m.size \in Nat
  BY TransportAssumption DEF Message
<1>2. [msg |-> m, send |-> s] \in Entry
  BY DEF Entry
<1>3. Len(accepted') = Len(accepted) + 1 /\ accepted' \in Seq(Entry)
  BY <1>2 DEF Accept, TypeOK
<1>4. listChanged' \in BOOLEAN /\ initializeSeen' \in BOOLEAN
  BY DEF Accept, TypeOK
<1>5. QED
  BY <1>1, <1>3, <1>4, TransportAssumption
  DEF Accept, Admissible, WithinLimits, TypeOK

(* The state a new transport starts in is well typed.                      *)
LEMMA TypeOKInit == ASSUME Init PROVE TypeOK
<1> USE TransportAssumption DEF Init
<1>1. /\ accepted \in Seq(Entry) /\ Len(accepted) <= MaxMessages
      /\ settled \in 0..Len(accepted)
  OBVIOUS
<1>2. bytes \in 0..MaxBytes /\ appended \in Seq(Nat) /\ wire \in Seq(Nat)
  OBVIOUS
<1>3. sends \in [Sends -> SendStates] /\ closing \in CloseStates
  BY DEF SendStates, CloseStates
<1>4. QED
  BY <1>1, <1>2, <1>3 DEF TypeOK

(* Every operation of the transport keeps the types and the two limits.    *)
LEMMA TypeOKStep == ASSUME TypeOK, [Next]_vars PROVE TypeOK'
<1> USE DEF transcriptVars, wireVars, guardVars, failVars, innerVars,
                 closeVars
<1>1. ASSUME NEW p \in Params, Arm(p) PROVE TypeOK'
  BY <1>1 DEF Arm, TypeOK
<1>2. ASSUME NEW s \in Sends, SendWhenClosing(s) PROVE TypeOK'
  <2>1. sends' \in [Sends -> SendStates]
    BY <1>2 DEF SendWhenClosing, TypeOK, SendStates
  <2>2. QED
    BY <1>2, <2>1 DEF SendWhenClosing, TypeOK
<1>3. ASSUME NEW s \in Sends, Drained(s) PROVE TypeOK'
  <2>1. sends' \in [Sends -> SendStates]
    BY <1>3 DEF Drained, TypeOK, SendStates
  <2>2. QED
    BY <1>3, <2>1 DEF Drained, TypeOK
<1>4. ASSUME NEW s \in Sends, WireRejects(s) PROVE TypeOK'
  <2>1. Abort /\ sends' \in [Sends -> SendStates]
    BY <1>4 DEF WireRejects, TypeOK, SendStates
  <2>2. QED
    BY <1>4, <2>1, AbortTypes DEF WireRejects, TypeOK
<1>5. ASSUME NEW s \in Sends, NEW m \in ClientMsgs, SendRefusedByGuard(s, m)
      PROVE TypeOK'
  <2>1. Abort /\ sends' \in [Sends -> SendStates]
    BY <1>5 DEF SendRefusedByGuard, TypeOK, SendStates
  <2>2. QED
    BY <1>5, <2>1, AbortTypes DEF SendRefusedByGuard, TypeOK
<1>6. ASSUME NEW s \in Sends, NEW m \in ClientMsgs, SendRefusedByQueue(s, m)
      PROVE TypeOK'
  <2>1. /\ Abort /\ sends' \in [Sends -> SendStates]
        /\ reserved' \in BOOLEAN
    BY <1>6 DEF SendRefusedByQueue, Reserve, TypeOK, SendStates
  <2>2. QED
    BY <1>6, <2>1, AbortTypes DEF SendRefusedByQueue, TypeOK
<1>7. ASSUME NEW s \in Sends, NEW m \in ClientMsgs, SendAccepted(s, m)
      PROVE TypeOK'
  <2>1. /\ Admissible(m) /\ Accept(m, s)
        /\ sends' \in [Sends -> SendStates] /\ reserved' \in BOOLEAN
    BY <1>7 DEF SendAccepted, Reserve, TypeOK, SendStates
  <2>2. QED
    BY <1>7, <2>1, AcceptTypes DEF SendAccepted, TypeOK
<1>8. ASSUME RecordAppended PROVE TypeOK'
  <2>1. settled' \in 0..Len(accepted') /\ appended' \in Seq(Nat)
    BY <1>8 DEF RecordAppended, TypeOK
  <2>2. /\ wire' \in Seq(Nat) /\ reports' \in Nat
        /\ sends' \in [Sends -> SendStates]
        /\ failed' \in BOOLEAN /\ closeRequested' \in BOOLEAN
        /\ abortRequested' \in BOOLEAN
    <3>1. CASE HandOff(settled + 1)
      <4>1. wire' \in Seq(Nat) /\ reports' \in Nat
        BY <1>8, <3>1 DEF RecordAppended, HandOff, TypeOK
      <4>2. sends' \in [Sends -> SendStates]
        BY <3>1 DEF HandOff, TypeOK, SendStates
      <4>3. QED
        BY <3>1, <4>1, <4>2 DEF HandOff, TypeOK
    <3>2. CASE /\ Abort /\ UNCHANGED <<wire, reports>>
               /\ sends' = [sends EXCEPT ![accepted[settled + 1].send]
                                           = "failed"]
      BY <3>2, AbortTypes DEF TypeOK, SendStates
    <3>3. CASE UNCHANGED <<wireVars, sends, failVars>>
      BY <3>3 DEF TypeOK
    <3>4. QED
      BY <1>8, <3>1, <3>2, <3>3 DEF RecordAppended, ResumeSend
  <2>3. QED
    BY <1>8, <2>1, <2>2 DEF RecordAppended, TypeOK
<1>9. ASSUME RecordFails PROVE TypeOK'
  <2>1. Abort /\ sends' \in [Sends -> SendStates]
    BY <1>9 DEF RecordFails, TypeOK, SendStates
  <2>2. appended' \in Seq(Nat)
    <3>1. settled + 1 \in Nat /\ appended \in Seq(Nat)
      BY DEF TypeOK
    <3>2. appended' = Append(appended, settled + 1) \/ appended' = appended
      BY <1>9 DEF RecordFails
    <3>3. QED
      BY <3>1, <3>2
  <2>3. QED
    BY <1>9, <2>1, <2>2, AbortTypes DEF RecordFails, TypeOK
<1>10. ASSUME NEW m \in ServerMsgs, ServerMessageAccepted(m) PROVE TypeOK'
  <2>1. Admissible(m) /\ Accept(m, NoSend)
    BY <1>10 DEF ServerMessageAccepted
  <2>2. QED
    BY <1>10, <2>1, AcceptTypes DEF ServerMessageAccepted, TypeOK
<1>11. ASSUME NEW m \in ServerMsgs, ServerMessageRefused(m) PROVE TypeOK'
  <2>1. Abort
    BY <1>11 DEF ServerMessageRefused
  <2>2. QED
    BY <1>11, <2>1, AbortTypes DEF ServerMessageRefused, TypeOK
<1>12. CASE InnerStarted
  BY <1>12 DEF InnerStarted, TypeOK
<1>13. CASE ServerMessageLate
  BY <1>13 DEF ServerMessageLate, TypeOK
<1>14. CASE InnerClosed
  <2>1. failed' \in BOOLEAN
    BY <1>14 DEF InnerClosed, TypeOK
  <2>2. QED
    BY <1>14, <2>1 DEF InnerClosed, TypeOK
<1>15. CASE InnerError
  <2>1. Abort
    BY <1>15 DEF InnerError
  <2>2. QED
    BY <1>15, <2>1, AbortTypes DEF InnerError, TypeOK
<1>16. CASE CloseCalled
  BY <1>16 DEF CloseCalled, TypeOK, CloseStates
<1>17. CASE CloseInner
  <2>1. closeError' \in BOOLEAN /\ closing' \in CloseStates
    BY <1>17 DEF CloseInner, TypeOK, CloseStates
  <2>2. QED
    BY <1>17, <2>1 DEF CloseInner, TypeOK
<1>18. CASE CloseBarrier
  <2>1. closeError' \in BOOLEAN /\ closing' \in CloseStates
    BY <1>18 DEF CloseBarrier, TypeOK, CloseStates
  <2>2. QED
    BY <1>18, <2>1 DEF CloseBarrier, TypeOK
<1>19. CASE CloseSends
  <2>1. closeError' \in BOOLEAN /\ closing' \in CloseStates
    BY <1>19 DEF CloseSends, SendsSettled, TypeOK, CloseStates
  <2>2. QED
    BY <1>19, <2>1 DEF CloseSends, TypeOK
<1>20. CASE CloseFlush
  <2>1. closeError' \in BOOLEAN /\ closing' \in CloseStates
    BY <1>20 DEF CloseFlush, TypeOK, CloseStates
  <2>2. QED
    BY <1>20, <2>1 DEF CloseFlush, TypeOK
<1>21. CASE UNCHANGED vars
  BY <1>21 DEF vars, TypeOK
<1>22. QED
  BY <1>1, <1>2, <1>3, <1>4, <1>5, <1>6, <1>7, <1>8, <1>9, <1>10, <1>11,
     <1>12, <1>13, <1>14, <1>15, <1>16, <1>17, <1>18, <1>19, <1>20, <1>21
  DEF Next

(* Type correctness of the transport's state.                              *)
THEOREM TypeCorrect == Spec => []TypeOK
<1>1. Init => TypeOK
  BY TypeOKInit
<1>2. TypeOK /\ [Next]_vars => TypeOK'
  BY TypeOKStep
<1>3. QED
  BY <1>1, <1>2, PTL DEF Spec

-----------------------------------------------------------------------------
(* The strengthening.  A message on the wire is a client message whose     *)
(* append has settled; the wire is in transcript order; the tools/call of  *)
(* the transcript, if any, is unique, has the armed parameters and used up *)
(* the reservation; an accepted list_changed has raised its flag.          *)
WireInv ==
  /\ \A i \in DOMAIN wire : wire[i] \in 1..settled
  /\ \A i, j \in DOMAIN wire : i < j => wire[i] < wire[j]

IsCall(r) == accepted[r].msg.kind = "tools/call"

CallInv ==
  /\ \A r \in DOMAIN accepted :
       IsCall(r) => reserved /\ accepted[r].msg.params \in armed
  /\ \A q, r \in DOMAIN accepted : IsCall(q) /\ IsCall(r) => q = r

ReportInv == reports = (IF ToolCallsOnWire = {} THEN 0 ELSE 1)

CatalogInv == CatalogChangeAccepted => listChanged

(* Once close() has settled nothing is left that could change: the gate is *)
(* shut and the record queue is settled.                                   *)
ClosedInv ==
  /\ closing # "none" => closeRequested
  /\ closed <=> closing = "done"
  /\ closed => QueueSettled
  /\ closing \in {"flush", "done"} /\ ~closeError => SendsSettled
  /\ closed /\ ~closeError => ~queueRejected /\ ~failed

IInv ==
  /\ TypeOK /\ PrefixAppended /\ WireInv /\ CallInv /\ ReportInv
  /\ CatalogInv /\ ClosedInv

(* What an accepted message adds to the transcript.                        *)
LEMMA AcceptAdds ==
  ASSUME TypeOK, NEW m \in ClientMsgs \union ServerMsgs,
         NEW s \in Sends \union {NoSend}, Admissible(m), Accept(m, s)
  PROVE  /\ DOMAIN accepted' = DOMAIN accepted \union {Len(accepted) + 1}
         /\ accepted'[Len(accepted) + 1].msg = m
         /\ \A r \in DOMAIN accepted : accepted'[r] = accepted[r]
         /\ \A r \in 1..settled : r \in DOMAIN accepted
<1> DEFINE e == [msg |-> m, send |-> s]
<1>1. accepted' = Append(accepted, e) /\ e.msg = m
  BY AcceptTypes
<1>2. accepted \in Seq(Entry) /\ settled \in 0..Len(accepted)
  BY DEF TypeOK
<1>3. e \in Entry
  BY DEF Entry
<1> HIDE DEF e
<1>4. QED
  BY <1>1, <1>2, <1>3

(* One more record keeps the file free of gaps.                            *)
LEMMA NextRecord ==
  ASSUME NEW n \in Nat, NEW file, file = [i \in 1..n |-> i]
  PROVE  /\ Append(file, n + 1) = [i \in 1..(n + 1) |-> i]
         /\ Len(Append(file, n + 1)) = n + 1
<1>1. file \in Seq(Nat) /\ Len(file) = n
  OBVIOUS
<1>2. Append(file, n + 1) = [i \in 1..(n + 1) |-> i]
  BY <1>1
<1>3. QED
  BY <1>1, <1>2

(* The file only ever grows by the record at the head of the queue.        *)
LEMMA GapFreeStep ==
  ASSUME TypeOK, PrefixAppended, [Next]_vars
  PROVE  PrefixAppended'
<1>1. ASSUME NEW s \in Sends, NEW m \in ClientMsgs, SendAccepted(s, m)
      PROVE PrefixAppended'
  BY <1>1 DEF SendAccepted, Accept, PrefixAppended
<1>2. ASSUME NEW m \in ServerMsgs, ServerMessageAccepted(m)
      PROVE PrefixAppended'
  BY <1>2 DEF ServerMessageAccepted, Accept, PrefixAppended
<1>3. ASSUME ~queueRejected
      PROVE  /\ settled \in Nat /\ Len(appended) = settled
             /\ Append(appended, settled + 1) = [i \in 1..(settled + 1) |-> i]
             /\ Len(Append(appended, settled + 1)) = settled + 1
  <2>1. settled \in Nat
    BY DEF TypeOK
  <2>2. Len(appended) = settled
    BY <1>3 DEF PrefixAppended
  <2>3. appended = [i \in 1..settled |-> i]
    BY <2>2, Zenon DEF PrefixAppended
  <2>4. QED
    BY <2>1, <2>2, <2>3, NextRecord
<1>4. CASE RecordAppended
  <2>1. ~queueRejected /\ settled' = settled + 1
    BY <1>4 DEF RecordAppended
  <2>2. appended' = Append(appended, settled + 1)
    BY <1>4 DEF RecordAppended
  <2>3. QED
    BY <1>3, <2>1, <2>2 DEF PrefixAppended
<1>5. CASE RecordFails
  <2>1. ~queueRejected /\ queueRejected' /\ settled' = settled
    BY <1>5 DEF RecordFails
  <2>2. appended' = Append(appended, settled + 1) \/ appended' = appended
    BY <1>5 DEF RecordFails
  <2>3. QED
    BY <1>3, <2>1, <2>2 DEF PrefixAppended
<1>6. QED
  BY <1>1, <1>2, <1>4, <1>5, StepKinds DEF PrefixAppended

(* The wire only ever grows by the record whose append has just settled.   *)
LEMMA WireStep ==
  ASSUME TypeOK, WireInv, [Next]_vars
  PROVE  WireInv'
<1> USE DEF WireInv
<1>1. ASSUME NEW s \in Sends, NEW m \in ClientMsgs, SendAccepted(s, m)
      PROVE WireInv'
  BY <1>1 DEF SendAccepted, Accept, wireVars
<1>2. ASSUME NEW m \in ServerMsgs, ServerMessageAccepted(m)
      PROVE WireInv'
  BY <1>2 DEF ServerMessageAccepted, Accept, wireVars
<1>3. CASE RecordAppended
  <2>1. settled' = settled + 1 /\ settled \in Nat
    BY <1>3 DEF RecordAppended, TypeOK
  <2>2. wire' = wire \/ wire' = Append(wire, settled + 1)
    BY <1>3 DEF RecordAppended, ResumeSend, HandOff, wireVars
  <2>3. CASE wire' = wire
    BY <2>1, <2>3
  <2>4. CASE wire' = Append(wire, settled + 1)
    <3>1. /\ DOMAIN wire' = 1..(Len(wire) + 1) /\ DOMAIN wire = 1..Len(wire)
          /\ \A i \in 1..Len(wire) : wire'[i] = wire[i]
          /\ wire'[Len(wire) + 1] = settled + 1
          /\ Len(wire) \in Nat
      BY <2>4 DEF TypeOK
    <3>2. \A i \in DOMAIN wire' : wire'[i] \in 1..settled'
      BY <2>1, <3>1
    <3>3. \A i, j \in DOMAIN wire' : i < j => wire'[i] < wire'[j]
      BY <2>1, <3>1
    <3>4. QED
      BY <3>2, <3>3
  <2>5. QED
    BY <2>2, <2>3, <2>4
<1>4. CASE RecordFails
  BY <1>4 DEF RecordFails, wireVars
<1>5. QED
  BY <1>1, <1>2, <1>3, <1>4, StepKinds

(* guardToolCallSend() lets one tools/call into the transcript, the armed  *)
(* one, and nothing disarms it.                                            *)
LEMMA CallStep ==
  ASSUME TypeOK, CallInv, [Next]_vars
  PROVE  CallInv'
<1> USE DEF CallInv, IsCall
<1>1. ASSUME NEW s \in Sends, NEW m \in ClientMsgs, SendAccepted(s, m)
      PROVE CallInv'
  <2>1. /\ Admissible(m) /\ Accept(m, s) /\ GuardAllows(m) /\ Reserve(m)
        /\ armed' = armed
    BY <1>1 DEF SendAccepted
  <2>2. CASE m.kind = "tools/call"
    <3>1. \A r \in DOMAIN accepted : ~IsCall(r)
      BY <2>1, <2>2 DEF GuardAllows
    <3>2. reserved' /\ m.params \in armed'
      BY <2>1, <2>2 DEF GuardAllows, Reserve
    <3>3. QED
      BY <2>1, <3>1, <3>2, AcceptAdds
  <2>3. CASE m.kind # "tools/call"
    <3>1. reserved' = reserved
      BY <2>1, <2>3 DEF Reserve, TypeOK
    <3>2. QED
      BY <2>1, <2>3, <3>1, AcceptAdds
  <2>4. QED
    BY <2>2, <2>3
<1>2. ASSUME NEW m \in ServerMsgs, ServerMessageAccepted(m)
      PROVE CallInv'
  <2>1. /\ Admissible(m) /\ Accept(m, NoSend)
        /\ UNCHANGED <<reserved, armed>>
    BY <1>2 DEF ServerMessageAccepted
  <2>2. m.kind # "tools/call"
    BY TransportAssumption DEF Message, ServerKinds
  <2>3. QED
    BY <2>1, <2>2, AcceptAdds
<1>3. CASE RecordAppended \/ RecordFails
  BY <1>3 DEF RecordAppended, RecordFails, guardVars
<1>4. QED
  BY <1>1, <1>2, <1>3, StepKinds

(* inspectMessage() raises observedToolsListChanged, and nothing lowers it. *)
LEMMA CatalogStep ==
  ASSUME TypeOK, CatalogInv, [Next]_vars
  PROVE  CatalogInv'
<1> USE DEF CatalogInv, CatalogChangeAccepted
<1>1. ASSUME NEW m \in ClientMsgs \union ServerMsgs,
             NEW s \in Sends \union {NoSend}, Admissible(m), Accept(m, s)
      PROVE CatalogInv'
  <2>1. listChanged' = (listChanged \/ m.kind = "list_changed")
    BY <1>1 DEF Accept
  <2>2. QED
    BY <1>1, <2>1, AcceptAdds
<1>2. CASE RecordAppended \/ RecordFails
  BY <1>2 DEF RecordAppended, RecordFails, guardVars
<1>3. QED
  BY <1>1, <1>2, StepKinds DEF SendAccepted, ServerMessageAccepted

(* What a step does to the tools/calls on the wire: it keeps them, or it    *)
(* hands the record at the head of the queue off, with no catalog change.  *)
LEMMA WireCalls ==
  ASSUME IInv, [Next]_vars
  PROVE  \/ ToolCallsOnWire' = ToolCallsOnWire /\ reports' = reports
         \/ /\ ToolCallsOnWire = {}
            /\ \E i : ToolCallsOnWire' = {i}
            /\ reports' = reports + 1
            /\ ~listChanged
<1> USE DEF ToolCallsOnWire
<1>1. ASSUME NEW m \in ClientMsgs \union ServerMsgs,
             NEW s \in Sends \union {NoSend}, Admissible(m), Accept(m, s),
             UNCHANGED wire
      PROVE ToolCallsOnWire' = ToolCallsOnWire
  <2>1. \A i \in DOMAIN wire : accepted'[wire[i]] = accepted[wire[i]]
    BY <1>1, AcceptAdds DEF IInv, WireInv
  <2>2. QED
    BY <1>1, <2>1
<1>2. ASSUME NEW s \in Sends, NEW m \in ClientMsgs, SendAccepted(s, m)
      PROVE ToolCallsOnWire' = ToolCallsOnWire /\ reports' = reports
  BY <1>1, <1>2 DEF SendAccepted, wireVars
<1>3. ASSUME NEW m \in ServerMsgs, ServerMessageAccepted(m)
      PROVE ToolCallsOnWire' = ToolCallsOnWire /\ reports' = reports
  BY <1>1, <1>3 DEF ServerMessageAccepted, wireVars
<1>4. ASSUME RecordAppended, UNCHANGED wireVars
      PROVE ToolCallsOnWire' = ToolCallsOnWire /\ reports' = reports
  BY <1>4 DEF RecordAppended, wireVars
<1>5. ASSUME RecordAppended, HandOff(settled + 1),
             RecheckAllows(accepted[settled + 1].msg)
      PROVE \/ ToolCallsOnWire' = ToolCallsOnWire /\ reports' = reports
            \/ /\ ToolCallsOnWire = {}
               /\ \E i : ToolCallsOnWire' = {i}
               /\ reports' = reports + 1
               /\ ~listChanged
  <2>1. /\ wire' = Append(wire, settled + 1) /\ accepted' = accepted
        /\ settled + 1 \in DOMAIN accepted /\ settled \in Nat
    BY <1>5 DEF RecordAppended, HandOff, IInv, TypeOK
  <2>2. /\ DOMAIN wire' = DOMAIN wire \union {Len(wire) + 1}
        /\ Len(wire) + 1 \notin DOMAIN wire
        /\ wire'[Len(wire) + 1] = settled + 1
        /\ \A i \in DOMAIN wire : wire'[i] = wire[i]
    BY <2>1 DEF IInv, TypeOK
  <2>3. CASE ~IsCall(settled + 1)
    <3>1. ToolCallsOnWire' = ToolCallsOnWire
      BY <2>1, <2>2, <2>3 DEF IsCall
    <3>2. QED
      BY <1>5, <2>3, <3>1 DEF HandOff, IsCall
  <2>4. CASE IsCall(settled + 1)
    <3>1. ToolCallsOnWire = {}
      <4>1. ASSUME NEW i \in ToolCallsOnWire PROVE FALSE
        <5>1. wire[i] \in 1..settled /\ wire[i] \in DOMAIN accepted
          BY AcceptAdds DEF IInv, WireInv, TypeOK
        <5>2. IsCall(wire[i])
          BY DEF IsCall
        <5>3. wire[i] = settled + 1
          BY <2>1, <2>4, <5>1, <5>2 DEF IInv, CallInv
        <5>4. QED
          BY <2>1, <5>1, <5>3
      <4>2. QED
        BY <4>1
    <3>2. ToolCallsOnWire' = {Len(wire) + 1}
      BY <2>1, <2>2, <2>4, <3>1 DEF IsCall
    <3>3. reports' = reports + 1 /\ ~listChanged
      BY <1>5, <2>4 DEF HandOff, RecheckAllows, IsCall
    <3>4. QED
      BY <3>1, <3>2, <3>3
  <2>5. QED
    BY <2>3, <2>4
<1>6. ASSUME UNCHANGED <<accepted, wire, reports>>
      PROVE ToolCallsOnWire' = ToolCallsOnWire /\ reports' = reports
  BY <1>6
<1>7. QED
  BY <1>2, <1>3, <1>4, <1>5, <1>6, StepKinds
  DEF IInv, RecordAppended, RecordFails, ResumeSend, wireVars

(* A record that settles was pending.                                       *)
LEMMA PendingRecord ==
  ASSUME TypeOK, RecordAppended \/ RecordFails
  PROVE  ~QueueSettled
<1>1. ~queueRejected /\ settled < Len(accepted)
  BY DEF RecordAppended, RecordFails
<1>2. settled \in Nat /\ Len(accepted) \in Nat
  BY DEF TypeOK
<1>3. settled # Len(accepted)
  BY <1>1, <1>2
<1>4. QED
  BY <1>1, <1>3 DEF QueueSettled

(* While the gate is shut nothing new is accepted or handed off, and sends  *)
(* only settle.                                                            *)
LEMMA GateShut ==
  ASSUME TypeOK, closeRequested, [Next]_vars
  PROVE  /\ closeRequested' /\ UNCHANGED <<accepted, bytes, guardVars, wireVars>>
         /\ SendsSettled => SendsSettled'
         /\ QueueSettled => QueueSettled' /\ UNCHANGED <<settled, appended,
                                                         queueRejected>>
<1> USE DEF transcriptVars, wireVars, guardVars, failVars, innerVars,
            closeVars, SendsSettled, QueueSettled
<1>1. ASSUME NEW s \in Sends,
             SendWhenClosing(s) \/ Drained(s) \/ WireRejects(s)
      PROVE  /\ closeRequested' /\ UNCHANGED <<transcriptVars, guardVars, wireVars>>
             /\ SendsSettled => SendsSettled'
  BY <1>1 DEF SendWhenClosing, Drained, WireRejects, Abort, TypeOK
<1>2. CASE RecordAppended
  <2>1. UNCHANGED <<accepted, bytes, guardVars>> /\ ~QueueSettled
    BY <1>2, PendingRecord DEF RecordAppended
  <2>2. /\ closeRequested' /\ UNCHANGED wireVars
        /\ \/ sends' = [sends EXCEPT ![accepted[settled + 1].send] = "failed"]
           \/ sends' = sends
    BY <1>2 DEF RecordAppended, ResumeSend, Abort
  <2>3. SendsSettled => SendsSettled'
    BY <2>2 DEF TypeOK
  <2>4. QED
    BY <2>1, <2>2, <2>3
<1>3. CASE RecordFails
  <2>1. UNCHANGED <<accepted, bytes, guardVars, wireVars>> /\ ~QueueSettled
    BY <1>3, PendingRecord DEF RecordFails
  <2>2. closeRequested'
    BY <1>3 DEF RecordFails, Abort
  <2>3. SendsSettled => SendsSettled'
    BY <1>3 DEF RecordFails, TypeOK
  <2>4. QED
    BY <2>1, <2>2, <2>3
<1>4. ASSUME NEW m \in ServerMsgs, ServerMessageRefused(m) PROVE FALSE
  BY <1>4 DEF ServerMessageRefused
<1>5. CASE \/ InnerStarted \/ ServerMessageLate \/ InnerClosed \/ CloseCalled
           \/ CloseInner \/ CloseBarrier \/ CloseSends \/ CloseFlush
           \/ UNCHANGED vars
  <2>1. /\ UNCHANGED <<accepted, bytes, appended, settled, queueRejected>>
        /\ UNCHANGED <<guardVars, wireVars, sends>>
    BY <1>5 DEF InnerStarted, ServerMessageLate, InnerClosed, CloseCalled,
                CloseInner, CloseBarrier, CloseSends, CloseFlush, vars
  <2>2. closeRequested'
    BY <1>5 DEF InnerStarted, ServerMessageLate, InnerClosed, CloseCalled,
                CloseInner, CloseBarrier, CloseSends, CloseFlush, vars
  <2>3. QED
    BY <2>1, <2>2
<1>6. CASE InnerError
  BY <1>6 DEF InnerError, Abort
<1>7. QED
  BY <1>1, <1>2, <1>3, <1>4, <1>5, <1>6
  DEF Next, Arm, SendRefusedByGuard, SendRefusedByQueue, SendAccepted,
      ServerMessageAccepted

(* A closed transport does nothing any more.                               *)
LEMMA ClosedStutters ==
  ASSUME TypeOK, ClosedInv, closed, [Next]_vars
  PROVE  UNCHANGED <<transcriptVars, wireVars, guardVars, failVars, closeVars>>
<1>1. closing = "done" /\ closeRequested /\ QueueSettled
  BY DEF ClosedInv
<1>2. UNCHANGED <<transcriptVars, wireVars, guardVars>>
  BY <1>1, GateShut DEF transcriptVars
<1>3. UNCHANGED <<failVars, closeVars>>
  <2> USE <1>1 DEF failVars, closeVars, QueueSettled, Abort
  <2>1. ASSUME NEW s \in Sends,
               SendWhenClosing(s) \/ Drained(s) \/ WireRejects(s)
        PROVE UNCHANGED <<failVars, closeVars>>
    BY <2>1 DEF SendWhenClosing, Drained, WireRejects
  <2>2. ~RecordAppended /\ ~RecordFails
    BY <1>1, PendingRecord
  <2>3. QED
    BY <2>1, <2>2
    DEF Next, vars, Arm, SendRefusedByGuard, SendRefusedByQueue, SendAccepted,
        ServerMessageAccepted, ServerMessageRefused, InnerStarted,
        ServerMessageLate, InnerClosed, InnerError, CloseCalled, CloseInner,
        CloseBarrier, CloseSends, CloseFlush
<1>4. QED
  BY <1>2, <1>3

(* The steps of closeResources() establish what a settled close() means.   *)
LEMMA ClosedStep ==
  ASSUME TypeOK, ClosedInv, [Next]_vars
  PROVE  ClosedInv'
<1>1. CASE closed
  <2>1. /\ closing = "done" /\ closeRequested /\ QueueSettled
        /\ ~closeError => SendsSettled /\ ~queueRejected /\ ~failed
    BY <1>1 DEF ClosedInv
  <2>2. /\ closeRequested' /\ QueueSettled'
        /\ SendsSettled => SendsSettled'
    BY <2>1, GateShut
  <2>3. UNCHANGED <<queueRejected, failed, closing, closeError, closed>>
    BY <1>1, ClosedStutters DEF transcriptVars, failVars, closeVars
  <2>4. QED
    BY <1>1, <2>1, <2>2, <2>3 DEF ClosedInv
<1>2. CASE ~closed /\ UNCHANGED closeVars
  <2>1. closing # "none" => closeRequested'
    BY GateShut DEF ClosedInv
  <2>2. closing = "flush" /\ ~closeError => SendsSettled'
    BY GateShut DEF ClosedInv
  <2>3. QED
    BY <1>2, <2>1, <2>2 DEF ClosedInv, closeVars
<1>3. CASE CloseCalled
  BY <1>3 DEF CloseCalled, ClosedInv
<1>4. CASE CloseInner
  BY <1>4 DEF CloseInner, ClosedInv, failVars
<1>5. CASE CloseBarrier
  BY <1>5 DEF CloseBarrier, ClosedInv, failVars
<1>6. CASE CloseSends
  BY <1>6 DEF CloseSends, ClosedInv, SendsSettled, failVars
<1>7. CASE CloseFlush
  BY <1>7 DEF CloseFlush, ClosedInv, SendsSettled, QueueSettled, failVars,
              transcriptVars
<1>8. QED
  BY <1>1, <1>2, <1>3, <1>4, <1>5, <1>6, <1>7
  DEF Next, vars, Arm, SendWhenClosing, SendRefusedByGuard, SendRefusedByQueue,
      SendAccepted, RecordAppended, RecordFails, Drained, WireRejects,
      InnerStarted, ServerMessageAccepted, ServerMessageRefused,
      ServerMessageLate, InnerClosed, InnerError

-----------------------------------------------------------------------------
(* The inductive invariant holds of every behaviour of the transport.      *)
THEOREM Inductive == Spec => []IInv
<1>1. ASSUME Init PROVE IInv
  <2>1. TypeOK
    BY <1>1, TypeOKInit
  <2>2. PrefixAppended /\ WireInv /\ CallInv
    BY <1>1 DEF Init, PrefixAppended, WireInv, CallInv
  <2>3. ReportInv /\ CatalogInv /\ ClosedInv
    BY <1>1 DEF Init, ReportInv, ToolCallsOnWire, CatalogInv,
                CatalogChangeAccepted, ClosedInv, SendsSettled, QueueSettled
  <2>4. QED
    BY <2>1, <2>2, <2>3 DEF IInv
<1>2. ASSUME IInv, [Next]_vars PROVE IInv'
  <2>1. TypeOK'
    BY <1>2, TypeOKStep DEF IInv
  <2>2. PrefixAppended' /\ WireInv' /\ CallInv'
    BY <1>2, GapFreeStep, WireStep, CallStep DEF IInv
  <2>3. ReportInv'
    BY <1>2, WireCalls DEF IInv, ReportInv
  <2>4. CatalogInv' /\ ClosedInv'
    BY <1>2, CatalogStep, ClosedStep DEF IInv
  <2>5. QED
    BY <2>1, <2>2, <2>3, <2>4 DEF IInv
<1>3. QED
  BY <1>1, <1>2, PTL DEF Spec

(* The transcript file never has a gap and never exceeds its limits.       *)
THEOREM TranscriptNeverGaps == Spec => []TranscriptGapFree
<1>1. ASSUME IInv PROVE TranscriptGapFree
  BY <1>1 DEF IInv, TypeOK, TranscriptGapFree
<1>2. QED
  BY <1>1, Inductive, PTL

(* Nothing reaches the child process before its record is in the file.     *)
THEOREM WriteAheadHolds == Spec => []WriteAhead
<1>1. ASSUME IInv PROVE WriteAhead
  <2>1. settled \in Nat /\ Len(appended) \in Nat /\ DOMAIN appended = 1..Len(appended)
    BY <1>1 DEF IInv, TypeOK
  <2>2. /\ 1..settled \subseteq DOMAIN appended
        /\ \A r \in DOMAIN appended : appended[r] = r
    <3>1. Len(appended) = settled \/ Len(appended) = settled + 1
      BY <1>1 DEF IInv, PrefixAppended
    <3>2. appended = [i \in 1..Len(appended) |-> i]
      BY <1>1, Zenon DEF IInv, PrefixAppended
    <3>3. \A r \in 1..Len(appended) : appended[r] = r
      BY <3>2, Zenon
    <3>4. \A m, n \in Nat : n = m \/ n = m + 1 => 1..m \subseteq 1..n
      OBVIOUS
    <3>5. 1..settled \subseteq 1..Len(appended)
      BY <2>1, <3>1, <3>4
    <3>6. QED
      BY <2>1, <3>3, <3>5, Zenon
  <2>3. \A i \in DOMAIN wire : wire[i] \in 1..settled
    BY <1>1 DEF IInv, WireInv
  <2>4. \A i \in DOMAIN wire : 1..wire[i] \subseteq DOMAIN appended
    BY <2>1, <2>2, <2>3
  <2>5. QED
    BY <1>1, <2>2, <2>4 DEF IInv, WireInv, WriteAhead
<1>2. QED
  BY <1>1, Inductive, PTL

(* At most one tools/call reaches the child process, the armed one.        *)
THEOREM OneGuardedCall == Spec => []SingleGuardedCall
<1>1. ASSUME IInv PROVE SingleGuardedCall
  <2>1. \A i \in ToolCallsOnWire :
          wire[i] \in DOMAIN accepted /\ IsCall(wire[i])
    BY <1>1 DEF IInv, TypeOK, WireInv, ToolCallsOnWire, IsCall
  <2>2. \A i, j \in ToolCallsOnWire : wire[i] = wire[j]
    BY <1>1, <2>1 DEF IInv, CallInv
  <2>3. \A i, j \in ToolCallsOnWire : i = j
    <3>1. \A i \in DOMAIN wire : i \in Nat /\ wire[i] \in Nat
      BY <1>1 DEF IInv, TypeOK
    <3>2. \A i, j \in DOMAIN wire : i < j => wire[i] < wire[j]
      BY <1>1 DEF IInv, WireInv
    <3>3. \A i, j \in DOMAIN wire : wire[i] = wire[j] => i = j
      BY <3>1, <3>2
    <3>4. QED
      BY <2>2, <3>3 DEF ToolCallsOnWire
  <2>4. QED
    BY <1>1, <2>1, <2>3 DEF IInv, CallInv, ReportInv, IsCall, SingleGuardedCall
<1>2. QED
  BY <1>1, Inductive, PTL

(* No tools/call is dispatched after an accepted catalog change.           *)
THEOREM CatalogGuard == Spec => NoDispatchAfterCatalogChange
<1>1. IInv /\ [Next]_vars =>
        [ToolCallsOnWire' # ToolCallsOnWire => ~CatalogChangeAccepted]_vars
  BY WireCalls DEF IInv, CatalogInv
<1>2. QED
  BY <1>1, Inductive, PTL DEF Spec, NoDispatchAfterCatalogChange

(* Nothing changes the transcript state after close() settled.             *)
THEOREM ClosedForGood == Spec => ClosedIsFinal
<1>1. IInv /\ [Next]_vars =>
        [closed => UNCHANGED <<transcriptVars, wireVars, guardVars, failVars,
                               closeVars>>]_vars
  BY ClosedStutters DEF IInv
<1>2. QED
  BY <1>1, Inductive, PTL DEF Spec, ClosedIsFinal

(* A close() that resolves leaves a complete transcript.                   *)
THEOREM CleanCloseComplete == Spec => []CleanCloseIsComplete
<1>1. ASSUME IInv PROVE CleanCloseIsComplete
  <2>1. closed /\ ~closeError => Len(appended) = settled
    BY <1>1 DEF IInv, ClosedInv, PrefixAppended
  <2>2. QED
    BY <1>1, <2>1 DEF IInv, ClosedInv, QueueSettled, CleanCloseIsComplete
<1>2. QED
  BY <1>1, Inductive, PTL

-----------------------------------------------------------------------------
(***************************************************************************)
(* AgentSession: an unreported failure leaves the transcript whole.  A     *)
(* phase or a close that finds no failure once its flush is done therefore *)
(* knows of no gap before the flush, and lines are only ever added.        *)
(***************************************************************************)
LogEntry == [from : {"client", "server"}, size : MessageSizes]

(* The record queue: records run in order, only a failure leaves one out,  *)
(* and what was handed on had run before.                                  *)
QueueInv ==
  /\ log \in Seq(LogEntry)
  /\ tried \in Nat /\ terminal \in BOOLEAN
  /\ recorded \in Seq(Nat) /\ handed \in Seq(Nat)
  /\ \A i \in DOMAIN recorded : recorded[i] \in 1..tried
  /\ \A i, j \in DOMAIN recorded : i < j => recorded[i] < recorded[j]
  /\ \A i \in DOMAIN handed : \E j \in DOMAIN recorded : recorded[j] = handed[i]
  /\ ~terminal => Whole(tried)

PhaseKinds == {"none", "initialization", "tool", "cooldown"}

PhaseType ==
  [kind : PhaseKinds, task : {"none", "pending", "listed", "ok", "error"},
   since : Nat, flush : Nat]

(* What a phase says of the transcript rests on what had run by then.      *)
PhasesInv ==
  /\ phase \in PhaseType
  /\ phases \in Seq([kind : PhaseKinds, status : {"completed", "failed"},
                     extent : Int])
  /\ \A i \in DOMAIN phases :
       phases[i].status = "completed" => Whole(phases[i].extent)

(* So does what a close says, until the failure was given to a caller.     *)
CloseInv ==
  /\ flushed \in Nat
  /\ closeResult = "ok" => teardown = "done" /\ ~closeFailed
  /\ teardown # "none" => session \in {"closing", "closed"} /\ phase = NoPhase
  /\ teardown \in {"streams", "done"} /\ ~closeFailed /\ ~observed =>
       Whole(flushed)

SessionIInv == QueueInv /\ PhasesInv /\ CloseInv

-----------------------------------------------------------------------------
(* A failure stays.                                                        *)
LEMMA FailureStays ==
  ASSUME terminal \in BOOLEAN, UNCHANGED terminal \/ Fail
  PROVE  terminal' \in BOOLEAN /\ (terminal => terminal')
BY Zenon DEF Fail

(* Only the head of the record queue moves the transcript; nothing takes   *)
(* back a failure.                                                         *)
LEMMA SessionSteps ==
  ASSUME SessionIInv, [SessionNext]_sessionVars
  PROVE  /\ terminal' \in BOOLEAN /\ (terminal => terminal')
         /\ \/ RecordWritten \/ RecordLost
            \/ UNCHANGED <<tried, recorded, handed>>
         /\ \/ log' = log
            \/ \E entry \in LogEntry :
                 log' = Append(log, entry)
<1> USE DEF queueVars, linkVars, sessionVars
<1>1. terminal \in BOOLEAN
  BY DEF SessionIInv, QueueInv
<1>2. ASSUME NEW size \in MessageSizes, Send(size) \/ Receive(size)
      PROVE  /\ terminal' \in BOOLEAN /\ (terminal => terminal')
             /\ UNCHANGED <<tried, recorded, handed>>
             /\ \/ log' = log
                \/ \E entry \in LogEntry :
                     log' = Append(log, entry)
  BY <1>1, <1>2 DEF Send, Receive, Enqueue, Fail, LogEntry
<1>3. ASSUME NEW size \in MessageSizes, StderrChunk(size)
      PROVE  terminal' \in BOOLEAN /\ (terminal => terminal') /\ UNCHANGED queueVars
  <2>1. /\ UNCHANGED queueVars
        /\ UNCHANGED terminal \/ Fail
    BY <1>3 DEF StderrChunk
  <2> QED
    BY <1>1, <2>1, FailureStays
<1>4. ASSUME RecordWritten \/ RecordLost \/ TransportError \/ ChildEnds
      PROVE  terminal' \in BOOLEAN /\ (terminal => terminal') /\ log' = log
  <2>1. CASE RecordWritten
    <3>1. log' = log /\ (UNCHANGED terminal \/ Fail)
      BY <2>1 DEF RecordWritten
    <3> QED
      BY <1>1, <3>1, FailureStays
  <2>2. CASE RecordLost
    BY <2>2 DEF RecordLost, Fail
  <2>3. CASE TransportError
    BY <2>3 DEF TransportError, Fail
  <2>4. CASE ChildEnds
    BY <1>1, <2>4 DEF ChildEnds
  <2> QED
    BY <1>4, <2>1, <2>2, <2>3, <2>4
<1>5. ASSUME TransportError \/ ChildEnds
      PROVE  UNCHANGED queueVars
  BY <1>5 DEF TransportError, ChildEnds
<1>6. ASSUME Initialize \/ Refused \/ Cooldown \/ TaskEnds
      PROVE  terminal' \in BOOLEAN /\ (terminal => terminal') /\ UNCHANGED queueVars
  <2>1. CASE Initialize
    <3>1. UNCHANGED queueVars /\ (UNCHANGED terminal \/ Fail)
      BY <2>1 DEF Initialize
    <3> QED
      BY <1>1, <3>1, FailureStays
  <2>2. CASE Refused
    BY <1>1, <2>2 DEF Refused
  <2>3. CASE Cooldown
    BY <1>1, <2>3 DEF Cooldown
  <2>4. CASE TaskEnds
    BY <1>1, <2>4 DEF TaskEnds
  <2> QED
    BY <1>6, <2>1, <2>2, <2>3, <2>4
<1>7. ASSUME NEW name, NEW size, CallTool(name, size)
      PROVE  terminal' = terminal /\ UNCHANGED queueVars
  BY <1>7 DEF CallTool
<1>8. ASSUME NEW catalog, ListsTools(catalog)
      PROVE  terminal' = terminal /\ UNCHANGED queueVars
  BY <1>8 DEF ListsTools
<1>9. ASSUME Flush \/ FlushFails \/ PhaseCompletes \/ PhaseFails
      PROVE  terminal' = terminal /\ UNCHANGED queueVars
  BY <1>9 DEF Flush, FlushFails, PhaseCompletes, PhaseFails, PhaseEnds
<1>10. ASSUME Close \/ InnerCloses \/ CloseFlushes \/ CloseReturns \/ CloseTimesOut
       PROVE  terminal' = terminal /\ UNCHANGED queueVars
  BY <1>10 DEF Close, InnerCloses, CloseFlushes, CloseReturns, CloseTimesOut
<1> QED
  BY <1>1, <1>2, <1>3, <1>4, <1>5, <1>6, <1>7, <1>8, <1>9, <1>10 DEF SessionNext

InFile(file, extent) == \A n \in 1..extent : n \in ToSet(file)

(* The transcript only grows, so what is whole stays whole.                *)
LEMMA TranscriptGrows ==
  ASSUME SessionIInv, [SessionNext]_sessionVars
  PROVE  /\ recorded' = recorded \/ recorded' = Append(recorded, tried + 1)
         /\ \A extent : Whole(extent) => InFile(recorded', extent)
<1>1. recorded' = recorded \/ recorded' = Append(recorded, tried + 1)
  BY SessionSteps DEF RecordWritten, RecordLost
<1>2. ToSet(recorded) \subseteq ToSet(recorded')
  <2>1. recorded \in Seq(Nat) /\ tried \in Nat
    BY DEF SessionIInv, QueueInv
  <2>2. CASE recorded' = recorded
    BY <2>2
  <2>3. CASE recorded' = Append(recorded, tried + 1)
    <3>1. \A i \in DOMAIN recorded : i \in DOMAIN recorded' /\ recorded'[i] = recorded[i]
      BY <2>1, <2>3
    <3> QED
      BY <3>1 DEF ToSet
  <2> QED
    BY <1>1, <2>2, <2>3
<1> QED
  BY <1>1, <1>2 DEF Whole, InFile

LEMMA QueueStep ==
  ASSUME SessionIInv, [SessionNext]_sessionVars
  PROVE  QueueInv'
<1>1. QueueInv
  BY DEF SessionIInv
<1>2. terminal' \in BOOLEAN /\ (terminal => terminal')
  BY SessionSteps
<1>8. log' \in Seq(LogEntry)
  <2>1. log \in Seq(LogEntry)
    BY <1>1 DEF QueueInv
  <2>2. \/ log' = log
        \/ \E entry \in LogEntry :
             log' = Append(log, entry)
    BY SessionSteps
  <2> QED
    BY <2>1, <2>2
<1>3. CASE UNCHANGED <<tried, recorded, handed>>
  BY <1>1, <1>2, <1>8, <1>3 DEF QueueInv, Whole
<1>4. ASSUME tried' = tried + 1, recorded' = Append(recorded, tried + 1)
      PROVE  /\ recorded' \in Seq(Nat)
             /\ \A i \in DOMAIN recorded' : recorded'[i] \in 1..tried'
             /\ \A i, j \in DOMAIN recorded' : i < j => recorded'[i] < recorded'[j]
             /\ ToSet(recorded') = ToSet(recorded) \union {tried + 1}
             /\ ~terminal => Whole(tried)'
  <2>1. /\ recorded \in Seq(Nat) /\ tried \in Nat
        /\ \A i \in DOMAIN recorded : recorded[i] \in 1..tried
        /\ \A i, j \in DOMAIN recorded : i < j => recorded[i] < recorded[j]
    BY <1>1 DEF QueueInv
  <2>2. /\ recorded' \in Seq(Nat) /\ Len(recorded') = Len(recorded) + 1
        /\ \A i \in DOMAIN recorded : i \in DOMAIN recorded' /\ recorded'[i] = recorded[i]
        /\ recorded'[Len(recorded) + 1] = tried + 1
        /\ \A i \in DOMAIN recorded' : i \in DOMAIN recorded \/ i = Len(recorded) + 1
        /\ \A i \in DOMAIN recorded : i \in 1..Len(recorded)
    BY <1>4, <2>1
  <2>3. \A i \in DOMAIN recorded' : recorded'[i] \in 1..tried'
    BY <1>4, <2>1, <2>2
  <2>4. \A i, j \in DOMAIN recorded' : i < j => recorded'[i] < recorded'[j]
    <3> SUFFICES ASSUME NEW i \in DOMAIN recorded', NEW j \in DOMAIN recorded', i < j
                 PROVE  recorded'[i] < recorded'[j]
      OBVIOUS
    <3>1. i \in DOMAIN recorded
      BY <2>1, <2>2
    <3>2. recorded'[i] \in 1..tried /\ recorded'[i] = recorded[i]
      BY <2>1, <2>2, <3>1
    <3> QED
      BY <2>1, <2>2, <3>1, <3>2
  <2>5. ToSet(recorded') = ToSet(recorded) \union {tried + 1}
    <3>1. Len(recorded) + 1 \in DOMAIN recorded'
      BY <2>1, <2>2
    <3>2. ToSet(recorded') \subseteq ToSet(recorded) \union {tried + 1}
      BY <2>2 DEF ToSet
    <3>3. ToSet(recorded) \union {tried + 1} \subseteq ToSet(recorded')
      BY <2>2, <3>1 DEF ToSet
    <3> QED
      BY <3>2, <3>3
  <2>6. ~terminal => Whole(tried)'
    BY <1>1, <1>4, <2>1, <2>5 DEF QueueInv, Whole
  <2> QED
    BY <2>2, <2>3, <2>4, <2>5, <2>6
<1>5. ASSUME NEW n \in Nat, handed' = Append(handed, n), n \in ToSet(recorded')
      PROVE  /\ handed' \in Seq(Nat)
             /\ \A i \in DOMAIN handed' : handed'[i] \in ToSet(handed) \union {n}
  BY <1>1, <1>5 DEF QueueInv, ToSet
<1>6. CASE RecordWritten
  <2>1. /\ tried' = tried + 1 /\ recorded' = Append(recorded, tried + 1)
        /\ handed' = handed \/ handed' = Append(handed, tried + 1)
    BY <1>6 DEF RecordWritten
  <2>2. ToSet(handed) \subseteq ToSet(recorded)
    BY <1>1 DEF QueueInv, ToSet
  <2>3. /\ handed' \in Seq(Nat)
        /\ \A i \in DOMAIN handed' : handed'[i] \in ToSet(recorded')
    <3>1. CASE handed' = handed
      BY <1>1, <1>4, <2>1, <2>2, <3>1 DEF QueueInv, ToSet
    <3>2. CASE handed' = Append(handed, tried + 1)
      <4>1. tried + 1 \in Nat /\ tried + 1 \in ToSet(recorded')
        BY <1>1, <1>4, <2>1 DEF QueueInv
      <4> QED
        BY <1>4, <1>5, <2>1, <2>2, <3>2, <4>1
    <3> QED
      BY <2>1, <3>1, <3>2
  <2>4. \A i \in DOMAIN handed' : \E j \in DOMAIN recorded' : recorded'[j] = handed'[i]
    BY <2>3 DEF ToSet
  <2>5. tried' \in Nat
    BY <1>1, <2>1 DEF QueueInv
  <2> QED
    BY <1>2, <1>8, <1>4, <2>1, <2>3, <2>4, <2>5 DEF QueueInv
<1>7. CASE RecordLost
  <2>1. /\ tried' = tried + 1 /\ handed' = handed /\ terminal'
        /\ recorded' = recorded \/ recorded' = Append(recorded, tried + 1)
    BY <1>7 DEF RecordLost, Fail
  <2>2. CASE recorded' = recorded
    BY <1>1, <1>2, <1>8, <2>1, <2>2 DEF QueueInv
  <2>3. CASE recorded' = Append(recorded, tried + 1)
    <3>1. \A i \in DOMAIN handed : handed[i] \in ToSet(recorded')
      BY <1>1, <1>4, <2>1, <2>3 DEF QueueInv, ToSet
    <3>2. \A i \in DOMAIN handed' : \E j \in DOMAIN recorded' : recorded'[j] = handed'[i]
      BY <2>1, <3>1 DEF ToSet
    <3>3. tried' \in Nat /\ handed' \in Seq(Nat)
      BY <1>1, <2>1 DEF QueueInv
    <3> QED
      BY <1>2, <1>8, <1>4, <2>1, <2>3, <3>2, <3>3 DEF QueueInv
  <2> QED
    BY <2>1, <2>2, <2>3
<1> QED
  BY <1>3, <1>6, <1>7, SessionSteps

-----------------------------------------------------------------------------
(* A phase ends as completed only after a flush that found no failure:     *)
(* every message accepted before it has been tried, and none is missing.   *)
LEMMA CompletedIsWhole ==
  ASSUME SessionIInv, PhaseCompletes
  PROVE  Whole(phase.flush - 1)
<1>1. phase.flush \in Nat /\ tried \in Nat
  BY DEF SessionIInv, QueueInv, PhasesInv, PhaseType
<1>2. tried + 1 >= phase.flush
  BY DEF PhaseCompletes, FlushDone
<1>3. Whole(tried)
  BY DEF SessionIInv, QueueInv, PhaseCompletes
<1>4. 1..(phase.flush - 1) \subseteq 1..tried
  BY <1>1, <1>2
<1> QED
  BY <1>3, <1>4 DEF Whole

(* Where a phase moves, and where a new one starts.                        *)
LEMMA PhaseMoves ==
  ASSUME SessionIInv
  PROVE  /\ \A task \in {"pending", "listed", "ok", "error"} :
              [phase EXCEPT !.task = task] \in PhaseType
         /\ \A flush \in Nat : [phase EXCEPT !.flush = flush] \in PhaseType
         /\ [phase EXCEPT !.task = "error", !.flush = 0] \in PhaseType
         /\ NoPhase \in PhaseType
         /\ \A kind \in PhaseKinds :
              [kind |-> kind, task |-> "pending", since |-> Len(log), flush |-> 0]
                \in PhaseType
         /\ phase.task # "none" \/ phase.flush # 0 => teardown = "none"
         /\ session \in {"opening", "open"} => teardown = "none"
<1>1. phase \in PhaseType /\ Len(log) \in Nat
  BY DEF SessionIInv, QueueInv, PhasesInv
<1>2. teardown # "none" => session \in {"closing", "closed"} /\ phase = NoPhase
  BY DEF SessionIInv, CloseInv
<1>3. NoPhase.task = "none" /\ NoPhase.flush = 0
  BY DEF NoPhase
<1>4. /\ \A task \in {"pending", "listed", "ok", "error"} :
            [phase EXCEPT !.task = task] \in PhaseType
      /\ \A flush \in Nat : [phase EXCEPT !.flush = flush] \in PhaseType
      /\ [phase EXCEPT !.task = "error", !.flush = 0] \in PhaseType
  BY <1>1 DEF PhaseType
<1>5. /\ NoPhase \in PhaseType
      /\ \A kind \in PhaseKinds :
            [kind |-> kind, task |-> "pending", since |-> Len(log), flush |-> 0]
              \in PhaseType
  BY <1>1 DEF PhaseType, PhaseKinds, NoPhase
<1>6. phase.task # "none" \/ phase.flush # 0 => teardown = "none"
  BY <1>2, <1>3
<1>7. session \in {"opening", "open"} => teardown = "none"
  BY <1>2
<1> QED
  BY <1>4, <1>5, <1>6, <1>7

(* A phase runs, and its caller learns of a failure, only before close();  *)
(* phases are recorded by PhaseCompletes and PhaseFails alone.             *)
Closing == Close \/ InnerCloses \/ CloseFlushes \/ CloseReturns \/ CloseTimesOut

LEMMA PhaseSteps ==
  ASSUME SessionIInv, [SessionNext]_sessionVars
  PROVE  \/ UNCHANGED <<session, phase, phases, observed, teardownVars>>
         \/ /\ teardown = "none" /\ UNCHANGED teardownVars
            /\ phase' \in PhaseType
            /\ phases' = phases \/ PhaseCompletes \/ PhaseFails
         \/ Closing
<1> USE DEF phaseVars, sessionVars
<1>1. ASSUME NEW size \in MessageSizes, Send(size) \/ StderrChunk(size)
      PROVE  UNCHANGED <<session, phase, phases, observed, teardownVars>>
  BY <1>1 DEF Send, StderrChunk
<1>2. ASSUME NEW size \in MessageSizes, Receive(size)
      PROVE  /\ UNCHANGED <<session, phases, observed, teardownVars>>
             /\ \/ phase' = phase
                \/ teardown = "none" /\ phase' \in PhaseType
  <2>1. /\ UNCHANGED <<session, phases, observed, teardownVars>>
        /\ \/ phase' = phase
           \/ /\ phase.task = "pending"
              /\ phase' = [phase EXCEPT !.task = IF phase.kind = "tool"
                                                 THEN "ok" ELSE "listed"]
    BY <1>2 DEF Receive
  <2> QED
    BY <2>1, PhaseMoves
<1>3. ASSUME RecordWritten \/ RecordLost \/ TransportError
      PROVE  UNCHANGED <<session, phase, phases, observed, teardownVars>>
  BY <1>3 DEF RecordWritten, RecordLost, TransportError
<1>4. ASSUME ChildEnds
      PROVE  /\ UNCHANGED <<session, phases, observed, teardownVars>>
             /\ \/ phase' = phase
                \/ teardown = "none" /\ phase' \in PhaseType
  <2>1. /\ UNCHANGED <<session, phases, observed, teardownVars>>
        /\ \/ phase' = phase
           \/ phase.task = "pending" /\ phase' = [phase EXCEPT !.task = "error"]
    BY <1>4 DEF ChildEnds
  <2> QED
    BY <2>1, PhaseMoves
<1>5. ASSUME NEW kind \in PhaseKinds, StartPhase(kind)
      PROVE  phase' \in PhaseType /\ phases' = phases
  BY <1>5, PhaseMoves DEF StartPhase
<1>6. ASSUME Initialize \/ Cooldown
      PROVE  /\ teardown = "none" /\ UNCHANGED teardownVars
             /\ phase' \in PhaseType /\ phases' = phases
  <2>1. "initialization" \in PhaseKinds /\ "cooldown" \in PhaseKinds
    BY DEF PhaseKinds
  <2>2. /\ session \in {"opening", "open"} /\ UNCHANGED teardownVars
        /\ StartPhase("initialization") \/ StartPhase("cooldown")
    BY <1>6 DEF Initialize, Cooldown
  <2> QED
    BY <1>5, <2>1, <2>2, PhaseMoves
<1>7. ASSUME NEW name, NEW size, CallTool(name, size)
      PROVE  /\ teardown = "none" /\ UNCHANGED teardownVars
             /\ phase' \in PhaseType /\ phases' = phases
  <2>1. session = "open" /\ UNCHANGED teardownVars /\ StartPhase("tool")
    BY <1>7 DEF CallTool
  <2> QED
    BY <1>5, <2>1, PhaseMoves DEF PhaseKinds
<1>8. ASSUME Refused
      PROVE  /\ teardown = "none" /\ UNCHANGED teardownVars
             /\ phase' \in PhaseType /\ phases' = phases
  <2>1. /\ session = "open" /\ UNCHANGED teardownVars
        /\ phase' = phase /\ phases' = phases
    BY <1>8 DEF Refused
  <2> QED
    BY <2>1, PhaseMoves DEF SessionIInv, PhasesInv
<1>9. ASSUME TaskEnds
      PROVE  /\ teardown = "none" /\ UNCHANGED teardownVars
             /\ phase' \in PhaseType /\ phases' = phases
  <2>1. /\ phase.task \in {"pending", "listed"} /\ UNCHANGED teardownVars
        /\ phases' = phases
        /\ phase' = [phase EXCEPT !.task = IF phase.kind = "cooldown" THEN "ok"
                                           ELSE "error"]
    BY <1>9 DEF TaskEnds
  <2> QED
    BY <2>1, PhaseMoves
<1>10. ASSUME NEW catalog, ListsTools(catalog)
       PROVE  /\ teardown = "none" /\ UNCHANGED teardownVars
              /\ phase' \in PhaseType /\ phases' = phases
  <2>1. /\ phase.task = "listed" /\ UNCHANGED teardownVars /\ phases' = phases
        /\ phase' = [phase EXCEPT !.task =
                       IF Admitted(catalog) THEN "ok" ELSE "error"]
    BY <1>10 DEF ListsTools
  <2> QED
    BY <2>1, PhaseMoves
<1>11. ASSUME Flush
       PROVE  /\ teardown = "none" /\ UNCHANGED teardownVars
              /\ phase' \in PhaseType /\ phases' = phases
  <2>1. /\ phase.task \in {"ok", "error"} /\ UNCHANGED teardownVars
        /\ phases' = phases
        /\ phase' = [phase EXCEPT !.flush = Len(log) + 1]
    BY <1>11 DEF Flush
  <2>2. Len(log) + 1 \in Nat
    BY DEF SessionIInv, QueueInv
  <2> QED
    BY <2>1, <2>2, PhaseMoves
<1>12. ASSUME FlushFails
       PROVE  /\ teardown = "none" /\ UNCHANGED teardownVars
              /\ phase' \in PhaseType /\ phases' = phases
  <2>1. /\ phase.task = "ok" /\ UNCHANGED teardownVars /\ phases' = phases
        /\ phase' = [phase EXCEPT !.task = "error", !.flush = 0]
    BY <1>12 DEF FlushFails
  <2> QED
    BY <2>1, PhaseMoves
<1>13. ASSUME PhaseCompletes \/ PhaseFails
       PROVE  /\ teardown = "none" /\ UNCHANGED teardownVars
              /\ phase' \in PhaseType
  <2>1. /\ phase.task \in {"ok", "error"} /\ UNCHANGED teardownVars
        /\ phase' = NoPhase
    BY <1>13 DEF PhaseCompletes, PhaseFails, PhaseEnds
  <2> QED
    BY <2>1, PhaseMoves
<1> QED
  BY <1>1, <1>2, <1>3, <1>4, <1>6, <1>7, <1>8, <1>9, <1>10, <1>11, <1>12, <1>13
  DEF SessionNext, Closing

LEMMA PhasesStep ==
  ASSUME SessionIInv, [SessionNext]_sessionVars
  PROVE  PhasesInv'
<1>1. PhasesInv
  BY DEF SessionIInv
<1>2. \A extent : Whole(extent) => InFile(recorded', extent)
  BY TranscriptGrows
<1>3. ASSUME phase' \in PhaseType, phases' = phases
      PROVE  PhasesInv'
  <2>1. \A i \in DOMAIN phases :
          phases[i].status = "completed" => InFile(recorded', phases[i].extent)
    BY <1>1, <1>2 DEF PhasesInv
  <2> QED
    BY <1>1, <1>3, <2>1 DEF PhasesInv, Whole, InFile
<1>4. ASSUME NEW status \in {"completed", "failed"}, phase' \in PhaseType,
             PhaseEnds(status), status = "completed" => Whole(phase.flush - 1)
      PROVE  PhasesInv'
  <2> DEFINE record == [kind |-> phase.kind, status |-> status,
                        extent |-> phase.flush - 1]
  <2>1. /\ phases \in Seq([kind : PhaseKinds, status : {"completed", "failed"},
                           extent : Int])
        /\ record \in [kind : PhaseKinds, status : {"completed", "failed"},
                       extent : Int]
    BY <1>1 DEF PhasesInv, PhaseType
  <2>2. phases' = Append(phases, record)
    BY <1>4 DEF PhaseEnds
  <2>3. record.status = "completed" => InFile(recorded', record.extent)
    BY <1>2, <1>4
  <2> HIDE DEF record
  <2>4. /\ phases' \in Seq([kind : PhaseKinds, status : {"completed", "failed"},
                            extent : Int])
        /\ \A i \in DOMAIN phases' :
             \/ i \in DOMAIN phases /\ phases'[i] = phases[i]
             \/ phases'[i] = record
    BY <2>1, <2>2
  <2>5. \A i \in DOMAIN phases' :
          phases'[i].status = "completed" => InFile(recorded', phases'[i].extent)
    BY <1>1, <1>2, <2>3, <2>4 DEF PhasesInv
  <2> QED
    BY <1>4, <2>4, <2>5 DEF PhasesInv, Whole, InFile
<1>5. CASE PhaseCompletes
  BY <1>4, <1>5, PhaseMoves, CompletedIsWhole DEF PhaseCompletes, PhaseEnds
<1>6. CASE PhaseFails
  BY <1>4, <1>6, PhaseMoves DEF PhaseFails, PhaseEnds
<1>7. CASE Closing
  <2>1. phase' = phase /\ phases' = phases
    BY <1>7 DEF Closing, Close, InnerCloses, CloseFlushes, CloseReturns,
                CloseTimesOut, phaseVars
  <2> QED
    BY <1>1, <1>3, <2>1 DEF PhasesInv
<1>8. CASE UNCHANGED <<session, phase, phases, observed, teardownVars>>
  BY <1>1, <1>3, <1>8 DEF PhasesInv
<1> QED
  BY <1>3, <1>5, <1>6, <1>7, <1>8, PhaseSteps

(* What a close says holds of the file it left, until its caller knew.     *)
LEMMA CloseStep ==
  ASSUME SessionIInv, [SessionNext]_sessionVars
  PROVE  CloseInv'
<1>1. CloseInv
  BY DEF SessionIInv
<1>2. \A extent : Whole(extent) => InFile(recorded', extent)
  BY TranscriptGrows
<1>3. flushed \in Nat /\ Len(log) \in Nat /\ tried \in Nat
  BY <1>1 DEF SessionIInv, QueueInv, CloseInv
<1>4. CASE UNCHANGED <<session, phase, phases, observed, teardownVars>>
  BY <1>1, <1>2, <1>4 DEF CloseInv, teardownVars, Whole, InFile
<1>5. CASE teardown = "none" /\ UNCHANGED teardownVars
  BY <1>1, <1>5 DEF CloseInv, teardownVars
<1>6. CASE Close
  <2>1. /\ teardown = "none" /\ teardown' = "inner" /\ session' = "closing"
        /\ phase = NoPhase /\ phase' = phase
        /\ flushed' = flushed /\ closeResult' = closeResult
    BY <1>6 DEF Close
  <2>2. closeResult # "ok"
    BY <1>1, <2>1 DEF CloseInv
  <2> QED
    BY <1>3, <2>1, <2>2 DEF CloseInv, NoPhase
<1>7. CASE InnerCloses
  <2>1. /\ teardown = "inner"
        /\ \/ teardown' = "flush" /\ flushed' = Len(log)
           \/ teardown' = "streams" /\ closeFailed' = TRUE /\ flushed' = flushed
        /\ phase' = phase /\ session' = session /\ closeResult' = closeResult
    BY <1>7 DEF InnerCloses, phaseVars
  <2>2. closeResult # "ok" /\ session \in {"closing", "closed"} /\ phase = NoPhase
    BY <1>1, <2>1 DEF CloseInv
  <2> QED
    BY <1>3, <2>1, <2>2 DEF CloseInv, NoPhase
<1>8. CASE CloseFlushes
  <2>1. /\ teardown \in {"flush", "again"} /\ tried >= flushed
        /\ phase' = phase /\ session' = session /\ closeResult' = closeResult
        /\ observed' = observed
    BY <1>8 DEF CloseFlushes, phaseVars
  <2>2. closeResult # "ok" /\ session \in {"closing", "closed"} /\ phase = NoPhase
    BY <1>1, <2>1 DEF CloseInv
  <2>3. CASE terminal /\ teardown' = "streams" /\ closeFailed' = ~KnownFailure
             /\ flushed' = flushed
    <3>1. ~(~closeFailed' /\ ~observed')
      BY <2>1, <2>3 DEF KnownFailure
    <3> QED
      BY <1>3, <2>1, <2>2, <2>3, <3>1 DEF CloseInv, NoPhase
  <2>4. CASE teardown' = "again" /\ flushed' = Len(log)
    BY <1>3, <2>1, <2>2, <2>4 DEF CloseInv, NoPhase
  <2>5. CASE ~terminal /\ teardown' = "streams" /\ flushed' = flushed
    <3>1. Whole(tried)
      BY <2>5 DEF SessionIInv, QueueInv
    <3>2. 1..flushed \subseteq 1..tried
      BY <1>3, <2>1
    <3>3. InFile(recorded', flushed)
      BY <1>2, <3>1, <3>2 DEF Whole
    <3> QED
      BY <1>3, <2>1, <2>2, <2>5, <3>3 DEF CloseInv, NoPhase, Whole, InFile
  <2> QED
    BY <1>8, <2>3, <2>4, <2>5 DEF CloseFlushes
<1>9. CASE CloseReturns
  <2>1. /\ teardown = "streams" /\ teardown' = "done" /\ session' = "closed"
        /\ phase' = phase /\ observed' = observed /\ flushed' = flushed
        /\ closeResult' = "ok" => closeResult = "ok" \/ ~closeFailed'
    BY <1>9 DEF CloseReturns
  <2>2. closeResult # "ok" /\ phase = NoPhase
    BY <1>1, <2>1 DEF CloseInv
  <2>3. closeResult' = "ok" => ~closeFailed'
    BY <2>1, <2>2
  <2>4. ~closeFailed' => ~closeFailed
    BY <1>9 DEF CloseReturns
  <2>5. ~closeFailed' /\ ~observed' => InFile(recorded', flushed)
    BY <1>1, <1>2, <2>1, <2>4 DEF CloseInv
  <2> QED
    BY <1>3, <2>1, <2>2, <2>3, <2>5 DEF CloseInv, NoPhase, Whole, InFile
<1>10. CASE CloseTimesOut
  <2>1. /\ closeResult' = "failed" /\ session' = "closed"
        /\ UNCHANGED <<phase, observed, teardown, flushed, closeFailed>>
    BY <1>10 DEF CloseTimesOut
  <2>2. teardown \in {"streams", "done"} /\ ~closeFailed /\ ~observed =>
          InFile(recorded', flushed)
    BY <1>1, <1>2 DEF CloseInv
  <2> QED
    BY <1>1, <1>3, <2>1, <2>2 DEF CloseInv, NoPhase, Whole, InFile
<1> QED
  BY <1>4, <1>5, <1>6, <1>7, <1>8, <1>9, <1>10, PhaseSteps DEF Closing

LEMMA SessionInitially ==
  ASSUME SessionInit
  PROVE  SessionIInv
<1>1. QueueInv
  <2>1. \A n \in 1..0 : FALSE
    OBVIOUS
  <2>2. tried = 0 /\ log = <<>> /\ recorded = <<>> /\ handed = <<>>
    BY DEF SessionInit
  <2>3. terminal = FALSE
    BY DEF SessionInit
  <2>4. terminal \in BOOLEAN
    BY <2>3
  <2>5. Whole(tried)
    BY <2>1, <2>2 DEF Whole
  <2>6. /\ log \in Seq(LogEntry) /\ tried \in Nat
        /\ recorded \in Seq(Nat) /\ handed \in Seq(Nat)
        /\ DOMAIN recorded = {} /\ DOMAIN handed = {}
    BY <2>2
  <2> QED
    BY <2>4, <2>5, <2>6 DEF QueueInv
<1>2. PhasesInv
  BY DEF SessionInit, PhasesInv, PhaseType, PhaseKinds, NoPhase
<1>3. CloseInv
  BY DEF SessionInit, CloseInv
<1> QED
  BY <1>1, <1>2, <1>3 DEF SessionIInv

-----------------------------------------------------------------------------
(* The strengthened invariant of the session.                              *)
THEOREM SessionInvariant == SessionSpec => []SessionIInv
<1>1. SessionInit => SessionIInv
  BY SessionInitially
<1>2. SessionIInv /\ [SessionNext]_sessionVars => SessionIInv'
  BY QueueStep, PhasesStep, CloseStep DEF SessionIInv
<1> QED
  BY <1>1, <1>2, PTL DEF SessionSpec

(* For every limit and any messages, tools and phases: what mcp-session.ts *)
(* reports as recorded is in mcp-transcript.jsonl, in the order accepted.  *)
THEOREM TranscriptHolds == SessionSpec => []AgentTranscriptSound
<1>1. SessionIInv => AgentTranscriptSound
  <2> SUFFICES ASSUME SessionIInv PROVE AgentTranscriptSound
    OBVIOUS
  <2>1. QueueInv /\ PhasesInv /\ CloseInv
    BY DEF SessionIInv
  <2>2. ToSet(handed) \subseteq ToSet(recorded)
    BY <2>1 DEF QueueInv, ToSet
  <2>3. \A i, j \in DOMAIN recorded : i < j => recorded[i] < recorded[j]
    BY <2>1 DEF QueueInv
  <2>4. \A p \in ToSet(phases) : p.status = "completed" => Whole(p.extent)
    BY <2>1 DEF PhasesInv, ToSet
  <2>5. closeResult = "ok" /\ ~observed => Whole(flushed)
    BY <2>1 DEF CloseInv
  <2> QED
    BY <2>2, <2>3, <2>4, <2>5 DEF AgentTranscriptSound
<1> QED
  BY <1>1, SessionInvariant, PTL

-----------------------------------------------------------------------------
(* The claims of an interface.  The argument: what is behind the scan of a *)
(* tool is in the evidence or a truncation speaks of its place, and what   *)
(* is not behind it comes under an open loop over children.  A truncation  *)
(* covers what lies under its pointer, and, where the nodes were spent,    *)
(* the items that come after it; no truncation is ever taken back.  The    *)
(* operators below take the interface l, the tool k and the scan s, so     *)
(* that they hold of a state and of its successor alike.                   *)
AnalyzedOf(l) == IF Len(l) < MaxTools THEN Len(l) ELSE MaxTools

(* A truncation, and those that a scan may report.                         *)
Truncation(pointer, reason) == [pointer |-> pointer, reason |-> reason]
ToolLimit(l) == Truncation(<<AnalyzedOf(l) + 1>>, "tool_limit")
InATool(l, pointer) ==
  pointer \in Seq(Nat) /\ Len(pointer) > 1 /\ pointer[1] <= AnalyzedOf(l)
Reportable(l, t) ==
  /\ t = Truncation(t.pointer, t.reason)
  /\ \/ t.reason # "tool_limit" /\ InATool(l, t.pointer)
     \/ t = ToolLimit(l) /\ Len(l) > AnalyzedOf(l)

(* The truncations of a scan: stored once each, in the order they were     *)
(* reported, until there is no room; from then on they are counted.        *)
Stores(s, t) == \E n \in 1..Len(s.truncations) : s.truncations[n] = t
TruncationsInv(l, s) ==
  /\ s.truncations \in Seq(s.reported)
  /\ \A m, n \in 1..Len(s.truncations) :
       s.truncations[m] = s.truncations[n] => m = n
  /\ \A t \in s.reported : Reportable(l, t)
  /\ Len(l) > AnalyzedOf(l) => Stores(s, ToolLimit(l))
  /\ Len(s.truncations) <= MaxTruncations
  /\ s.omitted \in Nat
  /\ s.omitted > 0 => Len(s.truncations) = MaxTruncations
  /\ s.omitted = 0 => \A t \in s.reported : Stores(s, t)

(* What the truncations say of a place, and what is known of a text: each  *)
(* of its claims is in the evidence, or a truncation speaks of its place.  *)
Told(s, at) ==
  \/ s.omitted > 0
  \/ \E n \in 1..Len(s.truncations) : Covers(s.truncations[n], at)
Seen(claims, s, at, source, text) ==
  \A c \in DOMAIN text.claims : <<at, source>> \in claims[c] \/ Told(s, at)

(* Evidence of tool k within its budget.                                   *)
EvidenceSound(claims, k) ==
  /\ DOMAIN claims = Capabilities
  /\ \A c \in Capabilities :
       /\ IsFiniteSet(claims[c]) /\ Cardinality(claims[c]) <= MaxEvidence
       /\ \A e \in claims[c] : e[1][1] = k

ScanOf(n, c, e, t, r, o, an, ac) ==
  [nodes |-> n, characters |-> c, evidence |-> e, truncations |-> t,
   reported |-> r, omitted |-> o, allNodes |-> an, allCharacters |-> ac]

IsScanRecord(s) ==
  s = ScanOf(s.nodes, s.characters, s.evidence, s.truncations, s.reported,
             s.omitted, s.allNodes, s.allCharacters)

IsScan(l, k, s) ==
  /\ IsScanRecord(s)
  /\ s.nodes \in 0..MaxSchemaNodes
  /\ s.characters \in 0..MaxSchemaTextCharacters
  /\ EvidenceSound(s.evidence, k)
  /\ TruncationsInv(l, s)

(* A scan forgets nothing.                                                 *)
Grows(s, u) ==
  /\ Len(s.truncations) <= Len(u.truncations)
  /\ \A n \in 1..Len(s.truncations) : u.truncations[n] = s.truncations[n]
  /\ s.omitted > 0 => u.omitted > 0
Advances(l, k, s, u) ==
  /\ IsScan(l, k, u) /\ Grows(s, u)
  /\ \A c \in Capabilities : s.evidence[c] \subseteq u.evidence[c]
  /\ u.allNodes = s.allNodes /\ u.allCharacters = s.allCharacters
Moves(l, k, s, u) == Advances(l, k, s, u) /\ u.nodes = s.nodes

-----------------------------------------------------------------------------
(* Positions, item by item.                                                *)
Under(q, p) == Len(q) <= Len(p) /\ \A i \in 1..Len(q) : p[i] = q[i]
Below(q, i, p) == Len(q) < Len(p) /\ Under(q, p) /\ p[Len(q) + 1] >= i
Awaited(open, p) == \E n \in 1..Len(open) : Below(open[n][1], open[n][2], p)

(* The texts of a node, once it was visited.                               *)
ValueSeen(l, k, claims, s, p) ==
  LET tree == l[k].schema
  IN  tree[p].kind = "string" /\ ~UnderIgnoredKey(tree, p)
        => Seen(claims, s, <<k, 0>> \o p, "schema_value", tree[p].text)
KeySeen(l, k, claims, s, p) ==
  LET tree == l[k].schema
  IN  p # <<>> /\ tree[Front(p)].kind = "object" /\ ~tree[p].structural
        => Seen(claims, s, <<k, 0>> \o p, "schema_key", tree[p].key)
NodeSeen(l, k, claims, s, p) ==
  ValueSeen(l, k, claims, s, p) /\ KeySeen(l, k, claims, s, p)
FieldSeen(l, k, claims, s, f) ==
  Seen(claims, s, <<k, f>>, "field_value", l[k].fields[f])

(* A tool that was analysed.                                               *)
AssessmentSound(l, k, a, s) ==
  /\ EvidenceSound(a.claims, k)
  /\ \A x \in a.annotations \union a.issues : x[1] = k
  /\ a.annotations \intersect a.issues = {}
  /\ \A f \in DOMAIN l[k].fields : FieldSeen(l, k, a.claims, s, f)
  /\ \A p \in DOMAIN l[k].schema : NodeSeen(l, k, a.claims, s, p)

(* The tool under analysis: what was left behind is known, what comes      *)
(* under an open loop is not yet.                                          *)
ToolInv(l, k, f, open, s) ==
  /\ f \in 1..(Len(l[k].fields) + 2)
  /\ \A g \in DOMAIN l[k].fields : g < f => FieldSeen(l, k, s.evidence, s, g)
  /\ f # Len(l[k].fields) + 2 => open = <<>> /\ s.nodes = 0
  /\ f = Len(l[k].fields) + 2 =>
       \A p \in DOMAIN l[k].schema :
         NodeSeen(l, k, s.evidence, s, p) \/ Awaited(open, p)

BudgetsInv(k, s) ==
  /\ s.allNodes \in Nat /\ s.allNodes <= (k - 1) * MaxSchemaNodes
  /\ s.allCharacters \in Nat
  /\ s.allCharacters <= (k - 1) * MaxSchemaTextCharacters

Loops == Seq(Seq(Nat) \X (Nat \ {0}))

ClaimsInv ==
  /\ tools \in Interfaces
  /\ tool \in 1..(AnalyzedOf(tools) + 1)
  /\ loops \in Loops
  /\ IsScan(tools, tool, scan)
  /\ BudgetsInv(tool, scan)
  /\ \E S : assessments \in Seq(S)
  /\ Len(assessments) = tool - 1
  /\ \A k \in 1..(tool - 1) : AssessmentSound(tools, k, assessments[k], scan)
  /\ IF tool <= AnalyzedOf(tools) THEN ToolInv(tools, tool, field, loops, scan)
     ELSE field = 1 /\ loops = <<>>

-----------------------------------------------------------------------------
(* The tools that are analysed are among those listed.                     *)
LEMMA AnalyzedIs ==
  ASSUME NEW l \in Interfaces
  PROVE  /\ Len(l) \in Nat /\ AnalyzedOf(l) \in Nat
         /\ AnalyzedOf(l) <= Len(l) /\ DOMAIN l = 1..Len(l)
<1>1. l \in Seq(Range(l))
  BY InterfacesAssumption
<1>2. Len(l) \in Nat /\ DOMAIN l = 1..Len(l)
  BY <1>1, LenProperties
<1>3. MaxTools \in Nat
  BY ClaimLimitsAssumption
<1> QED
  BY <1>2, <1>3 DEF AnalyzedOf

(* What an interface lists: texts, and schemas that are trees.              *)
LEMMA InterfaceIs ==
  ASSUME NEW l \in Interfaces, NEW k \in 1..AnalyzedOf(l)
  PROVE  /\ k \in DOMAIN l
         /\ Len(l[k].fields) \in Nat
         /\ DOMAIN l[k].fields = 1..Len(l[k].fields)
         /\ \A f \in DOMAIN l[k].fields : IsText(l[k].fields[f])
         /\ IsSchema(l[k].schema)
<1>1. k \in DOMAIN l
  BY AnalyzedIs
<1>2. /\ l[k].fields \in Seq(Range(l[k].fields))
      /\ \A f \in DOMAIN l[k].fields : IsText(l[k].fields[f])
      /\ IsSchema(l[k].schema)
  BY <1>1, InterfacesAssumption
<1> QED
  BY <1>1, <1>2, LenProperties

(* A position of a schema, and what is above it.                            *)
LEMMA PositionIs ==
  ASSUME NEW tree, IsSchema(tree), NEW p \in DOMAIN tree
  PROVE  /\ p \in Seq(Nat) /\ Len(p) \in Nat
         /\ \A m \in 1..Len(p) : p[m] \in Nat /\ p[m] >= 1
<1>1. p \in Seq(Nat \ {0})
  BY DEF IsSchema
<1>2. p \in Seq(Nat)
  BY <1>1, SeqMonotonic
<1>3. Len(p) \in Nat /\ \A m \in 1..Len(p) : p[m] \in Nat \ {0}
  BY <1>1, ElementOfSeq, LenProperties
<1> QED
  BY <1>2, <1>3

(* The first items of a position.                                           *)
LEMMA FirstItems ==
  ASSUME NEW p \in Seq(Nat), NEW m \in 0..Len(p)
  PROVE  /\ SubSeq(p, 1, m) \in Seq(Nat) /\ Len(SubSeq(p, 1, m)) = m
         /\ \A i \in 1..m : SubSeq(p, 1, m)[i] = p[i]
<1>1. \A i \in 1..m : p[i] \in Nat
  BY LenProperties
<1> QED
  BY <1>1, SubSeqProperties

(* A position is above another when its items begin the other.             *)
LEMMA UnderIs ==
  ASSUME NEW p \in Seq(Nat), NEW q \in Seq(Nat), Under(q, p)
  PROVE  IsPrefix(q, p) /\ SubSeq(p, 1, Len(q)) = q
<1>1. Len(q) \in Nat /\ Len(p) \in Nat /\ Len(q) <= Len(p)
  BY LenProperties DEF Under
<1>2. Len(q) \in 0..Len(p)
  BY <1>1
<1>3. /\ SubSeq(p, 1, Len(q)) \in Seq(Nat) /\ Len(SubSeq(p, 1, Len(q))) = Len(q)
      /\ \A i \in 1..Len(q) : SubSeq(p, 1, Len(q))[i] = p[i]
  BY <1>2, FirstItems
<1>4. SubSeq(p, 1, Len(q)) = q
  BY <1>3, SeqEqual DEF Under
<1>5. SubSeq(q, 1, Len(q)) = q
  BY SubSeqFull
<1> QED
  BY <1>1, <1>4, <1>5 DEF IsPrefix

(* The node above another is a container of the tree.                      *)
LEMMA AboveIs ==
  ASSUME NEW tree, IsSchema(tree), NEW p \in DOMAIN tree, NEW q \in Seq(Nat),
         Under(q, p), Len(q) < Len(p)
  PROVE  /\ q \in DOMAIN tree /\ tree[q].kind \in {"array", "object"}
         /\ \A i \in 1..p[Len(q) + 1] : Append(q, i) \in DOMAIN tree
<1>1. p \in Seq(Nat) /\ Len(p) \in Nat
  BY PositionIs
<1>2. Len(q) \in Nat
  BY LenProperties
<1>3. Len(q) + 1 \in 1..Len(p) /\ Len(q) + 1 - 1 = Len(q)
  BY <1>1, <1>2
<1>4. SubSeq(p, 1, Len(q)) = q
  BY <1>1, UnderIs
<1>5. \A m \in 1..Len(p) :
        /\ SubSeq(p, 1, m - 1) \in DOMAIN tree
        /\ tree[SubSeq(p, 1, m - 1)].kind \in {"array", "object"}
        /\ \A i \in 1..p[m] : Append(SubSeq(p, 1, m - 1), i) \in DOMAIN tree
  BY DEF IsSchema
<1> DEFINE m == Len(q) + 1
<1>6. m \in 1..Len(p) /\ SubSeq(p, 1, m - 1) = q /\ p[m] = p[Len(q) + 1]
  BY <1>3, <1>4
<1> HIDE DEF m
<1>7. q \in DOMAIN tree /\ tree[q].kind \in {"array", "object"}
  BY <1>5, <1>6
<1>8. \A i \in 1..p[m] : Append(q, i) \in DOMAIN tree
  BY <1>5, <1>6
<1> QED
  BY <1>6, <1>7, <1>8

(* The pointer to a position of the schema of tool k.                      *)
LEMMA PointerIs ==
  ASSUME NEW k \in Nat, NEW p \in Seq(Nat)
  PROVE  /\ <<k, 0>> \o p \in Seq(Nat) /\ Len(<<k, 0>> \o p) = Len(p) + 2
         /\ (<<k, 0>> \o p)[1] = k /\ (<<k, 0>> \o p)[2] = 0
         /\ \A i \in 1..Len(p) : (<<k, 0>> \o p)[i + 2] = p[i]
<1> DEFINE h == <<k, 0>>
<1>1. h \in Seq(Nat) /\ Len(h) = 2 /\ h[1] = k /\ h[2] = 0
  OBVIOUS
<1> HIDE DEF h
<1>2. Len(p) \in Nat
  BY LenProperties
<1>3. /\ h \o p \in Seq(Nat) /\ Len(h \o p) = Len(h) + Len(p)
      /\ \A i \in 1..(Len(h) + Len(p)) :
           (h \o p)[i] = IF i <= Len(h) THEN h[i] ELSE p[i - Len(h)]
  BY <1>1, ConcatProperties
<1>4. h \o p \in Seq(Nat) /\ Len(h \o p) = Len(p) + 2
  BY <1>1, <1>2, <1>3
<1>5. (h \o p)[1] = k /\ (h \o p)[2] = 0
  BY <1>1, <1>2, <1>3
<1>6. ASSUME NEW i \in 1..Len(p)  PROVE (h \o p)[i + 2] = p[i]
  <2>1. i + 2 \in 1..(Len(h) + Len(p)) /\ ~(i + 2 <= Len(h)) /\ i + 2 - Len(h) = i
    BY <1>1, <1>2
  <2> QED
    BY <1>3, <2>1
<1> QED
  BY <1>4, <1>5, <1>6 DEF h

(* Pointers into one schema compare as their positions do.                 *)
LEMMA PointersUnder ==
  ASSUME NEW k \in Nat, NEW p \in Seq(Nat), NEW q \in Seq(Nat), Under(q, p)
  PROVE  Under(<<k, 0>> \o q, <<k, 0>> \o p)
<1> DEFINE a == <<k, 0>> \o q
           b == <<k, 0>> \o p
<1>1. /\ a \in Seq(Nat) /\ Len(a) = Len(q) + 2 /\ a[1] = k /\ a[2] = 0
      /\ \A i \in 1..Len(q) : a[i + 2] = q[i]
  BY PointerIs
<1>2. /\ b \in Seq(Nat) /\ Len(b) = Len(p) + 2 /\ b[1] = k /\ b[2] = 0
      /\ \A i \in 1..Len(p) : b[i + 2] = p[i]
  BY PointerIs
<1> HIDE DEF a, b
<1>3. Len(p) \in Nat /\ Len(q) \in Nat /\ Len(q) <= Len(p)
  BY LenProperties DEF Under
<1>4. ASSUME NEW i \in 1..Len(a)  PROVE b[i] = a[i]
  <2>1. CASE i \in {1, 2}
    BY <1>1, <1>2, <2>1
  <2>2. CASE i \notin {1, 2}
    <3> DEFINE j == i - 2
    <3>1. j \in 1..Len(q) /\ j \in 1..Len(p) /\ i = j + 2
      BY <1>1, <1>3, <2>2
    <3> HIDE DEF j
    <3>2. a[j + 2] = q[j] /\ b[j + 2] = p[j] /\ p[j] = q[j]
      BY <1>1, <1>2, <3>1 DEF Under
    <3> QED
      BY <3>1, <3>2
  <2> QED
    BY <2>1, <2>2
<1>5. Len(a) <= Len(b)
  BY <1>1, <1>2, <1>3
<1> QED
  BY <1>4, <1>5 DEF Under, a, b

(* A truncation covers what is under its pointer.                          *)
LEMMA CoversUnder ==
  ASSUME NEW k \in Nat, NEW p \in Seq(Nat), NEW q \in Seq(Nat), Under(q, p),
         NEW reason
  PROVE  Covers(Truncation(<<k, 0>> \o q, reason), <<k, 0>> \o p)
<1> DEFINE a == <<k, 0>> \o q
           b == <<k, 0>> \o p
<1>1. a \in Seq(Nat) /\ b \in Seq(Nat)
  BY PointerIs
<1>2. Under(a, b)
  BY PointersUnder
<1> HIDE DEF a, b
<1>3. IsPrefix(a, b)
  BY <1>1, <1>2, UnderIs
<1>4. Truncation(a, reason).pointer = a
  BY DEF Truncation
<1>5. Covers(Truncation(a, reason), b)
  BY <1>3, <1>4 DEF Covers
<1> QED
  BY <1>5 DEF a, b

(* A truncation covers its own place.                                      *)
LEMMA CoversItself ==
  ASSUME NEW at \in Seq(Nat), NEW reason
  PROVE  Covers(Truncation(at, reason), at)
<1>1. Len(at) \in Nat
  BY LenProperties
<1>2. IsPrefix(at, at)
  BY <1>1 DEF IsPrefix
<1>3. Truncation(at, reason).pointer = at
  BY DEF Truncation
<1> QED
  BY <1>2, <1>3 DEF Covers

(* The item at which a loop is left covers itself and what comes after it. *)
LEMMA CoversLater ==
  ASSUME NEW k \in Nat, NEW p \in Seq(Nat), NEW q \in Seq(Nat), NEW i \in Nat,
         Below(q, i, p)
  PROVE  Covers(Truncation(<<k, 0>> \o Append(q, i), "schema_node_limit"),
                <<k, 0>> \o p)
<1> DEFINE r == Append(q, i)
           a == <<k, 0>> \o r
           h == <<k, 0>> \o q
           b == <<k, 0>> \o p
<1>1. Len(q) \in Nat /\ Len(p) \in Nat
  BY LenProperties
<1>2. Len(q) < Len(p) /\ Under(q, p) /\ p[Len(q) + 1] >= i
  BY DEF Below
<1>3. /\ r \in Seq(Nat) /\ Len(r) = Len(q) + 1
      /\ \A j \in 1..Len(q) : r[j] = q[j]
      /\ r[Len(q) + 1] = i
  BY <1>1, AppendProperties
<1> HIDE DEF r
<1>4. /\ a \in Seq(Nat) /\ Len(a) = Len(r) + 2
      /\ \A j \in 1..Len(r) : a[j + 2] = r[j]
  BY <1>3, PointerIs
<1>5. /\ b \in Seq(Nat) /\ Len(b) = Len(p) + 2
      /\ \A j \in 1..Len(p) : b[j + 2] = p[j]
  BY PointerIs
<1>6. h \in Seq(Nat) /\ Len(h) = Len(q) + 2
  BY PointerIs
<1>7. Under(q, r)
  BY <1>1, <1>3 DEF Under
<1>8. Under(h, a)
  BY <1>3, <1>7, PointersUnder
<1>9. Under(h, b)
  BY <1>2, PointersUnder
<1> HIDE DEF a, b, h
<1>10. SubSeq(a, 1, Len(h)) = h
  BY <1>4, <1>6, <1>8, UnderIs
<1>11. Len(a) - 1 = Len(h)
  BY <1>1, <1>3, <1>4, <1>6
<1>12. Front(a) = h
  BY <1>10, <1>11 DEF Front
<1>13. IsPrefix(Front(a), b)
  BY <1>5, <1>6, <1>9, <1>12, UnderIs
<1>14. Len(b) >= Len(a)
  BY <1>1, <1>2, <1>3, <1>4, <1>5
<1>15. b[Len(a)] >= Last(a)
  <2>1. Len(q) + 1 \in 1..Len(r) /\ Len(q) + 1 \in 1..Len(p)
    BY <1>1, <1>2, <1>3
  <2>2. Len(a) = (Len(q) + 1) + 2
    BY <1>1, <1>3, <1>4
  <2>3. a[Len(a)] = r[Len(q) + 1]
    BY <1>4, <2>1, <2>2
  <2>4. b[Len(a)] = p[Len(q) + 1]
    BY <1>5, <2>1, <2>2
  <2> QED
    BY <1>2, <1>3, <2>3, <2>4 DEF Last
<1> DEFINE reason == "schema_node_limit"
           t == Truncation(a, reason)
<1>16. t.pointer = a /\ t.reason \in {"tool_limit", "schema_node_limit"}
  BY DEF Truncation
<1> HIDE DEF t
<1>17. Covers(t, b)
  BY <1>13, <1>14, <1>15, <1>16 DEF Covers
<1> QED
  BY <1>17 DEF t, a, b, r

-----------------------------------------------------------------------------
(* The record of a scan, with its fields named.                             *)
LEMMA ScanOfIs ==
  ASSUME NEW n, NEW c, NEW e, NEW t, NEW r, NEW o, NEW an, NEW ac,
         NEW s, s = ScanOf(n, c, e, t, r, o, an, ac)
  PROVE  /\ s.nodes = n /\ s.characters = c /\ s.evidence = e
         /\ s.truncations = t /\ s.reported = r /\ s.omitted = o
         /\ s.allNodes = an /\ s.allCharacters = ac
         /\ IsScanRecord(s)
<1>1. /\ s.nodes = n /\ s.characters = c /\ s.evidence = e
      /\ s.truncations = t /\ s.reported = r /\ s.omitted = o
      /\ s.allNodes = an /\ s.allCharacters = ac
  BY DEF ScanOf
<1> QED
  BY <1>1 DEF IsScanRecord

(* The updates of a scan.                                                   *)
LEMMA ScanUpdates ==
  ASSUME NEW s, IsScanRecord(s), NEW x
  PROVE  /\ [s EXCEPT !.nodes = x]
              = ScanOf(x, s.characters, s.evidence, s.truncations, s.reported,
                       s.omitted, s.allNodes, s.allCharacters)
         /\ [s EXCEPT !.characters = x]
              = ScanOf(s.nodes, x, s.evidence, s.truncations, s.reported,
                       s.omitted, s.allNodes, s.allCharacters)
         /\ [s EXCEPT !.evidence = x]
              = ScanOf(s.nodes, s.characters, x, s.truncations, s.reported,
                       s.omitted, s.allNodes, s.allCharacters)
<1> DEFINE n == s.nodes
           c == s.characters
           e == s.evidence
           t == s.truncations
           r == s.reported
           o == s.omitted
           an == s.allNodes
           ac == s.allCharacters
<1>1. s = ScanOf(n, c, e, t, r, o, an, ac)
  BY DEF IsScanRecord
<1> HIDE DEF n, c, e, t, r, o, an, ac
<1>2. [s EXCEPT !.nodes = x] = ScanOf(x, c, e, t, r, o, an, ac)
  BY <1>1 DEF ScanOf
<1>3. [s EXCEPT !.characters = x] = ScanOf(n, x, e, t, r, o, an, ac)
  BY <1>1 DEF ScanOf
<1>4. [s EXCEPT !.evidence = x] = ScanOf(n, c, x, t, r, o, an, ac)
  BY <1>1 DEF ScanOf
<1> QED
  BY <1>2, <1>3, <1>4 DEF n, c, e, t, r, o, an, ac

(* The updates of a scan that reports a truncation.                         *)
LEMMA ScanReports ==
  ASSUME NEW s, IsScanRecord(s), NEW x, NEW y, NEW u
  PROVE  /\ u = [s EXCEPT !.reported = x, !.omitted = y] =>
              u = ScanOf(s.nodes, s.characters, s.evidence, s.truncations, x, y,
                         s.allNodes, s.allCharacters)
         /\ u = [s EXCEPT !.reported = x, !.truncations = y] =>
              u = ScanOf(s.nodes, s.characters, s.evidence, y, x, s.omitted,
                         s.allNodes, s.allCharacters)
<1> DEFINE n == s.nodes
           c == s.characters
           e == s.evidence
           t == s.truncations
           r == s.reported
           o == s.omitted
           an == s.allNodes
           ac == s.allCharacters
<1>1. s = ScanOf(n, c, e, t, r, o, an, ac)
  BY DEF IsScanRecord
<1> HIDE DEF n, c, e, t, r, o, an, ac
<1> DEFINE d == [s EXCEPT !.reported = x]
<1>2. d = ScanOf(n, c, e, t, x, o, an, ac)
  BY <1>1 DEF ScanOf
<1>3. /\ [s EXCEPT !.reported = x, !.omitted = y] = [d EXCEPT !.omitted = y]
      /\ [s EXCEPT !.reported = x, !.truncations = y]
           = [d EXCEPT !.truncations = y]
  BY <1>1 DEF ScanOf
<1> HIDE DEF d
<1>4. [d EXCEPT !.omitted = y] = ScanOf(n, c, e, t, x, y, an, ac)
  BY <1>2 DEF ScanOf
<1>5. [d EXCEPT !.truncations = y] = ScanOf(n, c, e, y, x, o, an, ac)
  BY <1>2 DEF ScanOf
<1> QED
  BY <1>3, <1>4, <1>5 DEF n, c, e, t, r, o, an, ac

(* The record of a scan with one truncation more.                           *)
WithReport(s, x, y) == [s EXCEPT !.reported = x, !.truncations = y]

LEMMA WithReportIs ==
  ASSUME NEW s, IsScanRecord(s), NEW x, NEW y
  PROVE  WithReport(s, x, y)
           = ScanOf(s.nodes, s.characters, s.evidence, y, x, s.omitted,
                    s.allNodes, s.allCharacters)
  BY ScanReports DEF WithReport

(* A scan forgets nothing, and what follows what forgets nothing neither.  *)
LEMMA AdvancesOn ==
  ASSUME NEW l, NEW k, NEW s, NEW u, NEW v, IsScan(l, k, s),
         Advances(l, k, s, u), Advances(l, k, u, v)
  PROVE  Advances(l, k, s, v)
<1>1. /\ Len(s.truncations) \in Nat /\ Len(u.truncations) \in Nat
      /\ Len(v.truncations) \in Nat
  BY LenProperties DEF Advances, IsScan, TruncationsInv
<1>2. Grows(s, u) /\ Grows(u, v)
  BY DEF Advances
<1>3. Grows(s, v)
  BY <1>1, <1>2 DEF Grows
<1>4. \A c \in Capabilities : s.evidence[c] \subseteq v.evidence[c]
  BY DEF Advances
<1> QED
  BY <1>3, <1>4 DEF Advances

(* A scan is no shorter than itself.                                        *)
LEMMA MovesNot ==
  ASSUME NEW l, NEW k, NEW s, IsScan(l, k, s)
  PROVE  Moves(l, k, s, s)
<1>1. Len(s.truncations) \in Nat
  BY LenProperties DEF IsScan, TruncationsInv
<1>2. Grows(s, s)
  BY <1>1 DEF Grows
<1> QED
  BY <1>2 DEF Moves, Advances

(* What the truncations said they still say.                                *)
LEMMA ToldKept ==
  ASSUME NEW l, NEW k, NEW j, NEW s, NEW u, IsScan(l, k, s), IsScan(l, j, u),
         Grows(s, u), NEW at, Told(s, at)
  PROVE  Told(u, at)
<1>1. Len(s.truncations) \in Nat /\ Len(u.truncations) \in Nat
  BY LenProperties DEF IsScan, TruncationsInv
<1>2. CASE s.omitted > 0
  BY <1>2 DEF Grows, Told
<1>3. ASSUME NEW n \in 1..Len(s.truncations), Covers(s.truncations[n], at)
      PROVE  Told(u, at)
  <2>1. n \in 1..Len(u.truncations) /\ u.truncations[n] = s.truncations[n]
    BY <1>1 DEF Grows
  <2> QED
    BY <1>3, <2>1 DEF Told
<1> QED
  BY <1>2, <1>3 DEF Told

(* What is known of a text stays known: in the evidence of an assessment,  *)
LEMMA SeenKept ==
  ASSUME NEW l, NEW k, NEW j, NEW s, NEW u, IsScan(l, k, s), IsScan(l, j, u),
         Grows(s, u), NEW claims, NEW at, NEW source, NEW text,
         Seen(claims, s, at, source, text)
  PROVE  Seen(claims, u, at, source, text)
  BY ToldKept DEF Seen

(* and in that of the tool under analysis.                                  *)
LEMMA SeenGrows ==
  ASSUME NEW l, NEW k, NEW s, NEW u, IsScan(l, k, s), Advances(l, k, s, u),
         NEW at, NEW source, NEW text, IsText(text),
         Seen(s.evidence, s, at, source, text)
  PROVE  Seen(u.evidence, u, at, source, text)
<1>1. Seen(s.evidence, u, at, source, text)
  BY SeenKept DEF Advances
<1>2. \A c \in DOMAIN text.claims : c \in Capabilities
  BY DEF IsText
<1>3. \A c \in Capabilities : s.evidence[c] \subseteq u.evidence[c]
  BY DEF Advances
<1> QED
  BY <1>1, <1>2, <1>3 DEF Seen

(* A text whose place is covered is known.                                  *)
LEMMA ToldIsSeen ==
  ASSUME NEW claims, NEW s, NEW at, NEW source, NEW text, Told(s, at)
  PROVE  Seen(claims, s, at, source, text)
  BY DEF Seen

-----------------------------------------------------------------------------
(* The pointer of a truncation that a scan of tool k reports.               *)
PointsInto(l, k, pointer) ==
  /\ pointer \in Seq(Nat) /\ Len(pointer) > 1 /\ pointer[1] = k
  /\ k \in 1..AnalyzedOf(l)

(* addTruncation() says what it was asked to, or counts it; it says so     *)
(* once, and keeps all that was said before.                                *)
LEMMA Truncates ==
  ASSUME NEW l \in Interfaces, NEW k, NEW s, IsScan(l, k, s), NEW pointer,
         PointsInto(l, k, pointer), NEW reason, reason # "tool_limit"
  PROVE  LET u == Truncate(s, pointer, reason)
         IN  /\ Moves(l, k, s, u) /\ u.characters = s.characters
             /\ u.omitted > 0 \/ Stores(u, Truncation(pointer, reason))
<1> DEFINE t == Truncation(pointer, reason)
           u == Truncate(s, pointer, reason)
           r == s.reported \union {t}
           ts == Append(s.truncations, t)
           o == s.omitted + 1
           goal == /\ Moves(l, k, s, u) /\ u.characters = s.characters
                   /\ u.omitted > 0 \/ Stores(u, t)
<1> SUFFICES goal
  OBVIOUS
<1> HIDE DEF goal
<1>1. Reportable(l, t)
  <2>1. t.pointer = pointer /\ t.reason = reason
    BY DEF Truncation
  <2> HIDE DEF t
  <2>2. t = Truncation(t.pointer, t.reason)
    BY <2>1 DEF t
  <2>3. InATool(l, pointer)
    BY AnalyzedIs DEF PointsInto, InATool
  <2> QED
    BY <2>1, <2>2, <2>3 DEF Reportable
<1>2. TruncationsInv(l, s) /\ EvidenceSound(s.evidence, k)
  BY DEF IsScan
<1>3. /\ s.truncations \in Seq(s.reported) /\ Len(s.truncations) \in Nat
      /\ s.omitted \in Nat /\ MaxTruncations \in Nat \ {0}
      /\ Len(s.truncations) <= MaxTruncations
  BY <1>2, LenProperties, ClaimLimitsAssumption DEF TruncationsInv
<1>4. u = IF t \in s.reported THEN s
          ELSE IF Len(s.truncations) >= MaxTruncations
          THEN [s EXCEPT !.reported = r, !.omitted = o]
          ELSE [s EXCEPT !.reported = r, !.truncations = ts]
  BY DEF Truncate, Truncation
<1>5. IsScanRecord(s)
  BY DEF IsScan
<1> HIDE DEF t, u
<1>6. CASE t \in s.reported
  <2>1. u = s
    BY <1>4, <1>6
  <2>2. Moves(l, k, s, s)
    BY MovesNot
  <2>3. s.omitted > 0 \/ Stores(s, t)
    BY <1>2, <1>3, <1>6 DEF TruncationsInv
  <2> QED
    BY <2>1, <2>2, <2>3 DEF goal
<1>7. CASE t \notin s.reported /\ Len(s.truncations) >= MaxTruncations
  <2>1. u = [s EXCEPT !.reported = r, !.omitted = o]
    BY <1>4, <1>7
  <2> HIDE DEF r, o
  <2>4. u = ScanOf(s.nodes, s.characters, s.evidence, s.truncations, r, o,
                   s.allNodes, s.allCharacters)
    BY <1>5, <2>1, ScanReports
  <2>5. /\ u.nodes = s.nodes /\ u.characters = s.characters
        /\ u.evidence = s.evidence /\ u.truncations = s.truncations
        /\ u.reported = r /\ u.omitted = o /\ u.allNodes = s.allNodes
        /\ u.allCharacters = s.allCharacters
        /\ IsScanRecord(u)
    BY <2>4, ScanOfIs
  <2>6. o \in Nat /\ o > 0
    BY <1>3 DEF o
  <2>7. s.truncations \in Seq(r)
    BY <1>3, SeqMonotonic DEF r
  <2>8. \A x \in r : Reportable(l, x)
    BY <1>1, <1>2 DEF r, TruncationsInv
  <2>9. Len(s.truncations) = MaxTruncations
    BY <1>3, <1>7
  <2>10. TruncationsInv(l, u)
    <3>1. Len(l) > AnalyzedOf(l) => Stores(u, ToolLimit(l))
      BY <1>2, <2>5 DEF TruncationsInv, Stores
    <3> QED
      BY <1>2, <2>5, <2>6, <2>7, <2>8, <2>9, <3>1 DEF TruncationsInv
  <2>11. IsScan(l, k, u)
    BY <2>5, <2>10 DEF IsScan
  <2>12. Grows(s, u)
    BY <1>3, <2>5, <2>6 DEF Grows
  <2> QED
    BY <2>5, <2>6, <2>11, <2>12 DEF goal, Moves, Advances
<1>8. CASE t \notin s.reported /\ ~(Len(s.truncations) >= MaxTruncations)
  <2>1. u = [s EXCEPT !.reported = r, !.truncations = ts]
    BY <1>4, <1>8
  <2>2. /\ s.truncations \in Seq(r) /\ t \in r
        /\ \A x \in r : Reportable(l, x)
    BY <1>1, <1>2, <1>3, SeqMonotonic DEF TruncationsInv
  <2>3. /\ ts \in Seq(r) /\ Len(ts) = Len(s.truncations) + 1
        /\ \A n \in 1..Len(s.truncations) : ts[n] = s.truncations[n]
        /\ ts[Len(s.truncations) + 1] = t
    BY <2>2, AppendProperties
  <2>4. \A n \in 1..Len(s.truncations) : s.truncations[n] \in s.reported
    BY <1>3, ElementOfSeq
  <2> HIDE DEF ts
  <2>5. \A x \in r : x \in s.reported \/ x = t
    OBVIOUS
  <2> HIDE DEF r
  <2>8. u = ScanOf(s.nodes, s.characters, s.evidence, ts, r, s.omitted,
                   s.allNodes, s.allCharacters)
    BY <1>5, <2>1, ScanReports
  <2>9. /\ u.nodes = s.nodes /\ u.characters = s.characters
        /\ u.evidence = s.evidence /\ u.truncations = ts
        /\ u.reported = r /\ u.omitted = s.omitted /\ u.allNodes = s.allNodes
        /\ u.allCharacters = s.allCharacters
        /\ IsScanRecord(u)
    BY <2>8, ScanOfIs
  <2>10. s.omitted = 0
    BY <1>2, <1>3, <1>8 DEF TruncationsInv
  <2>11. Stores(u, t)
    <3>1. Len(ts) \in 1..Len(ts)
      BY <1>3, <2>3
    <3> QED
      BY <2>3, <2>9, <3>1 DEF Stores
  <2>12. \A x : Stores(s, x) => Stores(u, x)
    <3> SUFFICES ASSUME NEW x, NEW n \in 1..Len(s.truncations),
                        s.truncations[n] = x
                 PROVE  Stores(u, x)
      BY DEF Stores
    <3>1. n \in 1..Len(ts) /\ ts[n] = x
      BY <1>3, <2>3
    <3> QED
      BY <2>9, <3>1 DEF Stores
  <2>13. ASSUME NEW m \in 1..Len(ts), NEW n \in 1..Len(ts), ts[m] = ts[n]
         PROVE  m = n
    <3>1. CASE m <= Len(s.truncations) /\ n <= Len(s.truncations)
      <4>1. m \in 1..Len(s.truncations) /\ n \in 1..Len(s.truncations)
        BY <1>3, <2>3, <3>1
      <4>2. s.truncations[m] = s.truncations[n]
        BY <2>3, <2>13, <4>1
      <4> QED
        BY <1>2, <4>1, <4>2 DEF TruncationsInv
    <3>2. \A i \in 1..Len(s.truncations) : ts[i] # t
      BY <1>8, <2>3, <2>4
    <3>3. CASE ~(m <= Len(s.truncations))
      <4>1. m = Len(s.truncations) + 1
        BY <1>3, <2>3, <3>3
      <4>2. ~(n \in 1..Len(s.truncations))
        BY <2>3, <2>13, <3>2, <4>1
      <4> QED
        BY <1>3, <2>3, <4>1, <4>2
    <3>4. CASE ~(n <= Len(s.truncations))
      <4>1. n = Len(s.truncations) + 1
        BY <1>3, <2>3, <3>4
      <4>2. ~(m \in 1..Len(s.truncations))
        BY <2>3, <2>13, <3>2, <4>1
      <4> QED
        BY <1>3, <2>3, <4>1, <4>2
    <3> QED
      BY <3>1, <3>3, <3>4
  <2>14. Len(ts) <= MaxTruncations
    BY <1>3, <1>8, <2>3
  <2>15. \A x \in r : Stores(u, x)
    BY <1>2, <2>5, <2>10, <2>11, <2>12 DEF TruncationsInv
  <2>16. Len(l) > AnalyzedOf(l) => Stores(u, ToolLimit(l))
    BY <1>2, <2>12 DEF TruncationsInv
  <2>17. TruncationsInv(l, u)
    BY <2>2, <2>3, <2>9, <2>10, <2>13, <2>14, <2>15, <2>16 DEF TruncationsInv
  <2>18. IsScan(l, k, u)
    BY <2>9, <2>17 DEF IsScan
  <2>19. Grows(s, u)
    BY <1>3, <2>3, <2>9 DEF Grows
  <2> QED
    BY <2>9, <2>11, <2>18, <2>19 DEF goal, Moves, Advances
<1> QED
  BY <1>6, <1>7, <1>8


-----------------------------------------------------------------------------
(* addEvidence(): what the first characters of a text affirm is in the     *)
(* evidence, or there is no room for it and a truncation says so.          *)
LEMMA AddsEvidence ==
  ASSUME NEW l \in Interfaces, NEW k, NEW s, IsScan(l, k, s), NEW text,
         IsText(text), NEW allowed, NEW at, PointsInto(l, k, at), NEW source
  PROVE  LET u == AddEvidence(s, text, allowed, <<at, source>>)
         IN  /\ Moves(l, k, s, u) /\ u.characters = s.characters
             /\ \A c \in DOMAIN text.claims :
                  text.claims[c] <= allowed =>
                    <<at, source>> \in u.evidence[c] \/ Told(u, at)
<1> DEFINE place == <<at, source>>
           u == AddEvidence(s, text, allowed, place)
           seen == {c \in DOMAIN text.claims : text.claims[c] <= allowed}
           full == {c \in seen : Cardinality(s.evidence[c]) >= MaxEvidence}
           ev == [c \in Capabilities |->
                    IF c \in seen \ full THEN s.evidence[c] \union {place}
                    ELSE s.evidence[c]]
           added == [s EXCEPT !.evidence = ev]
           reason == "evidence_limit"
           goal == /\ Moves(l, k, s, u) /\ u.characters = s.characters
                   /\ \A c \in seen : place \in u.evidence[c] \/ Told(u, at)
<1>1. SUFFICES goal
  OBVIOUS
<1>2. place[1] = at
  OBVIOUS
<1>3. u = IF full = {} THEN added ELSE Truncate(added, at, reason)
  BY <1>2 DEF AddEvidence
<1>4. reason # "tool_limit"
  OBVIOUS
<1>5. seen \subseteq Capabilities
  BY DEF IsText
<1>6. full = {c \in seen : Cardinality(s.evidence[c]) >= MaxEvidence}
  OBVIOUS
<1>7. at[1] = k
  BY DEF PointsInto
<1> HIDE DEF place, u, goal, seen, full, reason
<1>8. /\ IsScanRecord(s) /\ EvidenceSound(s.evidence, k)
      /\ TruncationsInv(l, s)
  BY DEF IsScan
<1>9. /\ DOMAIN ev = Capabilities
      /\ \A c \in Capabilities :
           ev[c] = IF c \in seen \ full THEN s.evidence[c] \union {place}
                   ELSE s.evidence[c]
  OBVIOUS
<1> HIDE DEF ev
<1>10. EvidenceSound(ev, k)
  <2> SUFFICES ASSUME NEW c \in Capabilities
               PROVE  /\ IsFiniteSet(ev[c]) /\ Cardinality(ev[c]) <= MaxEvidence
                      /\ \A e \in ev[c] : e[1][1] = k
    BY <1>9 DEF EvidenceSound
  <2>1. /\ IsFiniteSet(s.evidence[c]) /\ Cardinality(s.evidence[c]) <= MaxEvidence
        /\ \A e \in s.evidence[c] : e[1][1] = k
    BY <1>8 DEF EvidenceSound
  <2>2. CASE c \in seen \ full
    <3> DEFINE before == s.evidence[c]
    <3>1. ev[c] = before \union {place}
      BY <1>9, <2>2
    <3>2. IsFiniteSet(before) /\ Cardinality(before) \in Nat
      BY <2>1, FS_CardinalityType
    <3>3. /\ IsFiniteSet(before \union {place})
          /\ Cardinality(before \union {place})
               = IF place \in before THEN Cardinality(before)
                 ELSE Cardinality(before) + 1
      BY <3>2, FS_AddElement
    <3>4. ~(Cardinality(before) >= MaxEvidence)
      BY <1>6, <2>2
    <3>5. MaxEvidence \in Nat
      BY ClaimLimitsAssumption
    <3>6. Cardinality(before \union {place}) <= MaxEvidence
      BY <3>2, <3>3, <3>4, <3>5
    <3> QED
      BY <1>2, <1>7, <2>1, <3>1, <3>3, <3>6
  <2>3. CASE c \notin seen \ full
    BY <1>9, <2>1, <2>3
  <2> QED
    BY <2>2, <2>3
<1>11. added = ScanOf(s.nodes, s.characters, ev, s.truncations, s.reported,
                      s.omitted, s.allNodes, s.allCharacters)
  BY <1>8, ScanUpdates
<1> HIDE DEF added
<1>12. /\ added.nodes = s.nodes /\ added.characters = s.characters
       /\ added.evidence = ev /\ added.truncations = s.truncations
       /\ added.reported = s.reported /\ added.omitted = s.omitted
       /\ added.allNodes = s.allNodes /\ added.allCharacters = s.allCharacters
       /\ IsScanRecord(added)
  BY <1>11, ScanOfIs
<1>13. TruncationsInv(l, added)
  BY <1>8, <1>12 DEF TruncationsInv, Stores
<1>14. IsScan(l, k, added)
  BY <1>10, <1>12, <1>13 DEF IsScan
<1>15. Grows(s, s)
  BY MovesNot DEF Moves, Advances
<1>16. Grows(s, added)
  BY <1>12, <1>15 DEF Grows
<1>17. \A c \in Capabilities : s.evidence[c] \subseteq added.evidence[c]
  BY <1>9, <1>12
<1>18. Moves(l, k, s, added)
  BY <1>12, <1>14, <1>16, <1>17 DEF Moves, Advances
<1>19. \A c \in seen \ full : place \in added.evidence[c]
  BY <1>5, <1>9, <1>12
<1>20. CASE full = {}
  <2>1. u = added
    BY <1>3, <1>20
  <2> QED
    BY <1>12, <1>18, <1>19, <1>20, <2>1 DEF goal
<1>21. CASE full # {}
  <2>1. u = Truncate(added, at, reason)
    BY <1>3, <1>21
  <2>2. /\ Moves(l, k, added, u) /\ u.characters = added.characters
        /\ u.omitted > 0 \/ Stores(u, Truncation(at, reason))
    BY <1>4, <1>14, <2>1, Truncates
  <2>3. Covers(Truncation(at, reason), at)
    BY CoversItself DEF PointsInto
  <2>4. Told(u, at)
    BY <2>2, <2>3 DEF Told, Stores
  <2>5. Advances(l, k, s, u) /\ u.nodes = s.nodes
    BY <1>12, <1>18, <2>2, AdvancesOn DEF Moves
  <2> QED
    BY <1>12, <2>2, <2>4, <2>5 DEF goal, Moves
<1> QED
  BY <1>20, <1>21

(* scanText() of a field: each of its claims is in the evidence or told.   *)
LEMMA ScansField ==
  ASSUME NEW l \in Interfaces, NEW k, NEW s, IsScan(l, k, s), NEW text,
         IsText(text), NEW at, PointsInto(l, k, at)
  PROVE  LET u == ScanField(s, text, at)
         IN  /\ Moves(l, k, s, u)
             /\ Seen(u.evidence, u, at, "field_value", text)
<1> DEFINE allowed == Least(text.length, MaxFieldCharacters)
           reason == "field_character_limit"
           source == "field_value"
           short == IF allowed < text.length THEN Truncate(s, at, reason) ELSE s
           u == AddEvidence(short, text, allowed, <<at, source>>)
<1>1. SUFFICES Moves(l, k, s, u) /\ Seen(u.evidence, u, at, source, text)
  BY DEF ScanField
<1>2. reason # "tool_limit"
  OBVIOUS
<1>3. text.length \in Nat /\ MaxFieldCharacters \in Nat
  BY ClaimLimitsAssumption DEF IsText
<1>4. allowed \in Nat /\ allowed <= text.length
  BY <1>3 DEF Least
<1> HIDE DEF allowed, reason, source
<1>5. /\ Moves(l, k, s, short)
      /\ allowed < text.length => Told(short, at)
  <2>1. CASE allowed < text.length
    <3>1. short = Truncate(s, at, reason)
      BY <2>1
    <3> HIDE DEF short
    <3>2. /\ Moves(l, k, s, short)
          /\ short.omitted > 0 \/ Stores(short, Truncation(at, reason))
      BY <1>2, <3>1, Truncates
    <3>3. Covers(Truncation(at, reason), at)
      BY CoversItself DEF PointsInto
    <3> QED
      BY <3>2, <3>3 DEF Told, Stores
  <2>2. CASE ~(allowed < text.length)
    <3>1. short = s
      BY <2>2
    <3> HIDE DEF short
    <3> QED
      BY <2>2, <3>1, MovesNot
  <2> QED
    BY <2>1, <2>2
<1> HIDE DEF short
<1>6. IsScan(l, k, short)
  BY <1>5 DEF Moves, Advances
<1>7. /\ Moves(l, k, short, u)
      /\ \A c \in DOMAIN text.claims :
           text.claims[c] <= allowed =>
             <<at, source>> \in u.evidence[c] \/ Told(u, at)
  BY <1>6, AddsEvidence
<1> HIDE DEF u
<1>8. Moves(l, k, s, u)
  BY <1>5, <1>7, AdvancesOn DEF Moves
<1>9. ASSUME NEW c \in DOMAIN text.claims
      PROVE  <<at, source>> \in u.evidence[c] \/ Told(u, at)
  <2>1. text.claims[c] \in Nat /\ text.claims[c] <= text.length
    BY <1>3 DEF IsText
  <2>2. CASE allowed < text.length
    <3>1. Told(short, at)
      BY <1>5, <2>2
    <3>2. IsScan(l, k, u) /\ Grows(short, u)
      BY <1>7 DEF Moves, Advances
    <3> QED
      BY <1>6, <3>1, <3>2, ToldKept
  <2>3. CASE ~(allowed < text.length)
    BY <1>3, <1>4, <1>7, <2>1, <2>3
  <2> QED
    BY <2>2, <2>3
<1> QED
  BY <1>8, <1>9 DEF Seen

(* scanText() of a text in the schema, within the characters of its tool.  *)
LEMMA ScansSchemaText ==
  ASSUME NEW l \in Interfaces, NEW k, NEW s, IsScan(l, k, s), NEW text,
         IsText(text), NEW at, PointsInto(l, k, at), NEW source
  PROVE  LET u == ScanSchemaText(s, text, at, source)
         IN  /\ Moves(l, k, s, u)
             /\ Seen(u.evidence, u, at, source, text)
<1> DEFINE left == MaxSchemaTextCharacters - s.characters
           bounded == Least(text.length, MaxFieldCharacters)
           allowed == Least(bounded, left)
           count == s.characters + allowed
           spent == [s EXCEPT !.characters = count]
           budget == "schema_text_character_limit"
           limit == "field_character_limit"
           short == CASE allowed = text.length -> spent
                    [] allowed < bounded -> Truncate(spent, at, budget)
                    [] OTHER -> Truncate(spent, at, limit)
           u == AddEvidence(short, text, allowed, <<at, source>>)
<1>1. SUFFICES Moves(l, k, s, u) /\ Seen(u.evidence, u, at, source, text)
  BY DEF ScanSchemaText
<1>2. budget # "tool_limit" /\ limit # "tool_limit"
  OBVIOUS
<1>3. text.length \in Nat /\ MaxFieldCharacters \in Nat
      /\ MaxSchemaTextCharacters \in Nat /\ s.characters \in Nat
      /\ s.characters <= MaxSchemaTextCharacters
  BY ClaimLimitsAssumption DEF IsText, IsScan
<1>4. left \in Nat /\ bounded \in Nat /\ bounded <= text.length
  BY <1>3 DEF Least
<1>5. /\ allowed \in Nat /\ allowed <= text.length
      /\ count \in 0..MaxSchemaTextCharacters
  BY <1>3 DEF Least
<1> HIDE DEF left, bounded, allowed, count, budget, limit
<1>6. IsScanRecord(s) /\ EvidenceSound(s.evidence, k) /\ TruncationsInv(l, s)
  BY DEF IsScan
<1>7. spent = ScanOf(s.nodes, count, s.evidence, s.truncations, s.reported,
                     s.omitted, s.allNodes, s.allCharacters)
  BY <1>6, ScanUpdates
<1> HIDE DEF spent
<1>8. /\ spent.nodes = s.nodes /\ spent.characters = count
      /\ spent.evidence = s.evidence /\ spent.truncations = s.truncations
      /\ spent.reported = s.reported /\ spent.omitted = s.omitted
      /\ spent.allNodes = s.allNodes /\ spent.allCharacters = s.allCharacters
      /\ IsScanRecord(spent)
  BY <1>7, ScanOfIs
<1>9. TruncationsInv(l, spent)
  BY <1>6, <1>8 DEF TruncationsInv, Stores
<1>10. IsScan(l, k, spent)
  BY <1>5, <1>6, <1>8, <1>9 DEF IsScan
<1>11. Grows(s, s)
  BY MovesNot DEF Moves, Advances
<1>12. Grows(s, spent)
  BY <1>8, <1>11 DEF Grows
<1>13. Moves(l, k, s, spent)
  BY <1>8, <1>10, <1>12 DEF Moves, Advances
<1>14. /\ Moves(l, k, spent, short)
       /\ allowed # text.length => Told(short, at)
  <2>1. ASSUME NEW reason \in {budget, limit}, short = Truncate(spent, at, reason)
        PROVE  Moves(l, k, spent, short) /\ Told(short, at)
    <3> HIDE DEF short
    <3>1. /\ Moves(l, k, spent, short)
          /\ short.omitted > 0 \/ Stores(short, Truncation(at, reason))
      BY <1>2, <1>10, <2>1, Truncates
    <3>2. Covers(Truncation(at, reason), at)
      BY CoversItself DEF PointsInto
    <3> QED
      BY <3>1, <3>2 DEF Told, Stores
  <2>2. CASE allowed = text.length
    <3>1. ~(allowed < bounded)
      BY <1>3, <1>4, <2>2
    <3>2. short = spent
      BY <2>2, <3>1
    <3> HIDE DEF short
    <3> QED
      BY <1>10, <2>2, <3>2, MovesNot
  <2>3. CASE allowed # text.length /\ allowed < bounded
    <3>1. short = Truncate(spent, at, budget)
      BY <2>3
    <3> HIDE DEF short
    <3> QED
      BY <2>1, <3>1
  <2>4. CASE allowed # text.length /\ ~(allowed < bounded)
    <3>1. short = Truncate(spent, at, limit)
      BY <2>4
    <3> HIDE DEF short
    <3> QED
      BY <2>1, <3>1
  <2> QED
    BY <2>2, <2>3, <2>4
<1> HIDE DEF short
<1>15. IsScan(l, k, short)
  BY <1>14 DEF Moves, Advances
<1>16. /\ Moves(l, k, short, u)
       /\ \A c \in DOMAIN text.claims :
            text.claims[c] <= allowed =>
              <<at, source>> \in u.evidence[c] \/ Told(u, at)
  BY <1>15, AddsEvidence
<1> HIDE DEF u
<1>17. Moves(l, k, spent, u)
  BY <1>10, <1>14, <1>16, AdvancesOn DEF Moves
<1>18. Moves(l, k, s, u)
  BY <1>13, <1>17, AdvancesOn DEF Moves
<1>19. ASSUME NEW c \in DOMAIN text.claims
       PROVE  <<at, source>> \in u.evidence[c] \/ Told(u, at)
  <2>1. text.claims[c] \in Nat /\ text.claims[c] <= text.length
    BY <1>3 DEF IsText
  <2>2. CASE allowed # text.length
    <3>1. Told(short, at)
      BY <1>14, <2>2
    <3>2. IsScan(l, k, u) /\ Grows(short, u)
      BY <1>16 DEF Moves, Advances
    <3> QED
      BY <1>15, <3>1, <3>2, ToldKept
  <2>3. CASE allowed = text.length
    BY <1>16, <2>1, <2>3
  <2> QED
    BY <2>2, <2>3
<1> QED
  BY <1>18, <1>19 DEF Seen

(* A node is counted.                                                       *)
LEMMA CountsNode ==
  ASSUME NEW l, NEW k, NEW s, IsScan(l, k, s), s.nodes < MaxSchemaNodes
  PROVE  Advances(l, k, s, [s EXCEPT !.nodes = @ + 1])
<1> DEFINE n == s.nodes + 1
           u == [s EXCEPT !.nodes = n]
<1>1. IsScanRecord(s) /\ EvidenceSound(s.evidence, k) /\ TruncationsInv(l, s)
  BY DEF IsScan
<1>2. n \in 0..MaxSchemaNodes
  BY ClaimLimitsAssumption DEF IsScan
<1> HIDE DEF n
<1>3. u = ScanOf(n, s.characters, s.evidence, s.truncations, s.reported,
                 s.omitted, s.allNodes, s.allCharacters)
  BY <1>1, ScanUpdates
<1> HIDE DEF u
<1>4. /\ u.nodes = n /\ u.characters = s.characters
      /\ u.evidence = s.evidence /\ u.truncations = s.truncations
      /\ u.reported = s.reported /\ u.omitted = s.omitted
      /\ u.allNodes = s.allNodes /\ u.allCharacters = s.allCharacters
      /\ IsScanRecord(u)
  BY <1>3, ScanOfIs
<1>5. TruncationsInv(l, u)
  BY <1>1, <1>4 DEF TruncationsInv, Stores
<1>6. IsScan(l, k, u)
  BY <1>1, <1>2, <1>4, <1>5 DEF IsScan
<1>7. Grows(s, s)
  BY MovesNot DEF Moves, Advances
<1>8. Grows(s, u)
  BY <1>4, <1>7 DEF Grows
<1>9. Advances(l, k, s, u)
  BY <1>4, <1>6, <1>8 DEF Advances
<1> QED
  BY <1>9 DEF u, n


-----------------------------------------------------------------------------
(* A pointer into the schema of the tool under analysis.                    *)
LEMMA PointsIntoSchema ==
  ASSUME NEW l \in Interfaces, NEW k \in 1..AnalyzedOf(l), NEW q \in Seq(Nat)
  PROVE  PointsInto(l, k, <<k, 0>> \o q)
<1>1. k \in Nat
  BY AnalyzedIs
<1>2. /\ <<k, 0>> \o q \in Seq(Nat) /\ Len(<<k, 0>> \o q) = Len(q) + 2
      /\ (<<k, 0>> \o q)[1] = k
  BY <1>1, PointerIs
<1>3. Len(q) \in Nat
  BY LenProperties
<1> QED
  BY <1>2, <1>3 DEF PointsInto

(* A position below another is longer.                                      *)
LEMMA UnderProper ==
  ASSUME NEW p \in Seq(Nat), NEW q \in Seq(Nat), Under(q, p), p # q
  PROVE  Len(q) < Len(p)
<1>1. Len(p) \in Nat /\ Len(q) \in Nat /\ Len(q) <= Len(p)
  BY LenProperties DEF Under
<1>2. ASSUME Len(q) = Len(p)  PROVE FALSE
  BY <1>2, SeqEqual DEF Under
<1> QED
  BY <1>1, <1>2

(* What comes at or after an item of a loop is under it or comes later.    *)
LEMMA BelowSplit ==
  ASSUME NEW p \in Seq(Nat), NEW q \in Seq(Nat), NEW i \in Nat, Below(q, i, p)
  PROVE  Under(Append(q, i), p) \/ Below(q, i + 1, p)
<1>1. /\ Len(q) \in Nat /\ Len(p) \in Nat /\ Len(q) < Len(p)
      /\ Under(q, p) /\ p[Len(q) + 1] >= i
  BY LenProperties DEF Below
<1>2. p[Len(q) + 1] \in Nat
  BY <1>1, ElementOfSeq
<1>3. CASE p[Len(q) + 1] = i
  <2> DEFINE r == Append(q, i)
  <2>1. /\ r \in Seq(Nat) /\ Len(r) = Len(q) + 1
        /\ \A j \in 1..Len(q) : r[j] = q[j]
        /\ r[Len(q) + 1] = i
    BY AppendProperties
  <2> HIDE DEF r
  <2>2. ASSUME NEW j \in 1..Len(r)  PROVE p[j] = r[j]
    <3>1. CASE j \in 1..Len(q)
      BY <1>1, <2>1, <3>1 DEF Under
    <3>2. CASE j \notin 1..Len(q)
      <4>1. j = Len(q) + 1
        BY <1>1, <2>1, <3>2
      <4> QED
        BY <1>3, <2>1, <4>1
    <3> QED
      BY <3>1, <3>2
  <2>3. Len(r) <= Len(p)
    BY <1>1, <2>1
  <2>4. Under(r, p)
    BY <2>2, <2>3 DEF Under
  <2> QED
    BY <2>4 DEF r
<1>4. CASE p[Len(q) + 1] # i
  <2>1. p[Len(q) + 1] >= i + 1
    BY <1>1, <1>2, <1>4
  <2> QED
    BY <1>1, <2>1 DEF Below
<1> QED
  BY <1>3, <1>4

(* A loop that is opened.                                                   *)
LEMMA OpensLoop ==
  ASSUME NEW open \in Loops, NEW q \in Seq(Nat), NEW i \in Nat \ {0}
  PROVE  /\ Append(open, <<q, i>>) \in Loops
         /\ Append(open, <<q, i>>) # <<>>
         /\ \A p : Awaited(open, p) => Awaited(Append(open, <<q, i>>), p)
         /\ \A p : Below(q, i, p) => Awaited(Append(open, <<q, i>>), p)
<1> DEFINE e == <<q, i>>
           L == Seq(Nat) \X (Nat \ {0})
           new == Append(open, e)
<1>1. e \in L /\ e[1] = q /\ e[2] = i
  OBVIOUS
<1> HIDE DEF e, L
<1>2. open \in Seq(L) /\ Len(open) \in Nat
  BY LenProperties DEF Loops, L
<1>3. /\ new \in Seq(L) /\ new # <<>> /\ Len(new) = Len(open) + 1
      /\ \A n \in 1..Len(open) : new[n] = open[n]
      /\ new[Len(open) + 1] = e
  BY <1>1, <1>2, AppendProperties
<1> HIDE DEF new
<1>4. ASSUME NEW p, Awaited(open, p)  PROVE Awaited(new, p)
  <2>1. PICK n \in 1..Len(open) : Below(open[n][1], open[n][2], p)
    BY <1>4 DEF Awaited
  <2>2. n \in 1..Len(new) /\ new[n] = open[n]
    BY <1>2, <1>3
  <2> QED
    BY <2>1, <2>2 DEF Awaited
<1>5. ASSUME NEW p, Below(q, i, p)  PROVE Awaited(new, p)
  <2>1. Len(open) + 1 \in 1..Len(new)
    BY <1>2, <1>3
  <2> QED
    BY <1>1, <1>3, <1>5, <2>1 DEF Awaited
<1> QED
  BY <1>3, <1>4, <1>5 DEF new, e, Loops, L

(* The last loop and those before it.                                       *)
LEMMA LastLoop ==
  ASSUME loops \in Loops, NEW q, NEW i, InLoop(q, i)
  PROVE  /\ q \in Seq(Nat) /\ i \in Nat \ {0} /\ Front(loops) \in Loops
         /\ \A p : Awaited(loops, p) => Awaited(Front(loops), p) \/ Below(q, i, p)
<1> DEFINE n == Len(loops)
           front == Front(loops)
           e == <<q, i>>
           L == Seq(Nat) \X (Nat \ {0})
<1>1. e[1] = q /\ e[2] = i
  OBVIOUS
<1>2. \A x \in L : x[1] \in Seq(Nat) /\ x[2] \in Nat \ {0}
  OBVIOUS
<1>3. loops # <<>> /\ loops[n] = e
  BY DEF InLoop, Last
<1> HIDE DEF e, L
<1>4. loops \in Seq(L)
  BY DEF Loops, L
<1>5. n \in Nat \ {0}
  BY <1>3, <1>4, EmptySeq
<1>6. n \in 1..n
  BY <1>5
<1>7. e \in L
  BY <1>3, <1>4, <1>6, ElementOfSeq
<1>8. front = SubSeq(loops, 1, n - 1)
  BY DEF Front
<1> HIDE DEF front
<1>9. n - 1 \in Nat /\ n - 1 <= n /\ 1..(n - 1) \subseteq 1..n
  BY <1>5
<1>10. \A m \in 1..(n - 1) : loops[m] \in L
  BY <1>4, <1>9, ElementOfSeq
<1> HIDE DEF n
<1>11. /\ front \in Seq(L) /\ Len(front) = n - 1
       /\ \A m \in 1..(n - 1) : front[m] = loops[m]
  <2>1. /\ front \in Seq(L)
        /\ Len(front) = IF 1 <= n - 1 THEN n - 1 - 1 + 1 ELSE 0
        /\ \A m \in 1..(n - 1 - 1 + 1) : front[m] = loops[1 + m - 1]
    BY <1>5, <1>8, <1>10, SubSeqProperties
  <2>2. n - 1 - 1 + 1 = n - 1 /\ \A m \in 1..(n - 1) : 1 + m - 1 = m
    BY <1>5
  <2>3. Len(front) = n - 1
    BY <1>5, <2>1
  <2> QED
    BY <2>1, <2>2, <2>3
<1>12. ASSUME NEW p, Awaited(loops, p)
       PROVE  Awaited(front, p) \/ Below(q, i, p)
  <2>1. PICK m \in 1..n : Below(loops[m][1], loops[m][2], p)
    BY <1>12 DEF Awaited, n
  <2>2. CASE m = n
    BY <1>1, <1>3, <2>1, <2>2
  <2>3. CASE m # n
    <3>1. m \in 1..(n - 1)
      BY <1>5, <2>3
    <3>2. m \in 1..Len(front) /\ front[m] = loops[m]
      BY <1>11, <3>1
    <3> QED
      BY <2>1, <3>2 DEF Awaited
  <2> QED
    BY <2>2, <2>3
<1> QED
  BY <1>1, <1>2, <1>7, <1>11, <1>12 DEF front, Loops, L

-----------------------------------------------------------------------------
(* What is known of a tool stays known while it is scanned on.              *)
LEMMA FieldSeenGrows ==
  ASSUME NEW l \in Interfaces, NEW k \in 1..AnalyzedOf(l), NEW s, NEW u,
         IsScan(l, k, s), Advances(l, k, s, u), NEW f \in DOMAIN l[k].fields,
         FieldSeen(l, k, s.evidence, s, f)
  PROVE  FieldSeen(l, k, u.evidence, u, f)
<1>1. IsText(l[k].fields[f])
  BY InterfaceIs
<1> QED
  BY <1>1, SeenGrows DEF FieldSeen

(* The same of the value of a node, and of its key.                         *)
LEMMA NodeSeenGrows ==
  ASSUME NEW l \in Interfaces, NEW k \in 1..AnalyzedOf(l), NEW s, NEW u,
         IsScan(l, k, s), Advances(l, k, s, u), NEW p \in DOMAIN l[k].schema
  PROVE  /\ ValueSeen(l, k, s.evidence, s, p) => ValueSeen(l, k, u.evidence, u, p)
         /\ KeySeen(l, k, s.evidence, s, p) => KeySeen(l, k, u.evidence, u, p)
<1>1. IsText(l[k].schema[p].text) /\ IsText(l[k].schema[p].key)
  BY InterfaceIs DEF IsSchema
<1>2. ValueSeen(l, k, s.evidence, s, p) => ValueSeen(l, k, u.evidence, u, p)
  BY <1>1, SeenGrows DEF ValueSeen
<1>3. KeySeen(l, k, s.evidence, s, p) => KeySeen(l, k, u.evidence, u, p)
  BY <1>1, SeenGrows DEF KeySeen
<1> QED
  BY <1>2, <1>3

(* A node whose place is told is known.                                     *)
LEMMA ToldNode ==
  ASSUME NEW l, NEW k, NEW claims, NEW s, NEW p, Told(s, <<k, 0>> \o p)
  PROVE  NodeSeen(l, k, claims, s, p)
<1>1. \A source : \A text : Seen(claims, s, <<k, 0>> \o p, source, text)
  BY ToldIsSeen
<1> QED
  BY <1>1 DEF NodeSeen, ValueSeen, KeySeen

(* What was assessed stays assessed.                                        *)
LEMMA AssessmentKept ==
  ASSUME NEW l, NEW k, NEW j, NEW s, NEW u, IsScan(l, k, s), IsScan(l, j, u),
         Grows(s, u), NEW i, NEW a, AssessmentSound(l, i, a, s)
  PROVE  AssessmentSound(l, i, a, u)
<1>1. ASSUME NEW at, NEW source, NEW text, Seen(a.claims, s, at, source, text)
      PROVE  Seen(a.claims, u, at, source, text)
  BY <1>1, SeenKept
<1>2. \A f \in DOMAIN l[i].fields : FieldSeen(l, i, a.claims, u, f)
  BY <1>1 DEF AssessmentSound, FieldSeen
<1>3. \A p \in DOMAIN l[i].schema : ValueSeen(l, i, a.claims, u, p)
  BY <1>1 DEF AssessmentSound, NodeSeen, ValueSeen
<1>4. \A p \in DOMAIN l[i].schema : KeySeen(l, i, a.claims, u, p)
  BY <1>1 DEF AssessmentSound, NodeSeen, KeySeen
<1> QED
  BY <1>2, <1>3, <1>4 DEF AssessmentSound, NodeSeen

(* All that is under a truncated position is told.                          *)
LEMMA TruncatesUnder ==
  ASSUME NEW l \in Interfaces, NEW k \in 1..AnalyzedOf(l), NEW s,
         IsScan(l, k, s), NEW q \in Seq(Nat), NEW reason, reason # "tool_limit"
  PROVE  LET u == Truncate(s, <<k, 0>> \o q, reason)
         IN  /\ Moves(l, k, s, u)
             /\ \A p \in Seq(Nat) : Under(q, p) => Told(u, <<k, 0>> \o p)
<1> DEFINE at == <<k, 0>> \o q
           u == Truncate(s, at, reason)
<1>1. k \in Nat
  BY AnalyzedIs
<1>2. PointsInto(l, k, at)
  BY PointsIntoSchema
<1>3. \A p \in Seq(Nat) : Under(q, p) => Covers(Truncation(at, reason), <<k, 0>> \o p)
  BY <1>1, CoversUnder
<1> HIDE DEF at
<1>4. /\ Moves(l, k, s, u)
      /\ u.omitted > 0 \/ Stores(u, Truncation(at, reason))
  BY <1>2, Truncates
<1> HIDE DEF u
<1>5. \A p \in Seq(Nat) : Under(q, p) => Told(u, <<k, 0>> \o p)
  BY <1>3, <1>4 DEF Told, Stores
<1> QED
  BY <1>4, <1>5 DEF u, at

(* All that a loop has left is told when the nodes are spent.               *)
LEMMA TruncatesLater ==
  ASSUME NEW l \in Interfaces, NEW k \in 1..AnalyzedOf(l), NEW s,
         IsScan(l, k, s), NEW q \in Seq(Nat), NEW i \in Nat
  PROVE  LET u == NodesSpent(s, <<k, 0>> \o Append(q, i))
         IN  /\ Moves(l, k, s, u)
             /\ \A p \in Seq(Nat) : Below(q, i, p) => Told(u, <<k, 0>> \o p)
<1> DEFINE r == Append(q, i)
           at == <<k, 0>> \o r
           reason == "schema_node_limit"
           u == Truncate(s, at, reason)
<1>1. k \in Nat
  BY AnalyzedIs
<1>2. r \in Seq(Nat)
  BY AppendProperties
<1>3. PointsInto(l, k, at)
  BY <1>2, PointsIntoSchema
<1>4. \A p \in Seq(Nat) : Below(q, i, p) => Covers(Truncation(at, reason), <<k, 0>> \o p)
  BY <1>1, CoversLater
<1>5. reason # "tool_limit"
  OBVIOUS
<1>6. NodesSpent(s, <<k, 0>> \o Append(q, i)) = u
  BY DEF NodesSpent
<1> HIDE DEF at, reason
<1>7. /\ Moves(l, k, s, u)
      /\ u.omitted > 0 \/ Stores(u, Truncation(at, reason))
  BY <1>3, <1>5, Truncates
<1> HIDE DEF u
<1>8. \A p \in Seq(Nat) : Below(q, i, p) => Told(u, <<k, 0>> \o p)
  BY <1>4, <1>7 DEF Told, Stores
<1> QED
  BY <1>6, <1>7, <1>8


-----------------------------------------------------------------------------
(* scanSchema() of one node: its string is read, and what is under it is   *)
(* told or comes in a loop that it opens.                                   *)
LEMMA Visits ==
  ASSUME tools \in Interfaces, tool \in 1..AnalyzedOf(tools), NEW s,
         IsScan(tools, tool, s), s.nodes < MaxSchemaNodes,
         NEW q \in DOMAIN Schema, NEW rest \in Loops, Visit(s, q, rest)
  PROVE  /\ Advances(tools, tool, s, scan')
         /\ ValueSeen(tools, tool, scan'.evidence, scan', q)
         /\ loops' \in Loops
         /\ \A p : Awaited(rest, p) => Awaited(loops', p)
         /\ \A p \in DOMAIN Schema :
              Under(q, p) /\ p # q =>
                Told(scan', <<tool, 0>> \o p) \/ Awaited(loops', p)
<1> DEFINE t == [s EXCEPT !.nodes = @ + 1]
           node == Schema[q]
           depth == "schema_depth_limit"
           limit == "schema_node_limit"
           source == "schema_value"
<1>1. Advances(tools, tool, s, t)
  BY CountsNode
<1> HIDE DEF t
<1>2. IsScan(tools, tool, t)
  BY <1>1 DEF Advances
<1>3. IsSchema(Schema) /\ q \in Seq(Nat)
  BY InterfaceIs, PositionIs DEF Schema
<1>4. node.kind \in {"string", "scalar", "array", "object"} /\ IsText(node.text)
  BY <1>3 DEF IsSchema
<1>5. depth # "tool_limit" /\ limit # "tool_limit"
  OBVIOUS
<1>6. ASSUME NEW p \in DOMAIN Schema, Under(q, p), p # q
      PROVE  /\ p \in Seq(Nat) /\ Below(q, 1, p)
             /\ node.kind \in {"array", "object"}
  <2>1. /\ p \in Seq(Nat) /\ Len(p) \in Nat
        /\ \A m \in 1..Len(p) : p[m] \in Nat /\ p[m] >= 1
    BY <1>3, PositionIs
  <2>2. Len(q) < Len(p) /\ Len(q) \in Nat
    BY <1>3, <1>6, <2>1, UnderProper, LenProperties
  <2>3. Len(q) + 1 \in 1..Len(p)
    BY <2>1, <2>2
  <2>4. Below(q, 1, p)
    BY <1>6, <2>1, <2>2, <2>3 DEF Below
  <2>5. node.kind \in {"array", "object"}
    BY <1>3, <1>6, <2>2, AboveIs
  <2> QED
    BY <2>1, <2>4, <2>5
<1>7. CASE node.kind = "string"
  <2>1. /\ scan' = IF UnderIgnoredKey(Schema, q) THEN t
                   ELSE ScanSchemaText(t, node.text, Pointer(q), source)
        /\ loops' = rest
    BY <1>7 DEF Visit, t
  <2>2. Pointer(q) = <<tool, 0>> \o q
    BY DEF Pointer
  <2>3. \A p \in DOMAIN Schema : Under(q, p) => p = q
    BY <1>6, <1>7
  <2>4. CASE UnderIgnoredKey(Schema, q)
    <3>1. scan' = t
      BY <2>1, <2>4
    <3>2. ValueSeen(tools, tool, scan'.evidence, scan', q)
      BY <2>4 DEF ValueSeen, Schema
    <3> QED
      BY <1>1, <2>1, <2>3, <3>1, <3>2
  <2>5. CASE ~UnderIgnoredKey(Schema, q)
    <3> DEFINE at == <<tool, 0>> \o q
               text == node.text
               u == ScanSchemaText(t, text, at, source)
    <3>1. scan' = u
      BY <2>1, <2>2, <2>5
    <3>2. PointsInto(tools, tool, at)
      BY <1>3, PointsIntoSchema
    <3>3. IsText(text)
      BY <1>4
    <3> HIDE DEF at, text, source
    <3>4. Moves(tools, tool, t, u) /\ Seen(u.evidence, u, at, source, text)
      BY <1>2, <3>2, <3>3, ScansSchemaText
    <3> HIDE DEF u
    <3>5. Advances(tools, tool, s, scan')
      BY <1>1, <3>1, <3>4, AdvancesOn DEF Moves
    <3>6. ValueSeen(tools, tool, scan'.evidence, scan', q)
      BY <3>1, <3>4 DEF ValueSeen, Schema, at, text, source
    <3> QED
      BY <2>1, <2>3, <3>5, <3>6
  <2> QED
    BY <2>4, <2>5
<1>8. CASE node.kind = "scalar"
  <2>1. scan' = t /\ loops' = rest
    BY <1>8 DEF Visit, t
  <2>2. \A p \in DOMAIN Schema : Under(q, p) => p = q
    BY <1>6, <1>8
  <2>3. ValueSeen(tools, tool, scan'.evidence, scan', q)
    BY <1>8 DEF ValueSeen, Schema
  <2> QED
    BY <1>1, <2>1, <2>2, <2>3
<1>9. CASE node.kind \in {"array", "object"}
  <2>1. ValueSeen(tools, tool, scan'.evidence, scan', q)
    BY <1>9 DEF ValueSeen, Schema
  <2>2. \/ /\ \/ scan' = Truncate(t, <<tool, 0>> \o q, depth)
              \/ scan' = Truncate(t, <<tool, 0>> \o q, limit)
           /\ loops' = rest
        \/ scan' = t /\ loops' = Append(rest, <<q, 1>>)
    BY <1>9 DEF Visit, t, Pointer
  <2>3. ASSUME NEW reason \in {depth, limit},
               scan' = Truncate(t, <<tool, 0>> \o q, reason), loops' = rest
        PROVE  /\ Advances(tools, tool, s, scan')
               /\ \A p \in DOMAIN Schema :
                    Under(q, p) => Told(scan', <<tool, 0>> \o p)
    <3>1. reason # "tool_limit"
      BY <1>5
    <3>2. /\ Moves(tools, tool, t, scan')
          /\ \A p \in Seq(Nat) : Under(q, p) => Told(scan', <<tool, 0>> \o p)
      BY <1>2, <1>3, <2>3, <3>1, TruncatesUnder
    <3>3. Advances(tools, tool, s, scan')
      BY <1>1, <3>2, AdvancesOn DEF Moves
    <3> QED
      BY <1>3, <3>2, <3>3, PositionIs
  <2>4. CASE scan' = t /\ loops' = Append(rest, <<q, 1>>)
    <3>1. /\ loops' \in Loops /\ \A p : Awaited(rest, p) => Awaited(loops', p)
          /\ \A p : Below(q, 1, p) => Awaited(loops', p)
      BY <1>3, <2>4, OpensLoop
    <3> QED
      BY <1>1, <1>6, <2>1, <2>4, <3>1
  <2> QED
    BY <2>1, <2>2, <2>3, <2>4
<1> QED
  BY <1>4, <1>7, <1>8, <1>9

-----------------------------------------------------------------------------
(* A step of the scan of one tool keeps the invariant when it moves the    *)
(* scan on and forgets nothing of the tool.                                 *)
LEMMA ToolStep ==
  ASSUME ClaimsInv, tool <= AnalyzedOf(tools),
         UNCHANGED <<tools, tool, assessments>>, loops' \in Loops,
         Advances(tools, tool, scan, scan'),
         ToolInv(tools, tool, field', loops', scan')
  PROVE  ClaimsInv'
<1>1. tools' = tools /\ tool' = tool /\ assessments' = assessments
  OBVIOUS
<1>2. IsScan(tools, tool, scan) /\ IsScan(tools, tool, scan') /\ Grows(scan, scan')
  BY DEF ClaimsInv, Advances
<1>3. \A k \in 1..(tool - 1) : AssessmentSound(tools, k, assessments[k], scan')
  BY <1>2, AssessmentKept DEF ClaimsInv
<1>4. BudgetsInv(tool, scan')
  BY DEF ClaimsInv, Advances, BudgetsInv
<1> QED
  BY <1>1, <1>2, <1>3, <1>4 DEF ClaimsInv

(* A step of the innermost loop over children keeps it when each position  *)
(* that comes in a loop still does, or is known.                            *)
LEMMA LoopStep ==
  ASSUME ClaimsInv, loops # <<>>, UNCHANGED <<tools, tool, field, assessments>>,
         loops' \in Loops, Advances(tools, tool, scan, scan'),
         \A p \in DOMAIN Schema : Awaited(loops, p) =>
           NodeSeen(tools, tool, scan'.evidence, scan', p) \/ Awaited(loops', p)
  PROVE  ClaimsInv'
<1>1. tool <= AnalyzedOf(tools) /\ tool \in 1..AnalyzedOf(tools)
  BY AnalyzedIs DEF ClaimsInv
<1>2. tools \in Interfaces /\ IsScan(tools, tool, scan)
  BY DEF ClaimsInv
<1>3. ToolInv(tools, tool, field, loops, scan)
  BY <1>1 DEF ClaimsInv
<1>4. field = Len(tools[tool].fields) + 2
  BY <1>3 DEF ToolInv
<1>5. \A g \in DOMAIN tools[tool].fields :
        g < field => FieldSeen(tools, tool, scan'.evidence, scan', g)
  BY <1>1, <1>2, <1>3, FieldSeenGrows DEF ToolInv
<1>6. ASSUME NEW p \in DOMAIN tools[tool].schema
      PROVE  NodeSeen(tools, tool, scan'.evidence, scan', p) \/ Awaited(loops', p)
  <2>1. NodeSeen(tools, tool, scan.evidence, scan, p) \/ Awaited(loops, p)
    BY <1>3, <1>4 DEF ToolInv
  <2>2. CASE NodeSeen(tools, tool, scan.evidence, scan, p)
    BY <1>1, <1>2, <2>2, NodeSeenGrows DEF NodeSeen
  <2>3. CASE Awaited(loops, p)
    BY <2>3 DEF Schema
  <2> QED
    BY <2>1, <2>2, <2>3
<1>7. ToolInv(tools, tool, field', loops', scan')
  BY <1>3, <1>4, <1>5, <1>6 DEF ToolInv
<1> QED
  BY <1>1, <1>7, ToolStep

(* A field is read.                                                         *)
LEMMA FieldScanned ==
  ASSUME ClaimsInv, ScanFieldNext
  PROVE  ClaimsInv'
<1> DEFINE at == <<tool, field>>
           text == Fields[field]
<1>1. /\ tools \in Interfaces /\ IsScan(tools, tool, scan) /\ loops \in Loops
      /\ tool \in 1..(AnalyzedOf(tools) + 1)
  BY DEF ClaimsInv
<1>2. tool \in 1..AnalyzedOf(tools) /\ tool \in Nat
  BY <1>1, AnalyzedIs DEF ScanFieldNext, AnalyzedOf, AnalyzedTools
<1>3. ToolInv(tools, tool, field, loops, scan)
  BY <1>1, <1>2 DEF ClaimsInv
<1>4. /\ Len(tools[tool].fields) \in Nat
      /\ DOMAIN tools[tool].fields = 1..Len(tools[tool].fields)
      /\ \A f \in DOMAIN tools[tool].fields : IsText(tools[tool].fields[f])
  BY <1>1, <1>2, InterfaceIs
<1>5. field \in Nat /\ field \in 1..Len(tools[tool].fields)
  BY <1>3, <1>4 DEF ToolInv, ScanFieldNext, Fields
<1>6. /\ at \in Seq(Nat) /\ Len(at) = 2 /\ at[1] = tool
      /\ IsText(text) /\ text = tools[tool].fields[field]
  BY <1>2, <1>4, <1>5 DEF Fields
<1>7. scan' = ScanField(scan, text, at)
  BY DEF ScanFieldNext
<1> HIDE DEF at, text
<1>8. PointsInto(tools, tool, at)
  BY <1>2, <1>6 DEF PointsInto
<1>9. /\ Moves(tools, tool, scan, scan')
      /\ Seen(scan'.evidence, scan', at, "field_value", text)
  BY <1>1, <1>6, <1>7, <1>8, ScansField
<1>10. FieldSeen(tools, tool, scan'.evidence, scan', field)
  BY <1>6, <1>9 DEF FieldSeen, at
<1>11. field' = field + 1 /\ UNCHANGED <<tools, tool, loops, assessments>>
  BY DEF ScanFieldNext
<1>12. ASSUME NEW g \in DOMAIN tools[tool].fields, g < field'
       PROVE  FieldSeen(tools, tool, scan'.evidence, scan', g)
  <2>1. g \in Nat /\ (g < field \/ g = field)
    BY <1>4, <1>5, <1>11, <1>12
  <2>2. CASE g < field
    <3>1. FieldSeen(tools, tool, scan.evidence, scan, g)
      BY <1>3, <2>2 DEF ToolInv
    <3> QED
      BY <1>1, <1>2, <1>9, <3>1, FieldSeenGrows DEF Moves
  <2> QED
    BY <1>10, <2>1, <2>2
<1>13. loops = <<>> /\ scan.nodes = 0
  BY <1>3, <1>4, <1>5 DEF ToolInv
<1>14. field' \in 1..(Len(tools[tool].fields) + 2)
       /\ field' # Len(tools[tool].fields) + 2
  BY <1>4, <1>5, <1>11
<1>15. scan'.nodes = 0
  BY <1>9, <1>13 DEF Moves
<1>16. ToolInv(tools, tool, field', loops', scan')
  BY <1>11, <1>12, <1>13, <1>14, <1>15 DEF ToolInv
<1> QED
  BY <1>1, <1>2, <1>9, <1>11, <1>16, ToolStep DEF Moves

(* The schema of a tool is entered.                                         *)
LEMMA RootVisited ==
  ASSUME ClaimsInv, VisitRoot
  PROVE  ClaimsInv'
<1>1. /\ tools \in Interfaces /\ IsScan(tools, tool, scan)
      /\ tool \in 1..(AnalyzedOf(tools) + 1)
  BY DEF ClaimsInv
<1>2. tool \in 1..AnalyzedOf(tools) /\ tool \in Nat
  BY <1>1, AnalyzedIs DEF VisitRoot, AnalyzedOf, AnalyzedTools
<1>3. ToolInv(tools, tool, field, loops, scan)
  BY <1>1, <1>2 DEF ClaimsInv
<1>4. /\ Len(tools[tool].fields) \in Nat /\ IsSchema(Schema)
      /\ DOMAIN tools[tool].fields = 1..Len(tools[tool].fields)
  BY <1>1, <1>2, InterfaceIs DEF Schema
<1>5. /\ field = Len(tools[tool].fields) + 1 /\ field' = field + 1
      /\ UNCHANGED <<tools, tool, assessments>>
  BY DEF VisitRoot, Fields
<1>6. scan.nodes = 0 /\ MaxSchemaNodes \in Nat \ {0}
  BY <1>3, <1>4, <1>5, ClaimLimitsAssumption DEF ToolInv
<1> DEFINE q == <<>>
           rest == <<>>
<1>7. q \in DOMAIN Schema /\ q \in Seq(Nat) /\ Len(q) = 0 /\ rest \in Loops
  BY <1>4 DEF IsSchema, Loops
<1>8. Visit(scan, q, rest)
  BY DEF VisitRoot
<1>9. q = <<>>
  OBVIOUS
<1> HIDE DEF q, rest
<1>10. scan.nodes < MaxSchemaNodes
  BY <1>6
<1>11. /\ Advances(tools, tool, scan, scan')
       /\ ValueSeen(tools, tool, scan'.evidence, scan', q)
       /\ loops' \in Loops
       /\ \A p \in DOMAIN Schema :
            Under(q, p) /\ p # q =>
              Told(scan', <<tool, 0>> \o p) \/ Awaited(loops', p)
  BY <1>1, <1>2, <1>7, <1>8, <1>10, Visits
<1>12. ASSUME NEW p \in DOMAIN tools[tool].schema
       PROVE  NodeSeen(tools, tool, scan'.evidence, scan', p) \/ Awaited(loops', p)
  <2>1. CASE p = q
    <3>1. KeySeen(tools, tool, scan'.evidence, scan', p)
      BY <1>9, <2>1 DEF KeySeen
    <3> QED
      BY <1>11, <2>1, <3>1 DEF NodeSeen
  <2>2. CASE p # q
    <3>1. p \in Seq(Nat) /\ Len(p) \in Nat
      BY <1>4, PositionIs DEF Schema
    <3>2. Under(q, p)
      BY <1>7, <3>1 DEF Under
    <3>3. Told(scan', <<tool, 0>> \o p) \/ Awaited(loops', p)
      BY <1>11, <2>2, <3>2 DEF Schema
    <3> QED
      BY <3>3, ToldNode
  <2> QED
    BY <2>1, <2>2
<1>13. ASSUME NEW g \in DOMAIN tools[tool].fields
       PROVE  FieldSeen(tools, tool, scan'.evidence, scan', g)
  <2>1. FieldSeen(tools, tool, scan.evidence, scan, g)
    BY <1>3, <1>4, <1>5 DEF ToolInv
  <2> QED
    BY <1>1, <1>2, <1>11, <2>1, FieldSeenGrows
<1>14. field' = Len(tools[tool].fields) + 2
       /\ field' \in 1..(Len(tools[tool].fields) + 2)
  BY <1>4, <1>5
<1>15. ToolInv(tools, tool, field', loops', scan')
  BY <1>12, <1>13, <1>14 DEF ToolInv
<1> QED
  BY <1>2, <1>5, <1>11, <1>15, ToolStep


(* A key that is too long: nothing under its object is silent about it.    *)
LEMMA LongKeySkipped ==
  ASSUME ClaimsInv, NEW q, NEW i, SkipLongKey(q, i)
  PROVE  ClaimsInv'
<1> DEFINE reason == "schema_key_character_limit"
           open == Append(Front(loops), <<q, i + 1>>)
<1>1. /\ tools \in Interfaces /\ IsScan(tools, tool, scan) /\ loops \in Loops
      /\ InLoop(q, i)
  BY DEF ClaimsInv, SkipLongKey
<1>2. loops # <<>>
  BY <1>1 DEF InLoop
<1>3. tool \in 1..AnalyzedOf(tools) /\ IsSchema(Schema)
  BY <1>2, AnalyzedIs, InterfaceIs DEF ClaimsInv, Schema
<1>4. /\ q \in Seq(Nat) /\ i \in Nat \ {0} /\ Front(loops) \in Loops
      /\ \A p : Awaited(loops, p) => Awaited(Front(loops), p) \/ Below(q, i, p)
  BY <1>1, LastLoop
<1>5. /\ scan' = Truncate(scan, <<tool, 0>> \o q, reason)
      /\ loops' = open
      /\ UNCHANGED <<tools, tool, field, assessments>>
  BY DEF SkipLongKey, Pointer
<1>6. reason # "tool_limit"
  OBVIOUS
<1> HIDE DEF reason
<1>7. /\ Moves(tools, tool, scan, scan')
      /\ \A p \in Seq(Nat) : Under(q, p) => Told(scan', <<tool, 0>> \o p)
  BY <1>1, <1>3, <1>4, <1>5, <1>6, TruncatesUnder
<1>8. i + 1 \in Nat \ {0}
  BY <1>4
<1>9. open \in Loops /\ \A p : Awaited(Front(loops), p) => Awaited(open, p)
  BY <1>4, <1>8, OpensLoop
<1>10. ASSUME NEW p \in DOMAIN Schema, Awaited(loops, p)
       PROVE  \/ NodeSeen(tools, tool, scan'.evidence, scan', p)
              \/ Awaited(loops', p)
  <2>1. CASE Below(q, i, p)
    <3>1. p \in Seq(Nat) /\ Under(q, p)
      BY <1>3, <2>1, PositionIs DEF Below
    <3> QED
      BY <1>7, <3>1, ToldNode
  <2>2. CASE Awaited(Front(loops), p)
    BY <1>5, <1>9, <2>2
  <2> QED
    BY <1>4, <1>10, <2>1, <2>2
<1> QED
  BY <1>2, <1>5, <1>7, <1>9, <1>10, LoopStep DEF Moves

(* The loop is left behind its last child.                                  *)
LEMMA LoopEnded ==
  ASSUME ClaimsInv, NEW q, NEW i, LoopEnds(q, i)
  PROVE  ClaimsInv'
<1>1. /\ tools \in Interfaces /\ IsScan(tools, tool, scan) /\ loops \in Loops
      /\ InLoop(q, i)
  BY DEF ClaimsInv, LoopEnds
<1>2. loops # <<>>
  BY <1>1 DEF InLoop
<1>3. tool \in 1..AnalyzedOf(tools) /\ IsSchema(Schema)
  BY <1>2, AnalyzedIs, InterfaceIs DEF ClaimsInv, Schema
<1>4. /\ q \in Seq(Nat) /\ i \in Nat \ {0} /\ Front(loops) \in Loops
      /\ \A p : Awaited(loops, p) => Awaited(Front(loops), p) \/ Below(q, i, p)
  BY <1>1, LastLoop
<1>5. /\ loops' = Front(loops) /\ Append(q, i) \notin DOMAIN Schema
      /\ scan' = scan /\ UNCHANGED <<tools, tool, field, assessments>>
  BY DEF LoopEnds
<1>6. Advances(tools, tool, scan, scan')
  BY <1>1, <1>5, MovesNot DEF Moves
<1>7. ASSUME NEW p \in DOMAIN Schema, Below(q, i, p)
      PROVE  FALSE
  <2>1. /\ p \in Seq(Nat) /\ Len(p) \in Nat /\ Len(q) \in Nat
        /\ \A m \in 1..Len(p) : p[m] \in Nat /\ p[m] >= 1
    BY <1>3, <1>4, PositionIs, LenProperties
  <2>2. Len(q) < Len(p) /\ Under(q, p) /\ p[Len(q) + 1] >= i
    BY <1>7 DEF Below
  <2>3. \A j \in 1..p[Len(q) + 1] : Append(q, j) \in DOMAIN Schema
    BY <1>3, <1>4, <2>2, AboveIs
  <2>4. Len(q) + 1 \in 1..Len(p)
    BY <2>1, <2>2
  <2>5. i \in 1..p[Len(q) + 1]
    BY <1>4, <2>1, <2>2, <2>4
  <2> QED
    BY <1>5, <2>3, <2>5
<1> QED
  BY <1>2, <1>4, <1>5, <1>6, <1>7, LoopStep

(* The key of a child is read before its value.                             *)
LEMMA ReadsKey ==
  ASSUME tools \in Interfaces, tool \in 1..AnalyzedOf(tools),
         IsScan(tools, tool, scan), NEW q \in Seq(Nat), NEW i \in Nat \ {0},
         Append(q, i) \in DOMAIN Schema
  PROVE  LET s == KeyScanned(q, Append(q, i))
         IN  /\ Moves(tools, tool, scan, s)
             /\ KeySeen(tools, tool, s.evidence, s, Append(q, i))
<1> DEFINE r == Append(q, i)
           node == Schema[r]
           s == KeyScanned(q, r)
           source == "schema_key"
           at == <<tool, 0>> \o r
           text == node.key
           u == ScanSchemaText(scan, text, at, source)
<1>1. SUFFICES /\ Moves(tools, tool, scan, s)
               /\ KeySeen(tools, tool, s.evidence, s, r)
  OBVIOUS
<1>2. /\ r \in Seq(Nat) /\ Len(r) = Len(q) + 1 /\ Len(q) \in Nat
      /\ \A j \in 1..Len(q) : r[j] = q[j]
  BY AppendProperties, LenProperties
<1> HIDE DEF r
<1>3. Under(q, r)
  BY <1>2 DEF Under
<1>4. Front(r) = q
  <2>1. SubSeq(r, 1, Len(q)) = q
    BY <1>2, <1>3, UnderIs
  <2>2. Len(r) - 1 = Len(q)
    BY <1>2
  <2> QED
    BY <2>1, <2>2 DEF Front
<1>5. s = IF Schema[q].kind = "object" /\ ~node.structural THEN u ELSE scan
  BY DEF KeyScanned, Pointer
<1>6. CASE Schema[q].kind = "object" /\ ~node.structural
  <2>1. s = u
    BY <1>5, <1>6
  <2>2. PointsInto(tools, tool, at)
    BY <1>2, PointsIntoSchema
  <2>3. IsText(text)
    <3>1. IsSchema(Schema)
      BY InterfaceIs DEF Schema
    <3>2. r \in DOMAIN Schema
      BY DEF r
    <3> QED
      BY <3>1, <3>2 DEF IsSchema
  <2> HIDE DEF s, at, text, source
  <2>4. Moves(tools, tool, scan, u) /\ Seen(u.evidence, u, at, source, text)
    BY <2>2, <2>3, ScansSchemaText
  <2> HIDE DEF u
  <2>5. KeySeen(tools, tool, s.evidence, s, r)
    BY <2>1, <2>4 DEF KeySeen, Schema, at, text, source
  <2> QED
    BY <2>1, <2>4, <2>5
<1>7. CASE ~(Schema[q].kind = "object" /\ ~node.structural)
  <2>1. s = scan
    BY <1>5, <1>7
  <2> HIDE DEF s
  <2>2. Moves(tools, tool, scan, s)
    BY <2>1, MovesNot
  <2>3. KeySeen(tools, tool, s.evidence, s, r)
    BY <1>4, <1>7 DEF KeySeen, Schema
  <2> QED
    BY <2>2, <2>3
<1> QED
  BY <1>6, <1>7

(* A child is visited, or the loop is left at it since no nodes remain.    *)
LEMMA ChildVisited ==
  ASSUME ClaimsInv, NEW q, NEW i, VisitChild(q, i)
  PROVE  ClaimsInv'
<1> DEFINE r == Append(q, i)
           s == KeyScanned(q, r)
           rest == Append(Front(loops), <<q, i + 1>>)
<1>1. /\ tools \in Interfaces /\ IsScan(tools, tool, scan) /\ loops \in Loops
      /\ InLoop(q, i)
  BY DEF ClaimsInv, VisitChild
<1>2. loops # <<>>
  BY <1>1 DEF InLoop
<1>3. tool \in 1..AnalyzedOf(tools) /\ IsSchema(Schema)
  BY <1>2, AnalyzedIs, InterfaceIs DEF ClaimsInv, Schema
<1>4. /\ q \in Seq(Nat) /\ i \in Nat \ {0} /\ Front(loops) \in Loops
      /\ \A p : Awaited(loops, p) => Awaited(Front(loops), p) \/ Below(q, i, p)
  BY <1>1, LastLoop
<1>5. /\ r \in DOMAIN Schema
      /\ UNCHANGED <<tools, tool, field, assessments>>
  BY DEF VisitChild
<1>6. /\ Moves(tools, tool, scan, s)
      /\ KeySeen(tools, tool, s.evidence, s, r)
  BY <1>1, <1>3, <1>4, <1>5, ReadsKey
<1>7. \/ /\ s.nodes >= MaxSchemaNodes
         /\ scan' = NodesSpent(s, <<tool, 0>> \o r)
         /\ loops' = Front(loops)
      \/ ~(s.nodes >= MaxSchemaNodes) /\ Visit(s, r, rest)
  BY DEF VisitChild, Pointer
<1> HIDE DEF s
<1>8. IsScan(tools, tool, s)
  BY <1>6 DEF Moves, Advances
<1>9. CASE scan' = NodesSpent(s, <<tool, 0>> \o r) /\ loops' = Front(loops)
  <2>1. i \in Nat
    BY <1>4
  <2>2. /\ Moves(tools, tool, s, scan')
        /\ \A p \in Seq(Nat) : Below(q, i, p) => Told(scan', <<tool, 0>> \o p)
    BY <1>1, <1>3, <1>4, <1>8, <1>9, <2>1, TruncatesLater
  <2>3. Advances(tools, tool, scan, scan')
    BY <1>1, <1>6, <2>2, AdvancesOn DEF Moves
  <2>4. ASSUME NEW p \in DOMAIN Schema, Awaited(loops, p)
        PROVE  \/ NodeSeen(tools, tool, scan'.evidence, scan', p)
               \/ Awaited(loops', p)
    <3>1. CASE Below(q, i, p)
      <4>1. p \in Seq(Nat)
        BY <1>3, PositionIs
      <4> QED
        BY <2>2, <3>1, <4>1, ToldNode
    <3>2. CASE Awaited(Front(loops), p)
      BY <1>9, <3>2
    <3> QED
      BY <1>4, <2>4, <3>1, <3>2
  <2> QED
    BY <1>2, <1>4, <1>5, <1>9, <2>3, <2>4, LoopStep
<1>10. CASE ~(s.nodes >= MaxSchemaNodes) /\ Visit(s, r, rest)
  <2>1. s.nodes < MaxSchemaNodes
    BY <1>8, <1>10, ClaimLimitsAssumption DEF IsScan
  <2>2. i \in Nat /\ i + 1 \in Nat \ {0}
    BY <1>4
  <2>3. /\ rest \in Loops
        /\ \A p : Awaited(Front(loops), p) => Awaited(rest, p)
        /\ \A p : Below(q, i + 1, p) => Awaited(rest, p)
    BY <1>4, <2>2, OpensLoop
  <2> HIDE DEF rest
  <2>4. /\ Advances(tools, tool, s, scan')
        /\ ValueSeen(tools, tool, scan'.evidence, scan', r)
        /\ loops' \in Loops
        /\ \A p : Awaited(rest, p) => Awaited(loops', p)
        /\ \A p \in DOMAIN Schema :
             Under(r, p) /\ p # r =>
               Told(scan', <<tool, 0>> \o p) \/ Awaited(loops', p)
    BY <1>1, <1>3, <1>5, <1>8, <1>10, <2>1, <2>3, Visits
  <2>5. KeySeen(tools, tool, scan'.evidence, scan', r)
    BY <1>1, <1>3, <1>5, <1>6, <1>8, <2>4, NodeSeenGrows DEF Schema
  <2>6. Advances(tools, tool, scan, scan')
    BY <1>1, <1>6, <2>4, AdvancesOn DEF Moves
  <2>7. ASSUME NEW p \in DOMAIN Schema, Awaited(loops, p)
        PROVE  \/ NodeSeen(tools, tool, scan'.evidence, scan', p)
               \/ Awaited(loops', p)
    <3>1. p \in Seq(Nat)
      BY <1>3, PositionIs
    <3>2. CASE Awaited(Front(loops), p) \/ Below(q, i + 1, p)
      BY <2>3, <2>4, <3>2
    <3>3. CASE Under(r, p)
      <4>1. CASE p = r
        BY <2>4, <2>5, <4>1 DEF NodeSeen
      <4>2. CASE p # r
        BY <2>4, <3>3, <4>2, ToldNode
      <4> QED
        BY <4>1, <4>2
    <3>4. Below(q, i, p) => Under(r, p) \/ Below(q, i + 1, p)
      BY <1>4, <2>2, <3>1, BelowSplit
    <3> QED
      BY <1>4, <2>7, <3>2, <3>3, <3>4
  <2> QED
    BY <1>2, <1>5, <2>4, <2>6, <2>7, LoopStep
<1> QED
  BY <1>7, <1>9, <1>10


-----------------------------------------------------------------------------
(* The scan of a tool starts with no evidence and fresh budgets.            *)
Restarted(s, x, y, z, v, w) ==
  [s EXCEPT !.evidence = x, !.nodes = y, !.allNodes = z,
            !.characters = v, !.allCharacters = w]

LEMMA ScanRestarts ==
  ASSUME NEW s, IsScanRecord(s), NEW x, NEW y, NEW z, NEW v, NEW w
  PROVE  Restarted(s, x, y, z, v, w)
           = ScanOf(y, v, x, s.truncations, s.reported, s.omitted, z, w)
<1> DEFINE n == s.nodes
           c == s.characters
           e == s.evidence
           t == s.truncations
           r == s.reported
           o == s.omitted
           an == s.allNodes
           ac == s.allCharacters
           d1 == [s EXCEPT !.evidence = x]
           d2 == [d1 EXCEPT !.nodes = y]
           d3 == [d2 EXCEPT !.allNodes = z]
           d4 == [d3 EXCEPT !.characters = v]
           d5 == [d4 EXCEPT !.allCharacters = w]
<1>1. s = ScanOf(n, c, e, t, r, o, an, ac)
  BY DEF IsScanRecord
<1> HIDE DEF n, c, e, t, r, o, an, ac
<1>2. Restarted(s, x, y, z, v, w) = d5
  BY <1>1 DEF ScanOf, Restarted
<1>3. d1 = ScanOf(n, c, x, t, r, o, an, ac)
  BY <1>1 DEF ScanOf
<1> HIDE DEF d1
<1>4. d2 = ScanOf(y, c, x, t, r, o, an, ac)
  BY <1>3 DEF ScanOf
<1> HIDE DEF d2
<1>5. d3 = ScanOf(y, c, x, t, r, o, z, ac)
  BY <1>4 DEF ScanOf
<1> HIDE DEF d3
<1>6. d4 = ScanOf(y, v, x, t, r, o, z, ac)
  BY <1>5 DEF ScanOf
<1> HIDE DEF d4
<1>7. d5 = ScanOf(y, v, x, t, r, o, z, w)
  BY <1>6 DEF ScanOf
<1> QED
  BY <1>2, <1>7 DEF t, r, o

(* The bounds of the whole interface, one tool further.                     *)
LEMMA OneToolMore ==
  ASSUME NEW k \in Nat \ {0}, NEW m \in Nat, NEW a \in Nat, NEW n \in Nat,
         a <= (k - 1) * m, n <= m, NEW j, j = k + 1
  PROVE  a + n \in Nat /\ a + n <= (j - 1) * m
<1>1. (j - 1) * m = (k - 1) * m + m
  OBVIOUS
<1>2. (k - 1) * m \in Nat
  OBVIOUS
<1> QED
  BY <1>1, <1>2

(* scanAnnotations() keeps what it accepts apart from what it notes.        *)
LEMMA AnnotationsApart ==
  ASSUME NEW l, l = tools
  PROVE  LET a == ScanAnnotations(tools[tool].annotations)
         IN  /\ \A x \in a.evidence \union a.issues : x[1] = tool
             /\ a.evidence \intersect a.issues = {}
<1> DEFINE given == tools[tool].annotations
           kept == WithValue(given, "boolean")
           others == WithValue(given, "other")
           a == ScanAnnotations(given)
<1>1. kept \intersect others = {}
  BY DEF WithValue
<1> HIDE DEF given, kept, others
<1>2. CASE given.object
  <2>1. a = [evidence |-> {<<tool, b>> : b \in kept},
             issues |-> {<<tool, b>> : b \in others}]
    BY <1>2 DEF ScanAnnotations, kept, others
  <2> HIDE DEF a
  <2>2. a.evidence = {<<tool, b>> : b \in kept}
        /\ a.issues = {<<tool, b>> : b \in others}
    BY <2>1
  <2>3. \A x \in a.evidence \union a.issues : x[1] = tool
    BY <2>2
  <2>4. a.evidence \intersect a.issues = {}
    BY <1>1, <2>2
  <2> QED
    BY <2>3, <2>4 DEF a, given
<1>3. CASE ~given.object
  <2>1. a = [evidence |-> {}, issues |-> {<<tool>>}]
    BY <1>3 DEF ScanAnnotations
  <2> HIDE DEF a
  <2>2. a.evidence = {} /\ a.issues = {<<tool>>}
    BY <2>1
  <2> QED
    BY <2>2 DEF a, given
<1> QED
  BY <1>2, <1>3

(* A tool is done: its assessment is complete, and the next one starts.    *)
LEMMA ToolDone ==
  ASSUME ClaimsInv, ToolAnalysed
  PROVE  ClaimsInv'
<1> DEFINE noted == ScanAnnotations(tools[tool].annotations)
           new == [claims |-> scan.evidence, annotations |-> noted.evidence,
                   issues |-> noted.issues]
           none == NoEvidence
           zero == 0
           an == scan.allNodes + scan.nodes
           ac == scan.allCharacters + scan.characters
           k == tool + 1
<1>1. /\ tools \in Interfaces /\ IsScan(tools, tool, scan)
      /\ tool \in 1..(AnalyzedOf(tools) + 1) /\ BudgetsInv(tool, scan)
      /\ Len(assessments) = tool - 1
  BY DEF ClaimsInv
<1>2. AnalyzedOf(tools) \in Nat
  BY <1>1, AnalyzedIs
<1>3. /\ tool \in 1..AnalyzedOf(tools) /\ tool \in Nat \ {0}
      /\ k \in 1..(AnalyzedOf(tools) + 1)
  BY <1>1, <1>2 DEF ToolAnalysed, AnalyzedOf, AnalyzedTools
<1>4. ToolInv(tools, tool, field, loops, scan)
  BY <1>1, <1>3 DEF ClaimsInv
<1>5. /\ Len(tools[tool].fields) \in Nat
      /\ DOMAIN tools[tool].fields = 1..Len(tools[tool].fields)
  BY <1>1, <1>3, InterfaceIs
<1>6. /\ field = Len(tools[tool].fields) + 2 /\ loops = <<>>
      /\ tools' = tools /\ loops' = loops /\ tool' = k /\ field' = 1
  BY DEF ToolAnalysed, Fields
<1>7. assessments' = Append(assessments, new)
  BY DEF ToolAnalysed
<1>8. scan' = ScanOf(zero, zero, none, scan.truncations, scan.reported,
                     scan.omitted, an, ac)
  <2>1. scan' = Restarted(scan, none, zero, an, zero, ac)
    BY DEF ToolAnalysed, Restarted
  <2>2. IsScanRecord(scan)
    BY <1>1 DEF IsScan
  <2> HIDE DEF none, zero, an, ac
  <2> QED
    BY <2>1, <2>2, ScanRestarts
<1>9. \A c \in Capabilities : none[c] = {}
  BY DEF NoEvidence
<1>10. DOMAIN none = Capabilities
  BY DEF NoEvidence
<1>11. zero = 0
  OBVIOUS
<1> HIDE DEF none, zero
<1>12. /\ scan'.nodes = 0 /\ scan'.characters = 0 /\ scan'.evidence = none
       /\ scan'.truncations = scan.truncations
       /\ scan'.reported = scan.reported /\ scan'.omitted = scan.omitted
       /\ scan'.allNodes = an /\ scan'.allCharacters = ac
       /\ IsScanRecord(scan')
  BY <1>8, <1>11, ScanOfIs
<1>13. EvidenceSound(none, k)
  <2>1. IsFiniteSet({}) /\ Cardinality({}) = 0
    BY FS_EmptySet
  <2>2. MaxEvidence \in Nat
    BY ClaimLimitsAssumption
  <2> QED
    BY <1>9, <1>10, <2>1, <2>2 DEF EvidenceSound
<1>14. TruncationsInv(tools, scan')
  BY <1>1, <1>12 DEF IsScan, TruncationsInv, Stores
<1>15. MaxSchemaNodes \in Nat /\ MaxSchemaTextCharacters \in Nat
  BY ClaimLimitsAssumption
<1>16. IsScan(tools, k, scan')
  BY <1>12, <1>13, <1>14, <1>15 DEF IsScan
<1>17. Grows(scan, scan')
  <2>1. Grows(scan, scan)
    BY <1>1, MovesNot DEF Moves, Advances
  <2> QED
    BY <1>12, <2>1 DEF Grows
<1>18. BudgetsInv(k, scan')
  <2>1. /\ scan.nodes \in Nat /\ scan.nodes <= MaxSchemaNodes
        /\ scan.characters \in Nat
        /\ scan.characters <= MaxSchemaTextCharacters
    BY <1>1, <1>15 DEF IsScan
  <2>2. /\ scan.allNodes \in Nat
        /\ scan.allNodes <= (tool - 1) * MaxSchemaNodes
        /\ scan.allCharacters \in Nat
        /\ scan.allCharacters <= (tool - 1) * MaxSchemaTextCharacters
    BY <1>1 DEF BudgetsInv
  <2>3. k = tool + 1
    OBVIOUS
  <2> HIDE DEF k
  <2>4. an \in Nat /\ an <= (k - 1) * MaxSchemaNodes
    BY <1>3, <1>15, <2>1, <2>2, <2>3, OneToolMore
  <2>5. ac \in Nat /\ ac <= (k - 1) * MaxSchemaTextCharacters
    BY <1>3, <1>15, <2>1, <2>2, <2>3, OneToolMore
  <2>6. scan'.allNodes = an /\ scan'.allCharacters = ac
    BY <1>12
  <2> HIDE DEF an, ac
  <2> QED
    BY <2>4, <2>5, <2>6 DEF BudgetsInv
<1>19. AssessmentSound(tools, tool, new, scan)
  <2>1. /\ new.claims = scan.evidence /\ new.annotations = noted.evidence
        /\ new.issues = noted.issues
    OBVIOUS
  <2>2. /\ \A x \in noted.evidence \union noted.issues : x[1] = tool
        /\ noted.evidence \intersect noted.issues = {}
    BY AnnotationsApart
  <2> HIDE DEF noted, new
  <2>3. \A p : ~Awaited(loops, p)
    BY <1>6 DEF Awaited
  <2>4. \A p \in DOMAIN tools[tool].schema :
          NodeSeen(tools, tool, scan.evidence, scan, p)
    BY <1>4, <1>6, <2>3 DEF ToolInv
  <2>5. \A g \in DOMAIN tools[tool].fields :
          FieldSeen(tools, tool, scan.evidence, scan, g)
    BY <1>4, <1>5, <1>6 DEF ToolInv
  <2>6. EvidenceSound(scan.evidence, tool)
    BY <1>1 DEF IsScan
  <2> QED
    BY <2>1, <2>2, <2>4, <2>5, <2>6 DEF AssessmentSound
<1> HIDE DEF noted, new, an, ac
<1>20. AssessmentSound(tools, tool, new, scan')
  BY <1>1, <1>16, <1>17, <1>19, AssessmentKept
<1>21. \A n \in 1..(tool - 1) : AssessmentSound(tools, n, assessments[n], scan')
  BY <1>1, <1>16, <1>17, AssessmentKept DEF ClaimsInv
<1>22. /\ \E S : assessments' \in Seq(S)
       /\ Len(assessments') = tool
       /\ \A n \in 1..(tool - 1) : assessments'[n] = assessments[n]
       /\ assessments'[tool] = new
  <2>1. PICK S : assessments \in Seq(S)
    BY DEF ClaimsInv
  <2> DEFINE T == S \union {new}
  <2>2. assessments \in Seq(T) /\ new \in T
    BY <2>1, SeqMonotonic
  <2> HIDE DEF T
  <2>3. /\ assessments' \in Seq(T) /\ Len(assessments') = Len(assessments) + 1
        /\ \A n \in 1..Len(assessments) : assessments'[n] = assessments[n]
        /\ assessments'[Len(assessments) + 1] = new
    BY <1>7, <2>2, AppendProperties
  <2>4. Len(assessments) + 1 = tool
    BY <1>1, <1>3
  <2> QED
    BY <1>1, <2>3, <2>4
<1>23. ASSUME NEW n \in 1..(k - 1)
       PROVE  AssessmentSound(tools, n, assessments'[n], scan')
  <2>1. n \in 1..(tool - 1) \/ n = tool
    BY <1>3
  <2> QED
    BY <1>20, <1>21, <1>22, <2>1
<1>24. Len(assessments') = k - 1
  BY <1>3, <1>22
<1>25. CASE k <= AnalyzedOf(tools)
  <2>1. k \in 1..AnalyzedOf(tools)
    BY <1>2, <1>3, <1>25
  <2>2. /\ Len(tools[k].fields) \in Nat
        /\ DOMAIN tools[k].fields = 1..Len(tools[k].fields)
    BY <1>1, <2>1, InterfaceIs
  <2>3. ToolInv(tools, k, field', loops', scan')
    <3>1. 1 \in 1..(Len(tools[k].fields) + 2) /\ 1 # Len(tools[k].fields) + 2
      BY <2>2
    <3>2. \A g \in DOMAIN tools[k].fields : ~(g < 1)
      BY <2>2
    <3> QED
      BY <1>6, <1>12, <3>1, <3>2 DEF ToolInv
  <2>4. loops' \in Loops
    BY <1>6 DEF ClaimsInv
  <2> QED
    BY <1>1, <1>3, <1>6, <1>16, <1>18, <1>22, <1>23, <1>24, <1>25, <2>3, <2>4
    DEF ClaimsInv
<1>26. CASE ~(k <= AnalyzedOf(tools))
  <2>1. loops' \in Loops
    BY <1>6 DEF ClaimsInv
  <2> QED
    BY <1>1, <1>3, <1>6, <1>16, <1>18, <1>22, <1>23, <1>24, <1>26, <2>1
    DEF ClaimsInv
<1> QED
  BY <1>25, <1>26

(* An analysis starts with the invariant.                                   *)
LEMMA ClaimsInitially ==
  ASSUME ClaimsInit
  PROVE  ClaimsInv
<1> DEFINE zero == 0
           none == NoEvidence
           nothing == <<>>
           empty == {}
           fresh == [nodes |-> zero, characters |-> zero, evidence |-> none,
                     truncations |-> nothing, reported |-> empty,
                     omitted |-> zero, allNodes |-> zero,
                     allCharacters |-> zero]
           at == <<AnalyzedOf(tools) + 1>>
           reason == "tool_limit"
           t == Truncation(at, reason)
           r == empty \union {t}
           ts == Append(nothing, t)
<1>1. tools \in Interfaces
  BY DEF ClaimsInit
<1>2. AnalyzedOf(tools) \in Nat /\ Len(tools) \in Nat
  BY <1>1, AnalyzedIs
<1>3. AnalyzedTools = AnalyzedOf(tools)
  BY DEF AnalyzedTools, AnalyzedOf
<1>4. scan = IF Len(tools) > AnalyzedOf(tools) THEN Truncate(fresh, at, reason)
             ELSE fresh
  BY <1>3 DEF ClaimsInit
<1>5. zero = 0 /\ empty = {} /\ nothing = <<>>
  OBVIOUS
<1>6. EvidenceSound(none, 1)
  <2>1. IsFiniteSet({}) /\ Cardinality({}) = 0
    BY FS_EmptySet
  <2>2. MaxEvidence \in Nat
    BY ClaimLimitsAssumption
  <2> QED
    BY <2>1, <2>2 DEF EvidenceSound, NoEvidence
<1>7. t = ToolLimit(tools)
  BY DEF ToolLimit
<1>8. MaxSchemaNodes \in Nat /\ MaxSchemaTextCharacters \in Nat
      /\ MaxTruncations \in Nat \ {0}
  BY ClaimLimitsAssumption
<1>9. fresh = ScanOf(zero, zero, none, nothing, empty, zero, zero, zero)
  BY DEF ScanOf
<1>10. /\ Truncate(fresh, at, reason)
            = IF t \in fresh.reported THEN fresh
              ELSE IF Len(fresh.truncations) >= MaxTruncations
              THEN [fresh EXCEPT !.reported = @ \union {t}, !.omitted = @ + 1]
              ELSE [fresh EXCEPT !.reported = fresh.reported \union {t},
                                 !.truncations = Append(fresh.truncations, t)]
  BY DEF Truncate, Truncation
<1> HIDE DEF zero, none, fresh, at, reason, t
<1>11. /\ fresh.nodes = zero /\ fresh.characters = zero
       /\ fresh.evidence = none /\ fresh.truncations = nothing
       /\ fresh.reported = empty /\ fresh.omitted = zero
       /\ fresh.allNodes = zero /\ fresh.allCharacters = zero
       /\ IsScanRecord(fresh)
  BY <1>9, ScanOfIs
<1>12. /\ scan.nodes = 0 /\ scan.characters = 0 /\ scan.evidence = none
       /\ scan.omitted = 0 /\ scan.allNodes = 0 /\ scan.allCharacters = 0
       /\ IsScanRecord(scan) /\ TruncationsInv(tools, scan)
  <2>1. CASE Len(tools) > AnalyzedOf(tools)
    <3>1. Truncate(fresh, at, reason)
            = [fresh EXCEPT !.reported = r, !.truncations = ts]
      BY <1>5, <1>8, <1>10, <1>11
    <3>2. /\ ts \in Seq(r) /\ Len(ts) = 1 /\ ts[1] = t /\ r = {t}
      <4>1. nothing \in Seq(r) /\ t \in r /\ Len(nothing) = 0
        OBVIOUS
      <4>2. /\ ts \in Seq(r) /\ Len(ts) = Len(nothing) + 1
            /\ ts[Len(nothing) + 1] = t
        BY <4>1, AppendProperties
      <4> QED
        BY <4>1, <4>2
    <3> HIDE DEF r, ts, nothing
    <3>3. scan = WithReport(fresh, r, ts)
      BY <1>4, <2>1, <3>1 DEF WithReport
    <3>4. scan = ScanOf(fresh.nodes, fresh.characters, fresh.evidence, ts, r,
                        fresh.omitted, fresh.allNodes, fresh.allCharacters)
      BY <1>11, <3>3, WithReportIs
    <3>5. /\ scan.nodes = zero /\ scan.characters = zero
          /\ scan.evidence = none /\ scan.truncations = ts
          /\ scan.reported = r /\ scan.omitted = zero
          /\ scan.allNodes = zero /\ scan.allCharacters = zero
          /\ IsScanRecord(scan)
      BY <1>11, <3>4, ScanOfIs
    <3>6. Reportable(tools, t)
      <4>1. t.pointer = at /\ t.reason = reason
        BY DEF t, Truncation
      <4> QED
        BY <1>7, <2>1, <4>1 DEF Reportable, t
    <3>7. Stores(scan, t)
      <4>1. Len(ts) = 1 /\ ts[1] = t
        BY <3>2
      <4>2. scan.truncations = ts
        BY <3>5
      <4>3. 1 \in 1..Len(ts)
        BY <4>1
      <4>4. \E n \in 1..Len(ts) : ts[n] = t
        BY <4>1, <4>3
      <4> HIDE DEF t
      <4> QED
        BY <4>2, <4>4 DEF Stores
    <3>9. TruncationsInv(tools, scan)
      <4>1. /\ scan.truncations \in Seq(scan.reported)
            /\ scan.reported = {t} /\ Len(scan.truncations) = 1
            /\ scan.omitted = 0
        BY <1>5, <3>2, <3>5
      <4>2. \A m, n \in 1..Len(scan.truncations) : m = n
        BY <4>1
      <4>3. \A x \in scan.reported : x = t
        BY <4>1
      <4> QED
        BY <1>7, <1>8, <3>6, <3>7, <4>1, <4>2, <4>3 DEF TruncationsInv
    <3> QED
      BY <1>5, <3>5, <3>9
  <2>2. CASE ~(Len(tools) > AnalyzedOf(tools))
    <3>1. scan = fresh
      BY <1>4, <2>2
    <3>2. scan.truncations \in Seq(scan.reported) /\ Len(scan.truncations) = 0
      <4>1. nothing \in Seq(empty) /\ Len(nothing) = 0
        OBVIOUS
      <4> HIDE DEF nothing, empty
      <4> QED
        BY <1>11, <3>1, <4>1
    <3>3. TruncationsInv(tools, scan)
      BY <1>5, <1>8, <1>11, <2>2, <3>1, <3>2 DEF TruncationsInv
    <3> QED
      BY <1>5, <1>11, <3>1, <3>3
  <2> QED
    BY <2>1, <2>2
<1>13. tool = 1 /\ field = 1 /\ loops = <<>> /\ assessments = <<>>
  BY DEF ClaimsInit
<1>14. IsScan(tools, tool, scan)
  BY <1>6, <1>8, <1>12, <1>13 DEF IsScan
<1>15. BudgetsInv(tool, scan)
  BY <1>8, <1>12, <1>13 DEF BudgetsInv
<1>16. loops \in Loops
  BY <1>13 DEF Loops
<1>17. assessments \in Seq({}) /\ Len(assessments) = tool - 1
  BY <1>13
<1>18. ASSUME tool <= AnalyzedOf(tools)
       PROVE  ToolInv(tools, tool, field, loops, scan)
  <2>1. tool \in 1..AnalyzedOf(tools)
    BY <1>2, <1>13, <1>18
  <2>2. /\ Len(tools[tool].fields) \in Nat
        /\ DOMAIN tools[tool].fields = 1..Len(tools[tool].fields)
    BY <1>1, <2>1, InterfaceIs
  <2>3. /\ field \in 1..(Len(tools[tool].fields) + 2)
        /\ field # Len(tools[tool].fields) + 2
        /\ \A g \in DOMAIN tools[tool].fields : ~(g < field)
    BY <1>13, <2>2
  <2> QED
    BY <1>12, <1>13, <2>3 DEF ToolInv
<1>19. tool \in 1..(AnalyzedOf(tools) + 1) /\ 1..(tool - 1) = {}
  BY <1>2, <1>13
<1> QED
  BY <1>1, <1>13, <1>14, <1>15, <1>16, <1>17, <1>18, <1>19 DEF ClaimsInv


(* Every step of the analysis keeps the invariant.                          *)
LEMMA ClaimsStep ==
  ASSUME ClaimsInv, [ClaimsNext]_claimVars
  PROVE  ClaimsInv'
<1>1. CASE UNCHANGED claimVars
  <2>1. /\ tools' = tools /\ tool' = tool /\ field' = field /\ loops' = loops
        /\ scan' = scan /\ assessments' = assessments
    BY <1>1 DEF claimVars
  <2> QED
    BY <2>1 DEF ClaimsInv
<1>2. CASE ScanFieldNext
  BY <1>2, FieldScanned
<1>3. CASE VisitRoot
  BY <1>3, RootVisited
<1>4. CASE ToolAnalysed
  BY <1>4, ToolDone
<1>5. ASSUME NEW q, NEW i, SkipLongKey(q, i)
      PROVE  ClaimsInv'
  BY <1>5, LongKeySkipped
<1>6. ASSUME NEW q, NEW i, VisitChild(q, i)
      PROVE  ClaimsInv'
  BY <1>6, ChildVisited
<1>7. ASSUME NEW q, NEW i, LoopEnds(q, i)
      PROVE  ClaimsInv'
  BY <1>7, LoopEnded
<1> QED
  BY <1>1, <1>2, <1>3, <1>4, <1>5, <1>6, <1>7 DEF ClaimsNext

(* The inductive invariant of the extraction of claims: what is behind the *)
(* scan is known, what is not is under an open loop.                        *)
THEOREM ClaimsInvariant == ClaimsSpec => []ClaimsInv
<1>1. ClaimsInit => ClaimsInv
  BY ClaimsInitially
<1>2. ClaimsInv /\ [ClaimsNext]_claimVars => ClaimsInv'
  BY ClaimsStep
<1> QED
  BY <1>1, <1>2, PTL DEF ClaimsSpec

(* What the assessments of the analysed tools know of the texts.            *)
LEMMA TextsKnown ==
  ASSUME ClaimsInv, Extracted, NEW k \in DOMAIN tools,
         NEW x \in FieldTexts(k) \union SchemaTexts(k),
         NEW c \in DOMAIN x.text.claims
  PROVE  \/ /\ k <= AnalyzedTools
            /\ <<x.at, x.source>> \in assessments[k].claims[c]
         \/ Told(scan, x.at)
<1> DEFINE A == AnalyzedOf(tools)
           tree == tools[k].schema
           fields == tools[k].fields
<1>1. tools \in Interfaces /\ IsScan(tools, tool, scan)
  BY DEF ClaimsInv
<1>2. /\ A \in Nat /\ Len(tools) \in Nat /\ k \in 1..Len(tools) /\ A <= Len(tools)
      /\ tool \in 1..(A + 1) /\ AnalyzedTools = A
  BY <1>1, AnalyzedIs DEF ClaimsInv, AnalyzedOf, AnalyzedTools
<1>3. tool = A + 1
  BY <1>2 DEF Extracted
<1>4. /\ fields \in Seq(Range(fields)) /\ IsSchema(tree)
  BY <1>1, InterfacesAssumption
<1>5. \/ \E f \in DOMAIN fields :
           x = [at |-> <<k, f>>, source |-> "field_value", text |-> fields[f]]
      \/ \E p \in DOMAIN tree :
           /\ tree[p].kind = "string" /\ ~UnderIgnoredKey(tree, p)
           /\ x = [at |-> <<k, 0>> \o p, source |-> "schema_value",
                   text |-> tree[p].text]
      \/ \E p \in DOMAIN tree \ {<<>>} :
           /\ tree[Front(p)].kind = "object" /\ ~tree[p].structural
           /\ x = [at |-> <<k, 0>> \o p, source |-> "schema_key",
                   text |-> tree[p].key]
  BY DEF FieldTexts, SchemaTexts
<1>6. CASE k <= A
  <2>1. k \in 1..(tool - 1)
    BY <1>2, <1>3, <1>6
  <2>2. AssessmentSound(tools, k, assessments[k], scan)
    BY <2>1 DEF ClaimsInv
  <2>3. Seen(assessments[k].claims, scan, x.at, x.source, x.text)
    <3>1. ASSUME NEW f \in DOMAIN fields,
                 x = [at |-> <<k, f>>, source |-> "field_value",
                      text |-> fields[f]]
          PROVE  Seen(assessments[k].claims, scan, x.at, x.source, x.text)
      <4>1. x.at = <<k, f>> /\ x.source = "field_value" /\ x.text = fields[f]
        BY <3>1
      <4>2. FieldSeen(tools, k, assessments[k].claims, scan, f)
        BY <2>2 DEF AssessmentSound
      <4> QED
        BY <4>1, <4>2 DEF FieldSeen
    <3>2. ASSUME NEW p \in DOMAIN tree,
                 tree[p].kind = "string", ~UnderIgnoredKey(tree, p),
                 x = [at |-> <<k, 0>> \o p, source |-> "schema_value",
                      text |-> tree[p].text]
          PROVE  Seen(assessments[k].claims, scan, x.at, x.source, x.text)
      <4>1. /\ x.at = <<k, 0>> \o p /\ x.source = "schema_value"
            /\ x.text = tree[p].text
        BY <3>2
      <4>2. ValueSeen(tools, k, assessments[k].claims, scan, p)
        BY <2>2 DEF AssessmentSound, NodeSeen
      <4> QED
        BY <3>2, <4>1, <4>2 DEF ValueSeen
    <3>3. ASSUME NEW p \in DOMAIN tree, p # <<>>,
                 tree[Front(p)].kind = "object", ~tree[p].structural,
                 x = [at |-> <<k, 0>> \o p, source |-> "schema_key",
                      text |-> tree[p].key]
          PROVE  Seen(assessments[k].claims, scan, x.at, x.source, x.text)
      <4>1. /\ x.at = <<k, 0>> \o p /\ x.source = "schema_key"
            /\ x.text = tree[p].key
        BY <3>3
      <4>2. KeySeen(tools, k, assessments[k].claims, scan, p)
        BY <2>2 DEF AssessmentSound, NodeSeen
      <4> QED
        BY <3>3, <4>1, <4>2 DEF KeySeen
    <3> QED
      BY <1>5, <3>1, <3>2, <3>3
  <2> QED
    BY <1>2, <1>6, <2>3 DEF Seen
<1>7. CASE ~(k <= A)
  <2>1. x.at \in Seq(Nat) /\ Len(x.at) \in Nat /\ Len(x.at) >= 1 /\ x.at[1] = k
    <3>1. k \in Nat
      BY <1>2
    <3>2. ASSUME NEW f \in DOMAIN fields, x.at = <<k, f>>
          PROVE  x.at \in Seq(Nat) /\ Len(x.at) >= 1 /\ x.at[1] = k
      <4>1. f \in Nat
        BY <1>4, LenProperties
      <4> QED
        BY <3>1, <3>2, <4>1
    <3>3. ASSUME NEW p \in DOMAIN tree, x.at = <<k, 0>> \o p
          PROVE  x.at \in Seq(Nat) /\ Len(x.at) >= 1 /\ x.at[1] = k
      <4>1. p \in Seq(Nat) /\ Len(p) \in Nat
        BY <1>4, PositionIs
      <4>2. /\ <<k, 0>> \o p \in Seq(Nat) /\ Len(<<k, 0>> \o p) = Len(p) + 2
            /\ (<<k, 0>> \o p)[1] = k
        BY <3>1, <4>1, PointerIs
      <4> QED
        BY <3>3, <4>1, <4>2
    <3>4. \/ \E f \in DOMAIN fields : x.at = <<k, f>>
          \/ \E p \in DOMAIN tree : x.at = <<k, 0>> \o p
      <4>1. ASSUME NEW f \in DOMAIN fields, NEW source, NEW text,
                   x = [at |-> <<k, f>>, source |-> source, text |-> text]
            PROVE  x.at = <<k, f>>
        BY <4>1
      <4>2. ASSUME NEW p \in DOMAIN tree, NEW source, NEW text,
                   x = [at |-> <<k, 0>> \o p, source |-> source, text |-> text]
            PROVE  x.at = <<k, 0>> \o p
        BY <4>2
      <4>3. CASE \E f \in DOMAIN fields :
                   x = [at |-> <<k, f>>, source |-> "field_value",
                        text |-> fields[f]]
        BY <4>1, <4>3
      <4>4. CASE \E p \in DOMAIN tree :
                   x = [at |-> <<k, 0>> \o p, source |-> "schema_value",
                        text |-> tree[p].text]
        BY <4>2, <4>4
      <4>5. CASE \E p \in DOMAIN tree :
                   x = [at |-> <<k, 0>> \o p, source |-> "schema_key",
                        text |-> tree[p].key]
        BY <4>2, <4>5
      <4> QED
        BY <1>5, <4>3, <4>4, <4>5
    <3> QED
      BY <3>2, <3>3, <3>4, LenProperties
  <2> DEFINE t == ToolLimit(tools)
             e == A + 1
             q == <<e>>
  <2>2. t.pointer = q /\ t.reason \in {"tool_limit", "schema_node_limit"}
    BY DEF ToolLimit, Truncation
  <2>3. Stores(scan, t)
    BY <1>1, <1>2, <1>7 DEF IsScan, TruncationsInv
  <2> HIDE DEF t
  <2>4. e \in Nat /\ e <= k
    BY <1>2, <1>7
  <2> HIDE DEF e
  <2>5. Len(q) = 1 /\ q[1] = e
    OBVIOUS
  <2>6. Front(q) = <<>>
    <3>1. q \in Seq(Nat)
      BY <2>4
    <3>2. SubSeq(q, 1, 0) = <<>>
      BY SubSeqEmpty
    <3> QED
      BY <2>5, <3>2 DEF Front
  <2>7. IsPrefix(<<>>, x.at)
    <3>1. /\ SubSeq(<<>>, 1, 0) = <<>> /\ SubSeq(x.at, 1, 0) = <<>>
      BY SubSeqEmpty
    <3>2. Len(<<>>) = 0
      OBVIOUS
    <3> QED
      BY <2>1, <3>1, <3>2 DEF IsPrefix
  <2> HIDE DEF q
  <2>8. Covers(t, x.at)
    BY <2>1, <2>2, <2>4, <2>5, <2>6, <2>7 DEF Covers, Last
  <2> QED
    BY <2>3, <2>8 DEF Stores, Told
<1> QED
  BY <1>6, <1>7

(* The truncations are those that the schema of the artifact accepts.       *)
LEMMA StoredAccepted ==
  ASSUME ClaimsInv
  PROVE  TruncationsAccepted
<1> DEFINE held == scan.truncations
           limit == "tool_limit"
           ofTools == {n \in DOMAIN held : held[n].reason = limit}
           A == AnalyzedOf(tools)
           t == ToolLimit(tools)
<1>1. TruncationsInv(tools, scan)
  BY DEF ClaimsInv, IsScan
<1>2. AnalyzedTools = A
  BY DEF AnalyzedTools, AnalyzedOf
<1>3. /\ held \in Seq(scan.reported) /\ Len(held) \in Nat
      /\ DOMAIN held = 1..Len(held)
  BY <1>1, LenProperties DEF TruncationsInv
<1>4. \A n \in DOMAIN held : Reportable(tools, held[n])
  BY <1>1, <1>3, ElementOfSeq DEF TruncationsInv
<1>5. t.pointer = <<A + 1>> /\ t.reason = limit
  BY DEF ToolLimit, Truncation
<1>6. limit = "tool_limit"
  OBVIOUS
<1> HIDE DEF limit, t
<1>7. ASSUME NEW n \in DOMAIN held
      PROVE  \/ /\ held[n].reason # limit
                /\ Len(held[n].pointer) > 1 /\ held[n].pointer[1] <= A
             \/ held[n] = t /\ Len(tools) > A
  BY <1>4, <1>6 DEF Reportable, InATool, t
<1> HIDE DEF A
<1>8. IsInjective(held)
  BY <1>1, <1>3 DEF IsInjective, TruncationsInv
<1>9. /\ \A n \in ofTools : held[n].pointer = <<A + 1>>
      /\ \A n \in DOMAIN held \ ofTools :
           Len(held[n].pointer) > 1 /\ held[n].pointer[1] <= A
  BY <1>5, <1>7
<1>10. Cardinality(ofTools) = IF Len(tools) > A THEN 1 ELSE 0
  <2>1. CASE Len(tools) > A
    <3>1. PICK n \in 1..Len(held) : held[n] = t
      BY <1>1, <2>1 DEF TruncationsInv, Stores, A, t
    <3>2. n \in ofTools
      BY <1>3, <1>5, <3>1
    <3>3. \A m \in ofTools : held[m] = t
      BY <1>7
    <3>4. \A m \in ofTools : m = n
      BY <1>8, <1>3, <3>1, <3>3 DEF IsInjective
    <3>5. ofTools = {n}
      BY <3>2, <3>4
    <3> HIDE DEF ofTools
    <3>6. Cardinality(ofTools) = 1
      BY <3>5, FS_Singleton
    <3> QED
      BY <2>1, <3>6
  <2>2. CASE ~(Len(tools) > A)
    <3>1. ofTools = {}
      BY <1>5, <1>7, <2>2
    <3> HIDE DEF ofTools
    <3>2. Cardinality(ofTools) = 0
      BY <3>1, FS_EmptySet
    <3> QED
      BY <2>2, <3>2
  <2> QED
    BY <2>1, <2>2
<1>11. /\ Len(held) <= MaxTruncations
       /\ scan.omitted > 0 => Len(held) = MaxTruncations
  BY <1>1 DEF TruncationsInv
<1> QED
  BY <1>2, <1>6, <1>8, <1>9, <1>10, <1>11 DEF TruncationsAccepted, limit

(* mcpInterfaceClaimAnalysisV1Schema accepts the finished analysis.         *)
LEMMA ArtifactAccepted ==
  ASSUME ClaimsInv, Extracted
  PROVE  AssessmentsAccepted /\ AnnotationsAccepted /\ BudgetsAccepted
<1> DEFINE A == AnalyzedOf(tools)
<1>1. A \in Nat /\ tool \in 1..(A + 1) /\ AnalyzedTools = A
  BY AnalyzedIs DEF ClaimsInv, AnalyzedOf, AnalyzedTools
<1>2. tool = A + 1
  BY <1>1 DEF Extracted
<1> HIDE DEF A
<1>3. DOMAIN assessments = 1..A
  <2>1. DOMAIN assessments = 1..Len(assessments)
    BY LenProperties DEF ClaimsInv
  <2>2. Len(assessments) = A
    BY <1>1, <1>2 DEF ClaimsInv
  <2> QED
    BY <2>1, <2>2
<1>4. \A k \in DOMAIN assessments : AssessmentSound(tools, k, assessments[k], scan)
  BY <1>1, <1>2, <1>3 DEF ClaimsInv
<1>5. AssessmentsAccepted
  BY <1>1, <1>3, <1>4 DEF AssessmentsAccepted, AssessmentSound, EvidenceSound
<1>6. AnnotationsAccepted
  BY <1>4 DEF AnnotationsAccepted, AssessmentSound
<1>7. BudgetsAccepted
  <2>1. BudgetsInv(A + 1, scan)
    BY <1>2 DEF ClaimsInv
  <2>2. A + 1 - 1 = A
    BY <1>1
  <2> QED
    BY <1>1, <2>1, <2>2 DEF BudgetsInv, BudgetsAccepted
<1> QED
  BY <1>5, <1>6, <1>7

(* extractMcpInterfaceClaims() misses no claim silently, for any interface *)
(* and any limits: what a text affirms is identified from that text, or a  *)
(* truncation speaks of that place, or truncations were left out; and the  *)
(* artifact satisfies the schema it is parsed with.                         *)
THEOREM NothingMissedHolds == ClaimsSpec => []NothingMissedSilently
<1>1. ClaimsInv => NothingMissedSilently
  <2> SUFFICES ASSUME ClaimsInv, Extracted
               PROVE  /\ \A t \in DOMAIN tools :
                           \A x \in FieldTexts(t) \union SchemaTexts(t) :
                             \A c \in DOMAIN x.text.claims :
                               \/ /\ t <= AnalyzedTools
                                  /\ <<x.at, x.source>> \in assessments[t].claims[c]
                               \/ \E u \in Range(scan.truncations) :
                                    Covers(u, x.at)
                               \/ scan.omitted > 0
                      /\ AssessmentsAccepted /\ AnnotationsAccepted
                      /\ TruncationsAccepted /\ BudgetsAccepted
    BY DEF NothingMissedSilently
  <2>1. DOMAIN scan.truncations = 1..Len(scan.truncations)
    BY LenProperties DEF ClaimsInv, IsScan, TruncationsInv
  <2>2. ASSUME NEW at, Told(scan, at)
        PROVE  \/ \E u \in Range(scan.truncations) : Covers(u, at)
               \/ scan.omitted > 0
    BY <2>1, <2>2 DEF Told, Range
  <2>3. /\ AssessmentsAccepted /\ AnnotationsAccepted
        /\ TruncationsAccepted /\ BudgetsAccepted
    BY ArtifactAccepted, StoredAccepted
  <2> QED
    BY <2>2, <2>3, TextsKnown
<1> QED
  BY <1>1, ClaimsInvariant, PTL

-----------------------------------------------------------------------------
(* IsAtOrAbove and NotBefore, position by position.                        *)
Above(q, p) == Len(q) <= Len(p) /\ \A i \in 1..Len(q) : p[i] = q[i]
After(p, q) ==
  \E n \in 1..Len(p) : /\ n <= Len(q) /\ p[n] > q[n]
                       /\ \A i \in 1..(n - 1) : p[i] = q[i]

(* What the walk has still to look at: what is below a directory that was  *)
(* entered, under the names that are left of it.                           *)
Awaits(w, p) ==
  /\ Len(w.at) < Len(p) /\ Above(w.at, p)
  /\ w.listed => p[Len(w.at) + 1] \in w.rest

AwaitedIn(frames, p) == \E i \in 1..Len(frames) : Awaits(frames[i], p)
AwaitedAt(firsts, p) == \E i \in 1..Len(firsts) : firsts[i] = p[1]

(* All that w awaits comes after q.                                        *)
Behind(w, q) ==
  \/ /\ w.listed /\ Len(w.at) < Len(q) /\ Above(w.at, q)
     /\ \A r \in w.rest : q[Len(w.at) + 1] < r
  \/ w.at = <<2>> /\ q[1] = 1

Frames == [at : Seq(Nat), listed : BOOLEAN, rest : SUBSET Nat]

NamesIn(tree, q) ==
  {p[Len(p)] : p \in {r \in DOMAIN tree :
     Len(r) = Len(q) + 1 /\ SubSeq(r, 1, Len(q)) = q}}

WalkSound(frames, tree) ==
  /\ frames \in Seq(Frames)
  /\ \A i \in 1..Len(frames) :
       /\ frames[i].at \in DOMAIN tree
       /\ frames[i].rest \subseteq NamesIn(tree, frames[i].at)
  /\ \A i, j \in 1..Len(frames) : i < j => Behind(frames[i], frames[j].at)

(* The roots come before everything.                                       *)
RootsInv ==
  \/ roots = <<1, 2>> /\ walk = <<>> /\ DOMAIN context.entries = {}
  \/ /\ roots = <<2>> /\ walk \in {<<>>, <<Entered(<<1>>)>>}
     /\ DOMAIN context.entries \subseteq {<<1>>}
  \/ roots = <<>>

ContextOf(e, i, t, v, h, s) ==
  [entries |-> e, issues |-> i, truncations |-> t, visited |-> v,
   hashBytes |-> h, stopped |-> s]

IsContext(c) ==
  /\ c = ContextOf(c.entries, c.issues, c.truncations, c.visited, c.hashBytes,
                   c.stopped)
  /\ c.stopped \in BOOLEAN
  /\ IsFiniteSet(c.issues) /\ Cardinality(c.issues) <= limits.maxIssues

EntriesSound(c, tree) ==
  /\ DOMAIN c.entries \subseteq Visible(tree) /\ IsFiniteSet(DOMAIN c.entries)
  /\ \A p \in DOMAIN c.entries : Faithful(c, p, tree[p], c.entries[p])

(* Nothing is forgotten: what is neither retained nor explained is still   *)
(* to come.                                                                *)
Accounts(c, tree, firsts, frames) ==
  \A p \in Visible(tree) \ DOMAIN c.entries :
    \/ Explained(c, p)
    \/ ~c.stopped /\ (AwaitedAt(firsts, p) \/ AwaitedIn(frames, p))

CapturingInv ==
  /\ IsContext(context) /\ WalkSound(walk, Tree) /\ RootsInv
  /\ EntriesSound(context, Tree)
  /\ Cardinality(DOMAIN context.entries) <= limits.maxEntries
  /\ Accounts(context, Tree, roots, walk)

(* The snapshots that were taken, what was made of them and what is        *)
(* stored.                                                                 *)
SnapshotsInv ==
  /\ \E S : snapshots \in Seq(S)
  /\ Len(snapshots) <= 2
  /\ \A n \in 1..Len(snapshots) :
       /\ SnapshotHonest(snapshots[n], trees[n])
       /\ snapshots[n].complete <=>
            snapshots[n].issues = {} /\ snapshots[n].truncations = {}
  /\ \A d \in difference :
       Len(snapshots) = 2 /\ d = Diff(snapshots[1], snapshots[2])
  /\ stored \in {{}, {"before"}, {"before", "after"}, {"before", "after", "delta"}}

CaptureInv ==
  /\ trees \in Profiles /\ limits \in CaptureLimits
  /\ Capturing => CapturingInv
  /\ SnapshotsInv

-----------------------------------------------------------------------------
(* The first name of a directory exists.                                   *)
LEMMA LeastName ==
  ASSUME NEW S \in SUBSET Nat, S # {}
  PROVE  \E n \in S : \A m \in S : n <= m
<1>1. IsWellFoundedOn(OpToRel(<, Nat), Nat)
  BY NatLessThanWellFounded
<1>2. PICK n \in S : \A m \in S : ~ (<<m, n>> \in OpToRel(<, Nat))
  BY <1>1, WFMin
<1>3. \A m \in S : ~ (m < n)
  BY <1>2 DEF OpToRel
<1> QED
  BY <1>3

(* Prefixes of a position.                                                 *)
LEMMA PrefixIs ==
  ASSUME NEW p \in Seq(Nat), NEW m \in 0..Len(p)
  PROVE  /\ SubSeq(p, 1, m) \in Seq(Nat) /\ Len(SubSeq(p, 1, m)) = m
         /\ \A i \in 1..m : SubSeq(p, 1, m)[i] = p[i]
<1>1. \A i \in 1..m : p[i] \in Nat
  BY LenProperties
<1> QED
  BY <1>1, SubSeqProperties

(* Positions that agree up to m have one prefix of that length.            *)
LEMMA SamePrefix ==
  ASSUME NEW p \in Seq(Nat), NEW q \in Seq(Nat),
         NEW m \in 0..Len(p), m <= Len(q), \A i \in 1..m : p[i] = q[i]
  PROVE  SubSeq(p, 1, m) = SubSeq(q, 1, m)
<1>1. m \in 0..Len(q)
  BY LenProperties
<1>2. /\ SubSeq(p, 1, m) \in Seq(Nat) /\ Len(SubSeq(p, 1, m)) = m
      /\ \A i \in 1..m : SubSeq(p, 1, m)[i] = p[i]
  BY PrefixIs
<1>3. /\ SubSeq(q, 1, m) \in Seq(Nat) /\ Len(SubSeq(q, 1, m)) = m
      /\ \A i \in 1..m : SubSeq(q, 1, m)[i] = q[i]
  BY <1>1, PrefixIs
<1> QED
  BY <1>2, <1>3, SeqEqual

(* The positions of the model, compared element by element.                *)
LEMMA PositionAbove ==
  ASSUME NEW p \in Seq(Nat), NEW q \in Seq(Nat)
  PROVE  Above(q, p) <=> IsAtOrAbove(q, p)
<1>1. ASSUME Above(q, p)  PROVE IsAtOrAbove(q, p)
  <2>1. PICK m \in 0..Len(p) : m = Len(q)
    BY <1>1, LenProperties DEF Above
  <2>2. m <= Len(q) /\ \A i \in 1..m : p[i] = q[i]
    BY <1>1, <2>1, LenProperties DEF Above
  <2>3. SubSeq(p, 1, m) = SubSeq(q, 1, m)
    BY <2>2, SamePrefix
  <2> QED
    BY <1>1, <2>1, <2>3, SubSeqFull DEF Above, IsAtOrAbove
<1>2. ASSUME IsAtOrAbove(q, p)  PROVE Above(q, p)
  <2>1. Len(q) \in 0..Len(p)
    BY <1>2, LenProperties DEF IsAtOrAbove
  <2> QED
    BY <1>2, <2>1, PrefixIs DEF Above, IsAtOrAbove
<1> QED
  BY <1>1, <1>2

(* What the walk reaches at or after q is not before q.                    *)
LEMMA AfterIs ==
  ASSUME NEW p \in Seq(Nat), NEW q \in Seq(Nat),
         Len(q) = 1 \/ Above(q, p) \/ After(p, q)
  PROVE  NotBefore(p, q)
<1>1. CASE After(p, q)
  <2>1. PICK n \in 1..Len(p) : /\ n <= Len(q) /\ p[n] > q[n]
                               /\ \A i \in 1..(n - 1) : p[i] = q[i]
    BY <1>1 DEF After
  <2>2. SubSeq(p, 1, n - 1) = SubSeq(q, 1, n - 1)
    <3>1. n - 1 \in 0..Len(p) /\ n - 1 <= Len(q)
      BY <2>1, LenProperties
    <3> QED
      BY <2>1, <3>1, SamePrefix
  <2>3. n \in DOMAIN p \intersect DOMAIN q
    BY <2>1, LenProperties
  <2> QED
    BY <2>1, <2>2, <2>3 DEF NotBefore
<1> QED
  BY <1>1, PositionAbove DEF NotBefore

(* What is above an object of a tree is a directory of it.                 *)
LEMMA TreeShape ==
  ASSUME NEW tree, IsTree(tree), NEW p \in DOMAIN tree, NEW q \in Seq(Nat),
         q # <<>>, Above(q, p), Len(q) < Len(p)
  PROVE  q \in DOMAIN tree /\ tree[q].kind = "directory"
<1>1. p \in Seq(Nat)
  BY DEF IsTree
<1>2. Len(q) \in 1..(Len(p) - 1)
  <2>1. Len(q) \in Nat \ {0} /\ Len(p) \in Nat
    BY <1>1, EmptySeq, LenProperties
  <2> QED
    BY <2>1
<1>3. SubSeq(p, 1, Len(q)) = q
  BY <1>1, PositionAbove DEF IsAtOrAbove
<1>4. \A m \in 1..(Len(p) - 1) :
        /\ SubSeq(p, 1, m) \in DOMAIN tree
        /\ tree[SubSeq(p, 1, m)].kind = "directory"
  BY DEF IsTree
<1> QED
  BY <1>2, <1>3, <1>4

-----------------------------------------------------------------------------
(* What is recorded only adds to what is explained.                        *)
Extends(d, c) ==
  c.issues \subseteq d.issues /\ c.truncations \subseteq d.truncations

(* What was explained stays explained.                                    *)
LEMMA ExplainedKept ==
  ASSUME NEW c, NEW d, Extends(d, c), NEW p, Explained(c, p)
  PROVE  Explained(d, p)
  BY DEF Extends, Explained

(* A context that is stopped at a position explains all that comes after.  *)
StoppedAt(c, q) ==
  \E t \in c.truncations : /\ t[1] = q
                           /\ t[2] \in {"elapsed_time_limit", "visited_entry_limit",
                                       "entry_limit", "issue_limit"}

(* What comes after the position of a stop is explained by it.             *)
LEMMA StopExplains ==
  ASSUME NEW c, NEW p \in Seq(Nat), NEW q \in Seq(Nat), StoppedAt(c, q),
         Len(q) = 1 \/ Above(q, p) \/ After(p, q)
  PROVE  Explained(c, p)
<1>1. NotBefore(p, q)
  BY AfterIs
<1> QED
  BY <1>1 DEF StoppedAt, Explained

(* What lies below the position of an issue is explained by it.            *)
LEMMA IssueExplains ==
  ASSUME NEW c, NEW p \in Seq(Nat), NEW q \in Seq(Nat), Above(q, p),
         q \in c.issues \/ StoppedAt(c, q)
  PROVE  Explained(c, p)
<1>1. IsAtOrAbove(q, p)
  BY PositionAbove
<1> QED
  BY <1>1, StopExplains DEF Explained

(* What the steps of a capture make of its context.                        *)
Moved(c, d, q) ==
  /\ IsContext(d) /\ Extends(d, c) /\ d.entries = c.entries
  /\ d.stopped => StoppedAt(d, q)

(* The record of a capture, with its fields named.                         *)
LEMMA IsContextOf ==
  ASSUME NEW c, NEW e, NEW i, NEW t, NEW v, NEW h, NEW s \in BOOLEAN,
         c = ContextOf(e, i, t, v, h, s),
         IsFiniteSet(i), Cardinality(i) <= limits.maxIssues
  PROVE  /\ IsContext(c)
         /\ c.entries = e /\ c.issues = i /\ c.truncations = t
         /\ c.visited = v /\ c.hashBytes = h /\ c.stopped = s
<1>1. /\ c.entries = e /\ c.issues = i /\ c.truncations = t
      /\ c.visited = v /\ c.hashBytes = h /\ c.stopped = s
  BY DEF ContextOf
<1> QED
  BY <1>1 DEF IsContext

(* recordTruncation() adds one truncation and touches nothing else.        *)
LEMMA TruncatedIs ==
  ASSUME NEW c, IsContext(c), NEW q, NEW reason
  PROVE  Truncated(c, q, reason)
           = ContextOf(c.entries, c.issues, c.truncations \union {<<q, reason>>},
                       c.visited, c.hashBytes, c.stopped)
<1> DEFINE x == c.truncations \union {<<q, reason>>}
           d == ContextOf(c.entries, c.issues, c.truncations, c.visited,
                          c.hashBytes, c.stopped)
<1>1. c = d
  BY DEF IsContext
<1> HIDE DEF x
<1>2. [d EXCEPT !.truncations = x]
        = ContextOf(c.entries, c.issues, x, c.visited, c.hashBytes, c.stopped)
  BY DEF ContextOf
<1>3. Truncated(c, q, reason) = [c EXCEPT !.truncations = x]
  BY DEF Truncated, x
<1> HIDE DEF d
<1> QED
  BY <1>1, <1>2, <1>3 DEF x

(* A stop is a truncation after which nothing is looked at.                *)
LEMMA StoppedIs ==
  ASSUME NEW c, IsContext(c), NEW q, NEW reason, NEW s, s = TRUE
  PROVE  Stopped(c, q, reason)
           = ContextOf(c.entries, c.issues, c.truncations \union {<<q, reason>>},
                       c.visited, c.hashBytes, s)
<1> DEFINE x == c.truncations \union {<<q, reason>>}
           d == ContextOf(c.entries, c.issues, x, c.visited, c.hashBytes,
                          c.stopped)
<1>1. Truncated(c, q, reason) = d
  BY TruncatedIs
<1>2. Stopped(c, q, reason) = [Truncated(c, q, reason) EXCEPT !.stopped = s]
  BY DEF Stopped
<1> HIDE DEF x
<1>3. [d EXCEPT !.stopped = s]
        = ContextOf(c.entries, c.issues, x, c.visited, c.hashBytes, s)
  <2> DEFINE z == s
  <2> HIDE DEF z
  <2>1. [d EXCEPT !.stopped = z]
          = ContextOf(c.entries, c.issues, x, c.visited, c.hashBytes, z)
    BY DEF ContextOf
  <2> QED
    BY <2>1 DEF z
<1> HIDE DEF d
<1> QED
  BY <1>1, <1>2, <1>3 DEF x

(* Every stop leaves the position it happened at.                          *)
LEMMA Stops ==
  ASSUME NEW c, IsContext(c), NEW q,
         NEW reason \in {"elapsed_time_limit", "visited_entry_limit",
                         "entry_limit", "issue_limit"}
  PROVE  /\ Moved(c, Stopped(c, q, reason), q)
         /\ Stopped(c, q, reason).stopped /\ StoppedAt(Stopped(c, q, reason), q)
<1> DEFINE d == Stopped(c, q, reason)
           x == c.truncations \union {<<q, reason>>}
           s == TRUE
<1>1. d = ContextOf(c.entries, c.issues, x, c.visited, c.hashBytes, s)
  BY StoppedIs
<1>2. s \in BOOLEAN
  OBVIOUS
<1>3. IsFiniteSet(c.issues) /\ Cardinality(c.issues) <= limits.maxIssues
  BY DEF IsContext
<1> HIDE DEF d, x, s
<1>4. /\ IsContext(d) /\ d.entries = c.entries /\ d.issues = c.issues
      /\ d.truncations = x /\ d.stopped = s
  BY <1>1, <1>2, <1>3, IsContextOf
<1>5. StoppedAt(d, q)
  <2>1. <<q, reason>> \in d.truncations
    BY <1>4 DEF x
  <2> QED
    BY <2>1 DEF StoppedAt
<1>6. d.stopped
  BY <1>4 DEF s
<1>7. Moved(c, d, q)
  BY <1>4, <1>5 DEF Moved, Extends, x
<1> QED
  BY <1>5, <1>6, <1>7 DEF d

(* A truncation that is not a stop.                                        *)
LEMMA WalkTruncates ==
  ASSUME NEW c, IsContext(c), ~c.stopped, NEW q, NEW reason
  PROVE  /\ Moved(c, Truncated(c, q, reason), q)
         /\ ~Truncated(c, q, reason).stopped
         /\ <<q, reason>> \in Truncated(c, q, reason).truncations
<1> DEFINE d == Truncated(c, q, reason)
<1>1. d = ContextOf(c.entries, c.issues, c.truncations \union {<<q, reason>>},
                    c.visited, c.hashBytes, c.stopped)
  BY TruncatedIs
<1> HIDE DEF d
<1>2. /\ IsContext(d) /\ d.entries = c.entries /\ d.issues = c.issues
      /\ d.truncations = c.truncations \union {<<q, reason>>}
      /\ d.stopped = c.stopped
  BY <1>1, IsContextOf DEF IsContext
<1>3. Moved(c, d, q) /\ ~d.stopped /\ <<q, reason>> \in d.truncations
  BY <1>2 DEF Moved, Extends
<1> QED
  BY <1>3 DEF d

(* recordIssue(): the issue is kept, or the capture stops at its position. *)
LEMMA Issues ==
  ASSUME limits \in CaptureLimits, NEW c, IsContext(c), ~c.stopped, NEW q
  PROVE  /\ Moved(c, RecordIssue(c, q), q)
         /\ q \in RecordIssue(c, q).issues \/ StoppedAt(RecordIssue(c, q), q)
<1> DEFINE d == RecordIssue(c, q)
<1>1. CASE Cardinality(c.issues) < limits.maxIssues
  <2> DEFINE x == c.issues \union {q}
             f == ContextOf(c.entries, c.issues, c.truncations, c.visited,
                            c.hashBytes, c.stopped)
  <2>1. d = [c EXCEPT !.issues = x]
    BY <1>1 DEF RecordIssue
  <2>2. IsFiniteSet(x) /\ Cardinality(x) <= limits.maxIssues
    <3>1. IsFiniteSet(c.issues) /\ Cardinality(c.issues) \in Nat
      BY FS_CardinalityType DEF IsContext
    <3>2. limits.maxIssues \in Nat
      BY CaptureLimitsAssumption
    <3>3. /\ IsFiniteSet(x)
          /\ Cardinality(x) = IF q \in c.issues THEN Cardinality(c.issues)
                              ELSE Cardinality(c.issues) + 1
      BY <3>1, FS_AddElement
    <3> HIDE DEF x
    <3> QED
      BY <1>1, <3>1, <3>2, <3>3
  <2>3. q \in x /\ c.issues \subseteq x
    OBVIOUS
  <2> HIDE DEF x
  <2>4. [f EXCEPT !.issues = x]
          = ContextOf(c.entries, x, c.truncations, c.visited, c.hashBytes,
                      c.stopped)
    BY DEF ContextOf
  <2>5. c = f
    BY DEF IsContext
  <2> HIDE DEF d, f
  <2>6. /\ IsContext(d) /\ d.entries = c.entries /\ d.issues = x
        /\ d.truncations = c.truncations /\ d.stopped = c.stopped
    BY <2>1, <2>2, <2>4, <2>5, IsContextOf DEF IsContext
  <2>7. Moved(c, d, q) /\ q \in d.issues
    BY <2>3, <2>6 DEF Moved, Extends
  <2> QED
    BY <2>7 DEF d
<1>2. CASE ~(Cardinality(c.issues) < limits.maxIssues)
  <2>1. d = Stopped(c, q, "issue_limit")
    BY <1>2 DEF RecordIssue
  <2> QED
    BY <2>1, Stops
<1> QED
  BY <1>1, <1>2

(* Moves of a context at one position compose.                             *)
LEMMA MovesOn ==
  ASSUME NEW a, NEW c, NEW d, NEW q, Moved(a, c, q), Moved(c, d, q)
  PROVE  Moved(a, d, q)
  BY DEF Moved, Extends

(* A look at the clock.                                                    *)
LEMMA Times ==
  ASSUME NEW c, IsContext(c), NEW q, c.stopped => StoppedAt(c, q),
         NEW d \in Timed(c, q)
  PROVE  Moved(c, d, q)
<1>1. CASE d = c
  BY <1>1 DEF Moved, Extends
<1>2. CASE d = Late(c, q)
  BY <1>2, Stops DEF Late
<1> QED
  BY <1>1, <1>2 DEF Timed

(* reserveVisit().                                                         *)
LEMMA Reserves ==
  ASSUME NEW c, IsContext(c), ~c.stopped, NEW q, NEW d \in ReserveVisit(c, q)
  PROVE  Moved(c, d, q)
<1>1. CASE d = Late(c, q)
  BY <1>1, Stops DEF Late
<1>2. CASE d = Stopped(c, q, "visited_entry_limit")
  BY <1>2, Stops
<1>3. CASE d = [c EXCEPT !.visited = @ + 1]
  <2> DEFINE x == c.visited + 1
             f == ContextOf(c.entries, c.issues, c.truncations, c.visited,
                            c.hashBytes, c.stopped)
  <2>1. d = [c EXCEPT !.visited = x]
    BY <1>3
  <2>2. c = f
    BY DEF IsContext
  <2> HIDE DEF x
  <2>3. [f EXCEPT !.visited = x]
          = ContextOf(c.entries, c.issues, c.truncations, x, c.hashBytes,
                      c.stopped)
    BY DEF ContextOf
  <2> HIDE DEF f
  <2>4. /\ IsContext(d) /\ d.entries = c.entries /\ d.issues = c.issues
        /\ d.truncations = c.truncations /\ d.stopped = c.stopped
    BY <2>1, <2>2, <2>3, IsContextOf DEF IsContext
  <2> QED
    BY <2>4 DEF Moved, Extends
<1> QED
  BY <1>1, <1>2, <1>3 DEF ReserveVisit

(* Bytes that were read count against the budget and change nothing else.  *)
LEMMA Consumes ==
  ASSUME NEW c, IsContext(c), ~c.stopped, NEW q, NEW n
  PROVE  /\ Moved(c, [c EXCEPT !.hashBytes = @ + n], q)
         /\ ~[c EXCEPT !.hashBytes = @ + n].stopped
<1> DEFINE d == [c EXCEPT !.hashBytes = @ + n]
           x == c.hashBytes + n
           f == ContextOf(c.entries, c.issues, c.truncations, c.visited,
                          c.hashBytes, c.stopped)
<1>1. d = [c EXCEPT !.hashBytes = x]
  OBVIOUS
<1>2. c = f
  BY DEF IsContext
<1> HIDE DEF x, d
<1>3. [f EXCEPT !.hashBytes = x]
        = ContextOf(c.entries, c.issues, c.truncations, c.visited, x, c.stopped)
  BY DEF ContextOf
<1> HIDE DEF f
<1>4. /\ IsContext(d) /\ d.entries = c.entries /\ d.issues = c.issues
      /\ d.truncations = c.truncations /\ d.stopped = c.stopped
  BY <1>1, <1>2, <1>3, IsContextOf DEF IsContext
<1>5. Moved(c, d, q) /\ ~d.stopped
  BY <1>4 DEF Moved, Extends
<1> QED
  BY <1>5 DEF d

(* What is captured of an object tells all of it, or less.                 *)
LEMMA WholeIsFaithful ==
  ASSUME NEW s, NEW p, NEW object, NEW status,
         \/ object.kind = "directory"
         \/ object.kind = "file" /\ status = "hashed"
         \/ object.kind = "symlink" /\ status = "recorded",
         ~TooLarge(object)
  PROVE  Faithful(s, p, object, Captured(object, status))
<1>1. Captured(object, status) = InFull(object)
  BY DEF Captured, InFull
<1>2. Captured(object, status).kind = object.kind
  BY DEF Captured
<1> QED
  BY <1>1, <1>2 DEF Faithful

(* An entry whose content was not read is true, and says why it was not.   *)
LEMMA PartIsFaithful ==
  ASSUME NEW s, NEW p, NEW object, NEW status,
         object.kind \in {"file", "symlink"}, status \notin {"hashed", "recorded"},
         IF status = "omitted_size_limit" THEN TooLarge(object)
         ELSE Explained(s, p)
  PROVE  Faithful(s, p, object, Captured(object, status))
<1> DEFINE e == Captured(object, status)
<1>1. e.kind = object.kind /\ e.status = status /\ e.content = {}
  BY DEF Captured
<1>2. [e EXCEPT !.status = InFull(object).status,
                !.content = InFull(object).content] = InFull(object)
  <2> DEFINE EntryOf(type, m, z, x, content) ==
                [kind |-> type, mode |-> m, size |-> z, status |-> x,
                 content |-> content]
  <2>1. ASSUME NEW type, NEW m, NEW z, NEW x, NEW y,
               InFull(object) = EntryOf(type, m, z, x, y),
               e = EntryOf(type, m, z, status, {})
        PROVE  [e EXCEPT !.status = InFull(object).status,
                         !.content = InFull(object).content] = InFull(object)
    <3>1. InFull(object).status = x /\ InFull(object).content = y
      BY <2>1
    <3>2. [EntryOf(type, m, z, status, {}) EXCEPT !.status = x]
            = EntryOf(type, m, z, x, {})
      OBVIOUS
    <3>3. [EntryOf(type, m, z, x, {}) EXCEPT !.content = y] = EntryOf(type, m, z, x, y)
      OBVIOUS
    <3> HIDE DEF e, EntryOf
    <3>4. [e EXCEPT !.status = x, !.content = y]
            = [[e EXCEPT !.status = x] EXCEPT !.content = y]
      OBVIOUS
    <3> QED
      BY <2>1, <3>1, <3>2, <3>3, <3>4
  <2>2. CASE object.kind = "file"
    <3>1. InFull(object) = EntryOf("file", object.mode, object.size, "hashed",
                                {object.content})
      BY <2>2 DEF Captured, InFull
    <3>2. e = EntryOf("file", object.mode, object.size, status, {})
      BY <2>2 DEF Captured
    <3> HIDE DEF e, EntryOf
    <3> QED
      BY <2>1, <3>1, <3>2
  <2>3. CASE object.kind = "symlink"
    <3>1. InFull(object) = EntryOf("symlink", 0, 0, "recorded", {object.content})
      BY <2>3 DEF Captured, InFull
    <3>2. e = EntryOf("symlink", 0, 0, status, {})
      BY <2>3 DEF Captured
    <3> HIDE DEF e, EntryOf
    <3> QED
      BY <2>1, <3>1, <3>2
  <2> QED
    BY <2>2, <2>3
<1> HIDE DEF e
<1>3. InPart(e, InFull(object))
  BY <1>1, <1>2 DEF InPart
<1>4. Faithful(s, p, object, e)
  BY <1>1, <1>3 DEF Faithful
<1> QED
  BY <1>4 DEF e

(* A position lies at or above itself.                                     *)
LEMMA AboveItself ==
  ASSUME NEW q \in Seq(Nat)
  PROVE  Above(q, q)
  BY LenProperties DEF Above

(* A clock past its budget explains what was not read.                     *)
LEMMA LateIs ==
  ASSUME NEW c, IsContext(c), NEW q \in Seq(Nat)
  PROVE  Moved(c, Late(c, q), q) /\ Explained(Late(c, q), q)
<1>1. Moved(c, Late(c, q), q) /\ StoppedAt(Late(c, q), q)
  BY Stops DEF Late
<1> QED
  BY <1>1, AboveItself, StopExplains

(* A reading of an object: the context it leaves, and how much was read.   *)
Reading(c, q, object, o) ==
  Moved(c, o[1], q) /\ Faithful(o[1], q, object, Captured(object, o[2]))

(* Whatever comes of reading a file.                                       *)
LEMMA FileRead ==
  ASSUME limits \in CaptureLimits, NEW c, IsContext(c), ~c.stopped,
         NEW q \in Seq(Nat), NEW object, object.kind = "file",
         NEW o \in FileOutcomes(c, q, object)
  PROVE  Reading(c, q, object, o)
<1> DEFINE Consumed(n) == [c EXCEPT !.hashBytes = @ + n]
<1>1. CASE object.size > limits.maxHashBytes
  <2>1. o = <<c, "omitted_size_limit">>
    BY <1>1 DEF FileOutcomes
  <2>2. Moved(c, c, q)
    BY DEF Moved, Extends
  <2>3. Faithful(c, q, object, Captured(object, "omitted_size_limit"))
    BY <1>1, PartIsFaithful DEF TooLarge
  <2> QED
    BY <2>1, <2>2, <2>3 DEF Reading
<1>2. CASE /\ ~(object.size > limits.maxHashBytes)
           /\ object.size + c.hashBytes > limits.maxTotalHashBytes
  <2> DEFINE d == Truncated(c, q, "total_hash_byte_limit")
  <2>1. o = <<d, "omitted_total_hash_byte_limit">>
    BY <1>2 DEF FileOutcomes
  <2>2. Moved(c, d, q) /\ <<q, "total_hash_byte_limit">> \in d.truncations
    BY WalkTruncates
  <2> HIDE DEF d
  <2>3. Explained(d, q)
    BY <2>2 DEF Explained
  <2>4. Faithful(d, q, object, Captured(object, "omitted_total_hash_byte_limit"))
    BY <2>3, PartIsFaithful
  <2> QED
    BY <2>1, <2>2, <2>4 DEF Reading
<1>3. CASE /\ ~(object.size > limits.maxHashBytes)
           /\ o = <<Consumed(object.size), "hashed">>
  <2>1. ~TooLarge(object)
    BY <1>3 DEF TooLarge
  <2> QED
    BY <1>3, <2>1, Consumes, WholeIsFaithful DEF Reading
<1>4. CASE o = <<Late(c, q), "omitted_elapsed_time_limit">>
  <2>1. Faithful(Late(c, q), q, object,
                 Captured(object, "omitted_elapsed_time_limit"))
    BY LateIs, PartIsFaithful
  <2> QED
    BY <1>4, <2>1, LateIs DEF Reading
<1>5. ASSUME NEW n, NEW d \in Timed(RecordIssue(Consumed(n), q), q),
             o = <<d, "unavailable">>
      PROVE  Reading(c, q, object, o)
  <2> DEFINE b == Consumed(n)
             f == RecordIssue(b, q)
  <2>1. Moved(c, b, q) /\ ~b.stopped
    BY Consumes
  <2> HIDE DEF b
  <2>2. Moved(b, f, q) /\ (q \in f.issues \/ StoppedAt(f, q))
    BY <2>1, Issues DEF Moved
  <2> HIDE DEF f
  <2>3. Moved(f, d, q)
    BY <1>5, <2>2, Times DEF Moved, f, b
  <2>4. Moved(c, d, q)
    BY <2>1, <2>2, <2>3, MovesOn
  <2>5. Explained(d, q)
    <3>1. Explained(f, q)
      BY <2>2, AboveItself, IssueExplains
    <3> QED
      BY <2>3, <3>1, ExplainedKept DEF Moved
  <2>6. Faithful(d, q, object, Captured(object, "unavailable"))
    BY <2>5, PartIsFaithful
  <2> QED
    BY <1>5, <2>4, <2>6 DEF Reading
<1> QED
  <2>1. CASE /\ ~(object.size > limits.maxHashBytes)
             /\ ~(object.size + c.hashBytes > limits.maxTotalHashBytes)
    <3>1. o \in {<<Consumed(object.size), "hashed">>,
                <<Late(c, q), "omitted_elapsed_time_limit">>}
              \union UNION {{<<d, "unavailable">> :
                       d \in Timed(RecordIssue(Consumed(n), q), q)} :
                            n \in {0, object.size}}
      BY <2>1 DEF FileOutcomes
    <3> HIDE DEF Consumed
    <3>2. \/ o = <<Consumed(object.size), "hashed">>
          \/ o = <<Late(c, q), "omitted_elapsed_time_limit">>
          \/ \E n \in {0, object.size} :
               \E d \in Timed(RecordIssue(Consumed(n), q), q) :
                 o = <<d, "unavailable">>
      BY <3>1
    <3> QED
      BY <2>1, <3>2, <1>3, <1>4, <1>5
  <2> QED
    BY <1>1, <1>2, <2>1

(* Whatever comes of reading a link.                                       *)
LEMMA LinkRead ==
  ASSUME limits \in CaptureLimits, NEW c, IsContext(c), ~c.stopped,
         NEW q \in Seq(Nat), NEW object, object.kind = "symlink",
         object.size \in Nat, NEW o \in LinkOutcomes(c, q, object)
  PROVE  Reading(c, q, object, o)
<1> DEFINE failing == RecordIssue(c, q)
<1>0. limits.maxSymlinkTargetBytes \in Nat
  BY CaptureLimitsAssumption
<1>1. /\ Moved(c, failing, q) /\ IsContext(failing)
      /\ q \in failing.issues \/ StoppedAt(failing, q)
  BY Issues DEF Moved
<1>2. Moved(c, c, q)
  BY DEF Moved, Extends
<1>3. CASE /\ object.size <= limits.maxSymlinkTargetBytes
           /\ o = <<c, "recorded">>
  <2>1. ~TooLarge(object)
    BY <1>0, <1>3 DEF TooLarge
  <2> QED
    BY <1>2, <1>3, <2>1, WholeIsFaithful DEF Reading
<1>4. CASE /\ ~(object.size <= limits.maxSymlinkTargetBytes)
           /\ o = <<c, "omitted_size_limit">>
  <2>1. TooLarge(object)
    BY <1>0, <1>4 DEF TooLarge
  <2>2. Faithful(c, q, object, Captured(object, "omitted_size_limit"))
    BY <2>1, PartIsFaithful
  <2> QED
    BY <1>2, <1>4, <2>2 DEF Reading
<1>5. CASE o = <<failing, "unavailable">>
  <2>1. Explained(failing, q)
    BY <1>1, AboveItself, IssueExplains
  <2>2. Faithful(failing, q, object, Captured(object, "unavailable"))
    BY <2>1, PartIsFaithful
  <2> QED
    BY <1>1, <1>5, <2>2 DEF Reading
<1>6. ASSUME NEW d, Moved(c, d, q), IsContext(d),
             o = <<Late(d, q), "omitted_elapsed_time_limit">>
      PROVE  Reading(c, q, object, o)
  <2>1. Moved(d, Late(d, q), q) /\ Explained(Late(d, q), q)
    BY <1>6, LateIs
  <2>2. Moved(c, Late(d, q), q)
    BY <1>6, <2>1, MovesOn
  <2>3. Faithful(Late(d, q), q, object,
                 Captured(object, "omitted_elapsed_time_limit"))
    BY <2>1, PartIsFaithful
  <2> QED
    BY <1>6, <2>2, <2>3 DEF Reading
<1>7. \/ /\ object.size <= limits.maxSymlinkTargetBytes
         /\ o = <<c, "recorded">>
      \/ /\ ~(object.size <= limits.maxSymlinkTargetBytes)
         /\ o = <<c, "omitted_size_limit">>
      \/ o = <<failing, "unavailable">>
      \/ o = <<Late(c, q), "omitted_elapsed_time_limit">>
      \/ o = <<Late(failing, q), "omitted_elapsed_time_limit">>
  BY DEF LinkOutcomes
<1> HIDE DEF failing
<1> QED
  BY <1>1, <1>2, <1>3, <1>4, <1>5, <1>6, <1>7

(* An object is looked at: it is retained as it is, or there is a reason.  *)
Fair(c, q, object, outcome) ==
  /\ Moved(c, outcome[1], q)
  /\ outcome[2] = {} =>
       \/ object.kind = "special"
       \/ q \in outcome[1].issues \/ StoppedAt(outcome[1], q)
  /\ \A e \in outcome[2] :
       /\ object.kind # "special" /\ outcome[2] = {e}
       /\ Faithful(outcome[1], q, object, e)

(* A reading that is retained.                                             *)
LEMMA ReadingIsFair ==
  ASSUME NEW c, NEW q, NEW object, object.kind # "special", NEW o,
         Reading(c, q, object, o), NEW outcome,
         outcome = <<o[1], {Captured(object, o[2])}>>
  PROVE  Fair(c, q, object, outcome)
<1> DEFINE e == Captured(object, o[2])
<1>1. outcome[1] = o[1] /\ outcome[2] = {e}
  OBVIOUS
<1>2. Moved(c, o[1], q) /\ Faithful(o[1], q, object, e)
  BY DEF Reading
<1> HIDE DEF e
<1> QED
  BY <1>1, <1>2 DEF Fair

(* inspectEntry(), for objects of every kind.                              *)
LEMMA InspectedIsFair ==
  ASSUME limits \in CaptureLimits, NEW c, IsContext(c), ~c.stopped,
         NEW q \in Seq(Nat), IsTree(Tree), q \in DOMAIN Tree,
         NEW outcome \in Inspected(c, q)
  PROVE  Fair(c, q, Tree[q], outcome)
<1> DEFINE object == Tree[q]
           late == <<Late(c, q), "omitted_elapsed_time_limit">>
           Retained(outcomes) ==
             {<<o[1], {Captured(object, o[2])}>> : o \in outcomes}
<1>0. /\ object.kind \in {"directory", "file", "symlink", "special"}
      /\ object.size \in Nat
  BY DEF IsTree
<1>1. Moved(c, c, q)
  BY DEF Moved, Extends
<1>2. \A d \in Timed(c, q) : Moved(c, d, q)
  BY Times
<1>3. Moved(c, late[1], q) /\ Explained(late[1], q)
  BY LateIs
<1>4. CASE /\ object.kind = "directory"
           /\ outcome \in Retained(Timed(c, q) \X {"recorded"})
  <2>1. PICK d \in Timed(c, q) : outcome = <<d, {Captured(object, "recorded")}>>
    BY <1>4
  <2>2. Reading(c, q, object, <<d, "recorded">>)
    BY <1>2, <1>4, WholeIsFaithful DEF Reading, TooLarge
  <2> DEFINE o == <<d, "recorded">>
  <2>3. object.kind # "special"
    BY <1>4
  <2>4. outcome = <<o[1], {Captured(object, o[2])}>> /\ Reading(c, q, object, o)
    BY <2>1, <2>2
  <2> HIDE DEF o
  <2> QED
    BY <2>3, <2>4, ReadingIsFair
<1>5. CASE object.kind = "special" /\ outcome \in Timed(c, q) \X {{}}
  BY <1>2, <1>5 DEF Fair
<1>6. ASSUME object.kind \in {"file", "symlink"}, outcome \in Retained({late})
      PROVE  Fair(c, q, object, outcome)
  <2>1. outcome = <<late[1], {Captured(object, late[2])}>>
    BY <1>6
  <2>2. Faithful(late[1], q, object, Captured(object, late[2]))
    BY <1>3, <1>6, PartIsFaithful
  <2> QED
    BY <1>6, <1>3, <2>1, <2>2, ReadingIsFair DEF Reading
<1>7. CASE /\ object.kind = "file"
           /\ outcome \in Retained(FileOutcomes(c, q, object))
  <2>1. PICK o \in FileOutcomes(c, q, object) :
          outcome = <<o[1], {Captured(object, o[2])}>>
    BY <1>7
  <2>2. Reading(c, q, object, o)
    BY <1>7, FileRead
  <2> QED
    BY <1>7, <2>1, <2>2, ReadingIsFair
<1>8. CASE /\ object.kind = "symlink"
           /\ outcome \in Retained(LinkOutcomes(c, q, object))
  <2>1. PICK o \in LinkOutcomes(c, q, object) :
          outcome = <<o[1], {Captured(object, o[2])}>>
    BY <1>8
  <2>2. Reading(c, q, object, o)
    BY <1>0, <1>8, LinkRead
  <2> QED
    BY <1>8, <2>1, <2>2, ReadingIsFair
<1>9. CASE outcome \in Timed(RecordIssue(c, q), q) \X {{}}
  <2> DEFINE d == RecordIssue(c, q)
  <2>1. Moved(c, d, q) /\ (q \in d.issues \/ StoppedAt(d, q))
    BY Issues
  <2> HIDE DEF d
  <2>2. Moved(d, outcome[1], q) /\ outcome[2] = {}
    BY <1>9, <2>1, Times DEF Moved, d
  <2>3. Moved(c, outcome[1], q)
    BY <2>1, <2>2, MovesOn
  <2>4. q \in outcome[1].issues \/ StoppedAt(outcome[1], q)
    BY <2>1, <2>2 DEF Moved, Extends, StoppedAt
  <2> QED
    BY <2>2, <2>3, <2>4 DEF Fair
<1>10. \A A, B : Retained(A \union B) = Retained(A) \union Retained(B)
  OBVIOUS
<1>a. CASE object.kind = "directory"
  <2>1. \/ outcome \in Timed(RecordIssue(c, q), q) \X {{}}
        \/ outcome \in Retained(Timed(c, q) \X {"recorded"})
    BY <1>a DEF Inspected
  <2> QED
    BY <2>1, <1>a, <1>4, <1>9
<1>b. CASE object.kind = "special"
  <2>1. \/ outcome \in Timed(RecordIssue(c, q), q) \X {{}}
        \/ outcome \in Timed(c, q) \X {{}}
    BY <1>b DEF Inspected
  <2> QED
    BY <2>1, <1>b, <1>5, <1>9
<1>c. CASE object.kind = "file"
  <2>1. \/ outcome \in Timed(RecordIssue(c, q), q) \X {{}}
        \/ outcome \in Retained({late} \union FileOutcomes(c, q, object))
    BY <1>c DEF Inspected
  <2> HIDE DEF Retained, late
  <2>2. \/ outcome \in Timed(RecordIssue(c, q), q) \X {{}}
        \/ outcome \in Retained({late})
        \/ outcome \in Retained(FileOutcomes(c, q, object))
    BY <2>1, <1>10
  <2> QED
    BY <2>2, <1>c, <1>6, <1>7, <1>9
<1>d. CASE object.kind = "symlink"
  <2>1. \/ outcome \in Timed(RecordIssue(c, q), q) \X {{}}
        \/ outcome \in Retained({late} \union LinkOutcomes(c, q, object))
    BY <1>d DEF Inspected
  <2> HIDE DEF Retained, late
  <2>2. \/ outcome \in Timed(RecordIssue(c, q), q) \X {{}}
        \/ outcome \in Retained({late})
        \/ outcome \in Retained(LinkOutcomes(c, q, object))
    BY <2>1, <1>10
  <2> QED
    BY <2>2, <1>d, <1>6, <1>8, <1>9
<1> QED
  BY <1>0, <1>a, <1>b, <1>c, <1>d

-----------------------------------------------------------------------------
(* The names in a directory lead to what is below it.                      *)
LEMMA NamesAre ==
  ASSUME NEW tree, IsTree(tree), NEW q \in Seq(Nat), q # <<>>
  PROVE  /\ NamesIn(tree, q) \subseteq Nat
         /\ \A n \in NamesIn(tree, q) : Append(q, n) \in DOMAIN tree
         /\ \A p \in DOMAIN tree : Above(q, p) /\ Len(q) < Len(p) =>
              p[Len(q) + 1] \in NamesIn(tree, q)
<1>0. Len(q) \in Nat \ {0}
  BY EmptySeq
<1>1. ASSUME NEW n \in NamesIn(tree, q)
      PROVE  n \in Nat /\ Append(q, n) \in DOMAIN tree
  <2>1. PICK r \in DOMAIN tree : /\ Len(r) = Len(q) + 1
                                 /\ SubSeq(r, 1, Len(q)) = q /\ n = r[Len(r)]
    BY DEF NamesIn
  <2>2. r \in Seq(Nat)
    BY DEF IsTree
  <2>3. n \in Nat
    BY <1>0, <2>1, <2>2, LenProperties
  <2>4. \A i \in 1..Len(q) : r[i] = q[i]
    BY <1>0, <2>1, <2>2, PrefixIs
  <2>5. /\ Append(q, n) \in Seq(Nat) /\ Len(Append(q, n)) = Len(q) + 1
        /\ \A i \in 1..Len(q) : Append(q, n)[i] = q[i]
        /\ Append(q, n)[Len(q) + 1] = n
    BY <2>3, AppendProperties
  <2>6. \A i \in 1..(Len(q) + 1) : Append(q, n)[i] = r[i]
    BY <1>0, <2>1, <2>4, <2>5
  <2>7. Append(q, n) = r
    BY <2>1, <2>2, <2>5, <2>6, SeqEqual
  <2> QED
    BY <2>3, <2>7
<1>2. ASSUME NEW p \in DOMAIN tree, Above(q, p), Len(q) < Len(p)
      PROVE  p[Len(q) + 1] \in NamesIn(tree, q)
  <2> DEFINE r == SubSeq(p, 1, Len(q) + 1)
  <2>1. p \in Seq(Nat) /\ Len(p) \in Nat
    BY LenProperties DEF IsTree
  <2>2. /\ r \in Seq(Nat) /\ Len(r) = Len(q) + 1
        /\ \A i \in 1..(Len(q) + 1) : r[i] = p[i]
    <3>1. Len(q) + 1 \in 0..Len(p)
      BY <1>0, <1>2, <2>1
    <3> QED
      BY <2>1, <3>1, PrefixIs
  <2> HIDE DEF r
  <2>3. r \in DOMAIN tree
    <3>1. CASE Len(q) + 1 = Len(p)
      <4>1. r = p
        BY <2>1, <2>2, <3>1, SeqEqual
      <4> QED
        BY <4>1
    <3>2. CASE Len(q) + 1 # Len(p)
      <4>1. Len(r) < Len(p) /\ r # <<>>
        BY <1>0, <1>2, <2>1, <2>2, <3>2, EmptySeq
      <4>2. Above(r, p)
        BY <1>0, <2>2, <4>1 DEF Above
      <4> QED
        BY <2>2, <4>1, <4>2, TreeShape
    <3> QED
      BY <3>1, <3>2
  <2>4. SubSeq(r, 1, Len(q)) = q
    <3>1. Above(q, r)
      <4>1. \A i \in 1..Len(q) : i \in 1..(Len(q) + 1)
        BY <1>0
      <4>2. \A i \in 1..Len(q) : r[i] = q[i]
        BY <1>2, <2>2, <4>1 DEF Above
      <4> QED
        BY <1>0, <2>2, <4>2 DEF Above
    <3> QED
      BY <2>2, <3>1, PositionAbove DEF IsAtOrAbove
  <2>5. r[Len(r)] = p[Len(q) + 1]
    BY <1>0, <2>2
  <2> QED
    BY <2>2, <2>3, <2>4, <2>5 DEF NamesIn
<1> QED
  BY <1>1, <1>2

Lower(frames) == SubSeq(frames, 1, Len(frames) - 1)

(* The walk without the directory it stands in.                            *)
LEMMA LowerAre ==
  ASSUME NEW S, NEW frames \in Seq(S), frames # <<>>
  PROVE  /\ Lower(frames) \in Seq(S) /\ Len(frames) \in Nat \ {0}
         /\ Len(Lower(frames)) = Len(frames) - 1
         /\ \A i \in 1..(Len(frames) - 1) : Lower(frames)[i] = frames[i]
<1>1. Len(frames) \in Nat \ {0}
  BY EmptySeq
<1>2. \A i \in 1..(Len(frames) - 1) : frames[i] \in S
  BY LenProperties
<1> DEFINE k == Len(frames) - 1
<1>3. k \in Nat /\ 1 \in Int
  BY <1>1
<1> HIDE DEF k
<1>4. /\ SubSeq(frames, 1, k) \in Seq(S)
      /\ Len(SubSeq(frames, 1, k)) = IF 1 <= k THEN k - 1 + 1 ELSE 0
      /\ \A i \in 1..(k - 1 + 1) : SubSeq(frames, 1, k)[i] = frames[1 + i - 1]
  BY <1>2, <1>3, SubSeqProperties DEF k
<1>5. \A i \in 1..k : SubSeq(frames, 1, k)[i] = frames[i]
  BY <1>3, <1>4
<1>6. Len(SubSeq(frames, 1, k)) = k
  BY <1>3, <1>4
<1> QED
  BY <1>1, <1>4, <1>5, <1>6 DEF Lower, k

(* Leaving a directory: what was awaited is awaited in it or further up.   *)
LEMMA WalkLower ==
  ASSUME NEW tree, NEW frames, WalkSound(frames, tree), frames # <<>>
  PROVE  /\ WalkSound(Lower(frames), tree)
         /\ \A i \in 1..Len(Lower(frames)) :
              Behind(Lower(frames)[i], frames[Len(frames)].at)
         /\ \A p : AwaitedIn(frames, p) =>
              Awaits(frames[Len(frames)], p) \/ AwaitedIn(Lower(frames), p)
<1> USE DEF WalkSound
<1>1. /\ Lower(frames) \in Seq(Frames) /\ Len(frames) \in Nat \ {0}
      /\ Len(Lower(frames)) = Len(frames) - 1
      /\ \A i \in 1..(Len(frames) - 1) : Lower(frames)[i] = frames[i]
  BY LowerAre
<1>2. \A i \in 1..Len(Lower(frames)) :
        i \in 1..Len(frames) /\ i < Len(frames) /\ Lower(frames)[i] = frames[i]
  BY <1>1
<1>3. WalkSound(Lower(frames), tree)
  BY <1>1, <1>2
<1>4. \A i \in 1..Len(Lower(frames)) :
        Behind(Lower(frames)[i], frames[Len(frames)].at)
  BY <1>1, <1>2
<1>5. ASSUME NEW p, AwaitedIn(frames, p), ~Awaits(frames[Len(frames)], p)
      PROVE  AwaitedIn(Lower(frames), p)
  <2>1. PICK i \in 1..Len(frames) : Awaits(frames[i], p)
    BY <1>5 DEF AwaitedIn
  <2>2. i \in 1..(Len(frames) - 1)
    BY <1>1, <1>5, <2>1
  <2> QED
    BY <1>1, <2>1, <2>2 DEF AwaitedIn
<1> QED
  BY <1>3, <1>4, <1>5

(* Entering a directory.                                                   *)
LEMMA WalkPushed ==
  ASSUME NEW tree, NEW frames, WalkSound(frames, tree), NEW f \in Frames,
         f.at \in DOMAIN tree, f.rest \subseteq NamesIn(tree, f.at),
         \A i \in 1..Len(frames) : Behind(frames[i], f.at)
  PROVE  /\ WalkSound(Append(frames, f), tree)
         /\ \A p : AwaitedIn(frames, p) \/ Awaits(f, p) =>
              AwaitedIn(Append(frames, f), p)
<1> DEFINE pushed == Append(frames, f)
<1>1. /\ pushed \in Seq(Frames) /\ Len(pushed) = Len(frames) + 1
      /\ \A i \in 1..Len(frames) : pushed[i] = frames[i]
      /\ pushed[Len(frames) + 1] = f
  BY AppendProperties DEF WalkSound
<1>2. Len(frames) \in Nat
  BY LenProperties DEF WalkSound
<1> HIDE DEF pushed
<1>3. \A i \in 1..Len(pushed) :
        i \in 1..Len(frames) \/ (i = Len(frames) + 1 /\ pushed[i] = f)
  BY <1>1, <1>2
<1>4. \A i \in 1..Len(pushed) :
        /\ pushed[i].at \in DOMAIN tree
        /\ pushed[i].rest \subseteq NamesIn(tree, pushed[i].at)
  BY <1>1, <1>2, <1>3 DEF WalkSound
<1>5. \A i, j \in 1..Len(pushed) : i < j => Behind(pushed[i], pushed[j].at)
  BY <1>1, <1>2, <1>3 DEF WalkSound
<1>6. ASSUME NEW p, AwaitedIn(frames, p) \/ Awaits(f, p)
      PROVE  AwaitedIn(pushed, p)
  BY <1>1, <1>2, <1>6 DEF AwaitedIn
<1> QED
  BY <1>1, <1>4, <1>5, <1>6 DEF WalkSound, pushed

(* What a directory awaits that q has passed comes after q.                *)
LEMMA AwaitedAfter ==
  ASSUME NEW w \in Frames, NEW p \in Seq(Nat), NEW q \in Seq(Nat), q # <<>>,
         Awaits(w, p), Behind(w, q)
  PROVE  After(p, q)
<1>0. /\ Len(p) \in Nat /\ Len(q) \in Nat \ {0} /\ w.at \in Seq(Nat)
      /\ Len(w.at) \in Nat /\ w.rest \subseteq Nat
  BY EmptySeq, LenProperties DEF Frames
<1>1. CASE /\ w.listed /\ Len(w.at) < Len(q) /\ Above(w.at, q)
           /\ \A r \in w.rest : q[Len(w.at) + 1] < r
  <2> DEFINE n == Len(w.at) + 1
  <2>1. n \in 1..Len(p) /\ n <= Len(q)
    BY <1>0, <1>1 DEF Awaits
  <2>2. p[n] \in w.rest
    BY <1>1 DEF Awaits
  <2>a. p[n] \in Nat
    BY <1>0, <2>2
  <2>b. q[n] \in Nat
    BY <1>0, <2>1, LenProperties
  <2>3. p[n] > q[n]
    BY <1>1, <2>2, <2>a, <2>b
  <2>4. \A i \in 1..(n - 1) : p[i] = q[i]
    BY <1>0, <1>1 DEF Awaits, Above
  <2> QED
    BY <2>1, <2>3, <2>4 DEF After
<1>2. CASE w.at = <<2>> /\ q[1] = 1
  <2>1. 1 \in 1..Len(p) /\ 1 <= Len(q)
    BY <1>0, <1>2 DEF Awaits
  <2>2. p[1] = 2
    BY <1>2 DEF Awaits, Above
  <2>3. \A i \in 1..(1 - 1) : p[i] = q[i]
    OBVIOUS
  <2> QED
    BY <1>2, <2>1, <2>2, <2>3 DEF After
<1> QED
  BY <1>1, <1>2 DEF Behind

(* What lies behind q lies behind all that is below q.                     *)
LEMMA BehindDeeper ==
  ASSUME NEW w \in Frames, NEW q \in Seq(Nat), q # <<>>, NEW n \in Nat,
         Behind(w, q)
  PROVE  Behind(w, Append(q, n))
<1>0. /\ Len(q) \in Nat \ {0} /\ w.at \in Seq(Nat) /\ Len(w.at) \in Nat
  BY EmptySeq, LenProperties DEF Frames
<1>1. /\ Append(q, n) \in Seq(Nat) /\ Len(Append(q, n)) = Len(q) + 1
      /\ \A i \in 1..Len(q) : Append(q, n)[i] = q[i]
  BY AppendProperties
<1> QED
  BY <1>0, <1>1 DEF Behind, Above

-----------------------------------------------------------------------------
(* Entries stay true as the capture goes on.                               *)
LEMMA FaithfulKept ==
  ASSUME NEW c, NEW d, Extends(d, c), NEW p, NEW object, NEW e,
         Faithful(c, p, object, e)
  PROVE  Faithful(d, p, object, e)
<1>1. Explained(c, p) => Explained(d, p)
  BY ExplainedKept
<1> QED
  BY <1>1 DEF Faithful

(* What a capture retains when it has looked at an object.                 *)
Retained(c, k, q, e) ==
  /\ DOMAIN k.entries = DOMAIN c.entries \union {q} /\ k.entries[q] = e
  /\ \A p \in DOMAIN c.entries \ {q} : k.entries[p] = c.entries[p]

(* What is made of the context when an object has been looked at.          *)
LEMMA Keeps ==
  ASSUME NEW c, NEW q, NEW object, NEW outcome, Fair(c, q, object, outcome),
         NEW k, k = Keep(outcome, q)
  PROVE  /\ IsContext(k) /\ Extends(k, c) /\ (k.stopped => StoppedAt(k, q))
         /\ k.issues = outcome[1].issues /\ k.truncations = outcome[1].truncations
         /\ outcome[2] = {} => k.entries = c.entries
         /\ \A e \in outcome[2] :
              /\ Retained(c, k, q, e) /\ Faithful(k, q, object, e)
              /\ object.kind # "special"
<1> DEFINE d == outcome[1]
<1>1. /\ IsContext(d) /\ Extends(d, c) /\ d.entries = c.entries
      /\ d.stopped => StoppedAt(d, q)
  BY DEF Fair, Moved
<1>2. CASE outcome[2] = {}
  <2>1. k = d
    BY <1>2 DEF Keep
  <2> QED
    BY <1>1, <1>2, <2>1
<1>3. ASSUME NEW e \in outcome[2]
      PROVE  /\ IsContext(k) /\ Extends(k, c) /\ (k.stopped => StoppedAt(k, q))
             /\ k.issues = d.issues /\ k.truncations = d.truncations
             /\ Retained(c, k, q, e) /\ Faithful(k, q, object, e)
             /\ object.kind # "special"
  <2>1. /\ outcome[2] = {e} /\ Faithful(d, q, object, e)
        /\ object.kind # "special"
    BY <1>3 DEF Fair
  <2> DEFINE x == [p \in DOMAIN d.entries \union {q} |->
                     IF p = q THEN CHOOSE y \in outcome[2] : TRUE
                     ELSE d.entries[p]]
             f == ContextOf(d.entries, d.issues, d.truncations, d.visited,
                            d.hashBytes, d.stopped)
  <2>2. k = [d EXCEPT !.entries = x]
    BY <2>1 DEF Keep
  <2>3. (CHOOSE y \in outcome[2] : TRUE) = e
    BY <2>1
  <2>4. /\ DOMAIN x = DOMAIN c.entries \union {q} /\ x[q] = e
        /\ \A p \in DOMAIN c.entries \ {q} : x[p] = c.entries[p]
    BY <1>1, <2>3
  <2>5. d = f
    BY <1>1 DEF IsContext
  <2> HIDE DEF x, d
  <2>6. [f EXCEPT !.entries = x]
          = ContextOf(x, d.issues, d.truncations, d.visited, d.hashBytes,
                      d.stopped)
    BY DEF ContextOf
  <2> HIDE DEF f
  <2>7. /\ IsContext(k) /\ k.entries = x /\ k.issues = d.issues
        /\ k.truncations = d.truncations /\ k.stopped = d.stopped
    BY <1>1, <2>2, <2>5, <2>6, IsContextOf DEF IsContext
  <2>8. Extends(k, c) /\ Extends(k, d) /\ (k.stopped => StoppedAt(k, q))
    BY <1>1, <2>7 DEF Extends, StoppedAt
  <2>9. Faithful(k, q, object, e)
    BY <2>1, <2>8, FaithfulKept DEF d
  <2>10. Retained(c, k, q, e)
    BY <2>4, <2>7 DEF Retained
  <2> QED
    BY <2>1, <2>7, <2>8, <2>9, <2>10
<1> QED
  BY <1>2, <1>3

(* Entries that were true stay so.                                         *)
LEMMA EntriesKept ==
  ASSUME NEW tree, NEW c, EntriesSound(c, tree), NEW k, Extends(k, c),
         k.entries = c.entries
  PROVE  EntriesSound(k, tree)
<1>1. \A p \in DOMAIN k.entries : Faithful(k, p, tree[p], k.entries[p])
  BY FaithfulKept DEF EntriesSound
<1> QED
  BY <1>1 DEF EntriesSound

(* One more entry.                                                         *)
LEMMA EntryAdded ==
  ASSUME NEW tree, NEW c, EntriesSound(c, tree), NEW k, Extends(k, c),
         NEW q \in DOMAIN tree, NEW e, Retained(c, k, q, e),
         Faithful(k, q, tree[q], e), tree[q].kind # "special"
  PROVE  /\ EntriesSound(k, tree)
         /\ Cardinality(DOMAIN c.entries) \in Nat
         /\ Cardinality(DOMAIN k.entries) \in Nat
         /\ Cardinality(DOMAIN k.entries) <= Cardinality(DOMAIN c.entries) + 1
<1>1. q \in Visible(tree)
  BY DEF Visible
<1>2. \A p \in DOMAIN c.entries : Faithful(k, p, tree[p], c.entries[p])
  BY FaithfulKept DEF EntriesSound
<1>3. \A p \in DOMAIN k.entries : Faithful(k, p, tree[p], k.entries[p])
  BY <1>2 DEF Retained
<1>4. /\ IsFiniteSet(DOMAIN c.entries \union {q})
      /\ Cardinality(DOMAIN c.entries \union {q}) =
           IF q \in DOMAIN c.entries THEN Cardinality(DOMAIN c.entries)
           ELSE Cardinality(DOMAIN c.entries) + 1
  BY FS_AddElement DEF EntriesSound
<1>5. Cardinality(DOMAIN c.entries) \in Nat
  BY FS_CardinalityType DEF EntriesSound
<1>6. DOMAIN k.entries = DOMAIN c.entries \union {q}
  BY DEF Retained
<1>7. EntriesSound(k, tree)
  BY <1>1, <1>3, <1>4, <1>6 DEF EntriesSound
<1> QED
  BY <1>4, <1>5, <1>6, <1>7

(* Looking at an object settles it and what is below it, or enters it.     *)
LEMMA Handled ==
  ASSUME NEW tree, IsTree(tree), NEW q \in DOMAIN tree, NEW c, NEW outcome,
         Fair(c, q, tree[q], outcome), NEW k, k = Keep(outcome, q),
         NEW p \in Visible(tree) \ DOMAIN k.entries, Above(q, p)
  PROVE  \/ Explained(k, p)
         \/ IsDirectory(outcome) /\ Awaits(Entered(q), p)
<1>0. p \in Seq(Nat) /\ q \in Seq(Nat) /\ q # <<>>
  BY DEF IsTree, Visible
<1>1. /\ k.issues = outcome[1].issues /\ k.truncations = outcome[1].truncations
      /\ \A e \in outcome[2] : q \in DOMAIN k.entries
  BY Keeps DEF Retained
<1>2. CASE q \in outcome[1].issues \/ StoppedAt(outcome[1], q)
  <2>1. q \in k.issues \/ StoppedAt(k, q)
    BY <1>1, <1>2 DEF StoppedAt
  <2> QED
    BY <1>0, <2>1, IssueExplains
<1>3. CASE p = q /\ ~(q \in outcome[1].issues \/ StoppedAt(outcome[1], q))
  BY <1>1, <1>3 DEF Fair, Visible
<1>4. CASE p # q /\ ~(q \in outcome[1].issues \/ StoppedAt(outcome[1], q))
  <2>1. Len(q) < Len(p)
    <3>1. Len(q) \in Nat /\ Len(p) \in Nat /\ Len(q) <= Len(p)
      BY <1>0, LenProperties DEF Above
    <3>2. Len(q) # Len(p)
      BY <1>0, <1>4, SeqEqual DEF Above
    <3> QED
      BY <3>1, <3>2
  <2>2. tree[q].kind = "directory"
    BY <1>0, <2>1, TreeShape DEF Visible
  <2>3. \E e \in outcome[2] : e.kind = "directory"
    BY <1>4, <2>2 DEF Fair, Faithful
  <2>4. Awaits(Entered(q), p)
    BY <2>1 DEF Awaits, Entered
  <2> QED
    BY <2>3, <2>4 DEF IsDirectory
<1> QED
  BY <1>2, <1>3, <1>4

-----------------------------------------------------------------------------
(* Steps of a capture change neither the trees nor what was taken before.  *)
Capture == UNCHANGED <<trees, limits, snapshots, difference, stored>>

(* What is being captured is a tree.                                       *)
LEMMA TreeCaptured ==
  ASSUME CaptureInv, Capturing
  PROVE  IsTree(Tree) /\ limits \in CaptureLimits /\ CapturingInv
<1>1. Len(snapshots) \in Nat
  BY LenProperties DEF CaptureInv, SnapshotsInv
<1>2. Len(snapshots) + 1 \in 1..2
  BY <1>1 DEF Capturing
<1> QED
  BY <1>2, ProfilesAssumption DEF CaptureInv, Tree

(* A step of a capture that keeps the parts of the invariant keeps it.     *)
LEMMA CaptureGoesOn ==
  ASSUME CaptureInv, Capturing, Capture,
         IsContext(context'), WalkSound(walk', Tree), RootsInv',
         EntriesSound(context', Tree),
         Cardinality(DOMAIN context'.entries) <= limits.maxEntries,
         Accounts(context', Tree, roots', walk')
  PROVE  CaptureInv'
<1>1. limits' = limits /\ Tree' = Tree /\ Capturing' = Capturing
  BY DEF Capture, Tree, Capturing
<1>2. IsContext(context)'
  BY <1>1 DEF IsContext
<1>3. EntriesSound(context, Tree)'
  BY <1>1 DEF EntriesSound, Faithful, TooLarge
<1>4. WalkSound(walk, Tree)' /\ Accounts(context, Tree, roots, walk)'
  BY <1>1
<1>5. SnapshotsInv'
  BY DEF Capture, CaptureInv, SnapshotsInv, SnapshotHonest, Faithful,
     TooLarge
<1>6. CapturingInv'
  BY <1>1, <1>2, <1>3, <1>4 DEF CapturingInv
<1> QED
  BY <1>5, <1>6 DEF CaptureInv, Capture

(* Stuttering.                                                             *)
LEMMA CaptureStays ==
  ASSUME CaptureInv, UNCHANGED stateVars
  PROVE  CaptureInv'
<1> USE DEF stateVars
<1>1. SnapshotsInv'
  BY DEF CaptureInv, SnapshotsInv, SnapshotHonest, Faithful,
     TooLarge
<1>2. Capturing' => CapturingInv'
  BY DEF CaptureInv, Capturing, CapturingInv, IsContext, RootsInv, EntriesSound,
     Faithful, TooLarge, Tree
<1> QED
  BY <1>1, <1>2 DEF CaptureInv

(* A directory is left when no name in it is left.                         *)
LEMMA LeaveKeeps ==
  ASSUME CaptureInv, LeaveDirectory
  PROVE  CaptureInv'
<1>1. Capturing /\ Capture /\ context' = context /\ roots' = roots /\ roots = <<>>
  BY DEF LeaveDirectory, Walking, Capture
<1>2. CapturingInv
  BY <1>1, TreeCaptured
<1>3. walk # <<>> /\ walk' = Lower(walk) /\ Top.listed /\ Top.rest = {}
  BY DEF LeaveDirectory, Walking, Left, Lower
<1>4. WalkSound(walk', Tree)
  BY <1>2, <1>3, WalkLower DEF CapturingInv
<1>5. ASSUME NEW p, AwaitedIn(walk, p)
      PROVE  AwaitedIn(walk', p)
  <2>1. ~Awaits(Top, p)
    BY <1>3 DEF Awaits
  <2> QED
    BY <1>2, <1>3, <1>5, <2>1, WalkLower DEF CapturingInv, Top
<1>6. Accounts(context', Tree, roots', walk')
  BY <1>1, <1>2, <1>5 DEF CapturingInv, Accounts
<1>7. RootsInv'
  BY <1>1 DEF RootsInv
<1> QED
  BY <1>1, <1>2, <1>4, <1>6, <1>7, CaptureGoesOn DEF CapturingInv

(* A step of the walk at q settles what its directory awaits; when it      *)
(* stops the capture, all that the others await comes after q.             *)
LEMMA CaptureSettled ==
  ASSUME NEW tree, IsTree(tree), NEW c, NEW frames, WalkSound(frames, tree),
         frames # <<>>, Accounts(c, tree, <<>>, frames), NEW k, Extends(k, c),
         DOMAIN c.entries \subseteq DOMAIN k.entries,
         NEW q \in Seq(Nat), q # <<>>, k.stopped => StoppedAt(k, q),
         \A i \in 1..Len(Lower(frames)) : Behind(Lower(frames)[i], q),
         NEW others,
         k.stopped \/ \A p : AwaitedIn(Lower(frames), p) => AwaitedIn(others, p),
         \A p \in Visible(tree) \ DOMAIN k.entries :
           Awaits(frames[Len(frames)], p) =>
             Explained(k, p) \/ (~k.stopped /\ AwaitedIn(others, p))
  PROVE  Accounts(k, tree, <<>>, others)
<1> SUFFICES ASSUME NEW p \in Visible(tree) \ DOMAIN k.entries
             PROVE  Explained(k, p) \/ (~k.stopped /\ AwaitedIn(others, p))
  BY DEF Accounts
<1>1. p \in Seq(Nat)
  BY DEF Visible, IsTree
<1>2. CASE Explained(c, p)
  BY <1>2, ExplainedKept
<1>3. CASE AwaitedAt(<<>>, p)
  BY <1>3 DEF AwaitedAt
<1>4. CASE AwaitedIn(frames, p)
  <2>1. CASE Awaits(frames[Len(frames)], p)
    BY <2>1
  <2>2. CASE AwaitedIn(Lower(frames), p)
    <3>1. PICK i \in 1..Len(Lower(frames)) : Awaits(Lower(frames)[i], p)
      BY <2>2 DEF AwaitedIn
    <3>2. Lower(frames)[i] \in Frames
      BY WalkLower, LenProperties DEF WalkSound
    <3>3. After(p, q)
      BY <1>1, <3>1, <3>2, AwaitedAfter
    <3>4. k.stopped => Explained(k, p)
      BY <1>1, <3>3, StopExplains
    <3> QED
      BY <2>2, <3>4
  <2> QED
    BY <1>4, <2>1, <2>2, WalkLower
<1> QED
  BY <1>2, <1>3, <1>4 DEF Accounts

(* What looking at an object makes of the capture.                         *)
LEMMA Looked ==
  ASSUME CaptureInv, Capturing, ~context.stopped, NEW q \in DOMAIN Tree,
         NEW c \in ReserveVisit(context, q), ~c.stopped,
         NEW outcome \in Inspected(c, q), NEW k, k = Keep(outcome, q)
  PROVE  /\ IsContext(k) /\ Extends(k, context) /\ (k.stopped => StoppedAt(k, q))
         /\ EntriesSound(k, Tree)
         /\ Cardinality(DOMAIN context.entries) \in Nat
         /\ Cardinality(DOMAIN k.entries) \in Nat
         /\ Cardinality(DOMAIN k.entries) <= Cardinality(DOMAIN context.entries) + 1
         /\ DOMAIN context.entries \subseteq DOMAIN k.entries
         /\ DOMAIN k.entries \subseteq DOMAIN context.entries \union {q}
         /\ \A p \in Visible(Tree) \ DOMAIN k.entries :
              Above(q, p) => \/ Explained(k, p)
                             \/ IsDirectory(outcome) /\ Awaits(Entered(q), p)
<1>1. IsTree(Tree) /\ limits \in CaptureLimits /\ CapturingInv
  BY TreeCaptured
<1>2. q \in Seq(Nat) /\ q # <<>>
  BY <1>1 DEF IsTree
<1>3. Moved(context, c, q)
  BY <1>1, Reserves DEF CapturingInv
<1>4. Fair(c, q, Tree[q], outcome)
  BY <1>1, <1>2, <1>3, InspectedIsFair DEF Moved
<1>5. EntriesSound(c, Tree)
  BY <1>1, <1>3, EntriesKept DEF Moved, CapturingInv
<1>6. /\ IsContext(k) /\ Extends(k, c) /\ (k.stopped => StoppedAt(k, q))
      /\ outcome[2] = {} => k.entries = c.entries
      /\ \A e \in outcome[2] :
           /\ Retained(c, k, q, e) /\ Faithful(k, q, Tree[q], e)
           /\ Tree[q].kind # "special"
  BY <1>4, Keeps
<1>7. c.entries = context.entries /\ Extends(k, context)
  BY <1>3, <1>6 DEF Moved, Extends
<1>8. Cardinality(DOMAIN c.entries) \in Nat
  BY <1>5, FS_CardinalityType DEF EntriesSound
<1>9. /\ EntriesSound(k, Tree)
      /\ Cardinality(DOMAIN k.entries) \in Nat
      /\ Cardinality(DOMAIN k.entries) <= Cardinality(DOMAIN c.entries) + 1
      /\ DOMAIN c.entries \subseteq DOMAIN k.entries
      /\ DOMAIN k.entries \subseteq DOMAIN c.entries \union {q}
  <2>1. CASE outcome[2] = {}
    <3>1. k.entries = c.entries
      BY <1>6, <2>1
    <3>2. EntriesSound(k, Tree)
      BY <1>5, <1>6, <3>1, EntriesKept
    <3> QED
      BY <1>8, <3>1, <3>2
  <2>2. ASSUME NEW e \in outcome[2]
        PROVE  /\ EntriesSound(k, Tree)
               /\ Cardinality(DOMAIN k.entries) \in Nat
               /\ Cardinality(DOMAIN k.entries) <= Cardinality(DOMAIN c.entries) + 1
               /\ DOMAIN k.entries = DOMAIN c.entries \union {q}
    <3>1. /\ Retained(c, k, q, e) /\ Faithful(k, q, Tree[q], e)
          /\ Tree[q].kind # "special"
      BY <1>6, <2>2
    <3>2. DOMAIN k.entries = DOMAIN c.entries \union {q}
      BY <3>1 DEF Retained
    <3>3. /\ EntriesSound(k, Tree)
          /\ Cardinality(DOMAIN k.entries) \in Nat
          /\ Cardinality(DOMAIN k.entries) <= Cardinality(DOMAIN c.entries) + 1
      BY <1>5, <1>6, <3>1, EntryAdded
    <3> QED
      BY <3>2, <3>3
  <2> QED
    BY <2>1, <2>2
<1>10. \A p \in Visible(Tree) \ DOMAIN k.entries :
         Above(q, p) => \/ Explained(k, p)
                        \/ IsDirectory(outcome) /\ Awaits(Entered(q), p)
  BY <1>1, <1>4, Handled
<1> QED
  BY <1>6, <1>7, <1>8, <1>9, <1>10

(* A step that retains nothing.                                            *)
LEMMA PassedBy ==
  ASSUME CaptureInv, Capturing, ~context.stopped, NEW q, NEW c,
         Moved(context, c, q)
  PROVE  /\ IsContext(c) /\ Extends(c, context) /\ EntriesSound(c, Tree)
         /\ c.entries = context.entries /\ (c.stopped => StoppedAt(c, q))
         /\ Cardinality(DOMAIN c.entries) <= limits.maxEntries
<1>1. CapturingInv
  BY TreeCaptured
<1>2. EntriesSound(c, Tree)
  BY <1>1, EntriesKept DEF Moved, CapturingInv
<1> QED
  BY <1>1, <1>2 DEF Moved, CapturingInv

(* A directory is entered: the walk has all that is below it to look at.   *)
LEMMA EnteredIs ==
  ASSUME NEW tree, IsTree(tree), NEW q \in DOMAIN tree
  PROVE  /\ Entered(q) \in Frames /\ Entered(q).at = q
         /\ Entered(q).rest \subseteq NamesIn(tree, q)
  BY DEF Entered, Frames, IsTree

(* Every position lies at or below a root.                                 *)
LEMMA TreeStarts ==
  ASSUME NEW tree, IsTree(tree), NEW p \in DOMAIN tree
  PROVE  /\ p \in Seq(Nat) /\ Len(p) \in Nat \ {0} /\ p[1] \in {1, 2}
         /\ Above(<<p[1]>>, p)
<1>1. p \in Seq(Nat) /\ p # <<>> /\ p[1] \in {1, 2}
  BY DEF IsTree
<1>2. Len(p) \in Nat \ {0}
  BY <1>1, EmptySeq
<1> QED
  BY <1>1, <1>2 DEF Above

HomeEntered == <<Entered(<<1>>)>>

(* The directories entered when the roots have been looked at.             *)
LEMMA RootPushed ==
  ASSUME NEW tree, IsTree(tree), NEW r \in {1, 2}, NEW frames,
         WalkSound(frames, tree),
         frames = <<>> \/ (r = 2 /\ frames = HomeEntered),
         NEW pushed, pushed = <<Entered(<<r>>)>> \o frames
  PROVE  /\ WalkSound(pushed, tree)
         /\ pushed = <<Entered(<<r>>)>> \/ r = 2
         /\ \A p : Awaits(Entered(<<r>>), p) \/ AwaitedIn(frames, p) =>
              AwaitedIn(pushed, p)
<1> DEFINE f == Entered(<<r>>)
           e == Entered(<<1>>)
<1>1. /\ f \in Frames /\ f.at = <<r>> /\ f.rest \subseteq NamesIn(tree, f.at)
      /\ f.at \in DOMAIN tree
  <2>1. <<r>> \in DOMAIN tree
    BY DEF IsTree
  <2> QED
    BY <2>1, EnteredIs
<1>2. /\ e \in Frames /\ e.at = <<1>> /\ e.rest \subseteq NamesIn(tree, e.at)
      /\ e.at \in DOMAIN tree
  <2>1. <<1>> \in DOMAIN tree
    BY DEF IsTree
  <2> QED
    BY <2>1, EnteredIs
<1> HIDE DEF f, e
<1>3. /\ WalkSound(<<f>>, tree) /\ Len(<<f>>) = 1 /\ <<f>>[1] = f
      /\ \A p : Awaits(f, p) => AwaitedIn(<<f>>, p)
  <2>1. WalkSound(<<>>, tree)
    BY DEF WalkSound
  <2>2. Append(<<>>, f) = <<f>>
    OBVIOUS
  <2>3. \A i \in 1..Len(<<>>) : Behind(<<>>[i], f.at)
    OBVIOUS
  <2> DEFINE none == <<>>
  <2> HIDE DEF none
  <2>4. /\ WalkSound(Append(none, f), tree)
        /\ \A p : AwaitedIn(none, p) \/ Awaits(f, p) =>
             AwaitedIn(Append(none, f), p)
    BY <1>1, <2>1, <2>3, WalkPushed DEF none
  <2>5. Len(<<f>>) = 1 /\ <<f>>[1] = f
    OBVIOUS
  <2>6. Append(none, f) = <<f>>
    BY <2>2 DEF none
  <2> QED
    BY <2>4, <2>5, <2>6
<1>4. CASE frames = <<>>
  <2>1. pushed = <<f>>
    BY <1>4 DEF f
  <2>2. \A p : ~AwaitedIn(frames, p)
    BY <1>4 DEF AwaitedIn
  <2> QED
    BY <1>3, <2>1, <2>2 DEF f
<1>5. CASE r = 2 /\ frames = <<e>>
  <2>1. pushed = Append(<<f>>, e)
    BY <1>5 DEF f
  <2>2. \A i \in 1..Len(<<f>>) : Behind(<<f>>[i], e.at)
    <3>1. f.at = <<2>>
      BY <1>1, <1>5
    <3>2. e.at[1] = 1
      BY <1>2
    <3>3. Behind(f, e.at)
      BY <3>1, <3>2 DEF Behind
    <3> QED
      BY <1>3, <3>3
  <2> DEFINE one == <<f>>
  <2>a. WalkSound(one, tree) /\ \A i \in 1..Len(one) : Behind(one[i], e.at)
    BY <1>3, <2>2
  <2> HIDE DEF one
  <2>b. /\ WalkSound(Append(one, e), tree)
        /\ \A p : AwaitedIn(one, p) \/ Awaits(e, p) =>
             AwaitedIn(Append(one, e), p)
    BY <1>2, <2>a, WalkPushed
  <2>3. /\ WalkSound(pushed, tree)
        /\ \A p : AwaitedIn(<<f>>, p) \/ Awaits(e, p) => AwaitedIn(pushed, p)
    BY <2>1, <2>b DEF one
  <2>4. \A p : AwaitedIn(frames, p) => Awaits(e, p)
    BY <1>5 DEF AwaitedIn
  <2> QED
    BY <1>3, <1>5, <2>3, <2>4 DEF f
<1> QED
  BY <1>4, <1>5 DEF e, HomeEntered

(* A root is looked at.                                                    *)
LEMMA RootKeeps ==
  ASSUME CaptureInv, CaptureRoot
  PROVE  CaptureInv'
<1> DEFINE r == Head(roots)
           q == <<r>>
<1>1. /\ Capturing /\ Capture /\ roots # <<>> /\ ~context.stopped
      /\ roots' = Tail(roots)
  BY DEF CaptureRoot, Capture
<1>2. IsTree(Tree) /\ limits \in CaptureLimits /\ CapturingInv
  BY <1>1, TreeCaptured
<1>3. \/ /\ r = 1 /\ roots = <<1, 2>> /\ roots' = <<2>> /\ walk = <<>>
         /\ DOMAIN context.entries \subseteq {}
      \/ /\ r = 2 /\ roots = <<2>> /\ roots' = <<>>
         /\ walk \in {<<>>, <<Entered(<<1>>)>>}
         /\ DOMAIN context.entries \subseteq {<<1>>}
  <2>1. CASE roots = <<1, 2>> /\ walk = <<>> /\ DOMAIN context.entries = {}
    <3>1. Head(<<1, 2>>) = 1 /\ Tail(<<1, 2>>) = <<2>>
      OBVIOUS
    <3>2. r = 1 /\ roots' = <<2>>
      BY <1>1, <2>1, <3>1
    <3> QED
      BY <2>1, <3>2
  <2>2. CASE /\ roots = <<2>> /\ walk \in {<<>>, <<Entered(<<1>>)>>}
             /\ DOMAIN context.entries \subseteq {<<1>>}
    <3>1. Head(<<2>>) = 2 /\ Tail(<<2>>) = <<>>
      OBVIOUS
    <3>2. r = 2 /\ roots' = <<>>
      BY <1>1, <2>2, <3>1
    <3> QED
      BY <2>2, <3>2
  <2>3. RootsInv
    BY <1>2 DEF CapturingInv
  <2> QED
    BY <1>1, <2>1, <2>2, <2>3 DEF RootsInv
<1>4. /\ r \in {1, 2} /\ q \in DOMAIN Tree /\ q \in Seq(Nat) /\ q # <<>>
      /\ Len(q) = 1
  BY <1>2, <1>3 DEF IsTree
<1>5. PICK c \in ReserveVisit(context, q) :
        IF c.stopped THEN context' = c /\ walk' = walk
        ELSE \E outcome \in Inspected(c, q) :
               /\ context' = Keep(outcome, q)
               /\ walk' = IF IsDirectory(outcome)
                          THEN <<Entered(q)>> \o walk ELSE walk
  BY DEF CaptureRoot
<1>6. Moved(context, c, q)
  BY <1>1, <1>2, <1>5, Reserves DEF CapturingInv
<1>7. CASE c.stopped
  <2>1. context' = c /\ walk' = walk
    BY <1>5, <1>7
  <2>2. /\ IsContext(c) /\ Extends(c, context) /\ EntriesSound(c, Tree)
        /\ c.entries = context.entries /\ StoppedAt(c, q)
        /\ Cardinality(DOMAIN c.entries) <= limits.maxEntries
    BY <1>1, <1>6, <1>7, PassedBy
  <2>3. WalkSound(walk', Tree)
    BY <1>2, <2>1 DEF CapturingInv
  <2>4. RootsInv'
    BY <1>3, <2>1, <2>2 DEF RootsInv
  <2>5. Accounts(c, Tree, roots', walk')
    <3>1. \A p \in Visible(Tree) : p \in Seq(Nat)
      BY <1>2 DEF Visible, IsTree
    <3>2. \A p \in Visible(Tree) : Explained(c, p)
      BY <1>4, <2>2, <3>1, StopExplains
    <3> QED
      BY <3>2 DEF Accounts
  <2> QED
    BY <1>1, <2>1, <2>2, <2>3, <2>4, <2>5, CaptureGoesOn
<1>8. CASE ~c.stopped
  <2>1. PICK outcome \in Inspected(c, q) :
          /\ context' = Keep(outcome, q)
          /\ walk' = IF IsDirectory(outcome)
                     THEN <<Entered(q)>> \o walk ELSE walk
    BY <1>5, <1>8
  <2> DEFINE k == context'
  <2>2. k = Keep(outcome, q)
    BY <2>1
  <2> HIDE DEF k
  <2>3. /\ IsContext(k) /\ Extends(k, context) /\ (k.stopped => StoppedAt(k, q))
        /\ EntriesSound(k, Tree)
        /\ Cardinality(DOMAIN context.entries) \in Nat
        /\ Cardinality(DOMAIN k.entries) \in Nat
        /\ Cardinality(DOMAIN k.entries) <= Cardinality(DOMAIN context.entries) + 1
        /\ DOMAIN context.entries \subseteq DOMAIN k.entries
        /\ DOMAIN k.entries \subseteq DOMAIN context.entries \union {q}
        /\ \A p \in Visible(Tree) \ DOMAIN k.entries :
             Above(q, p) => \/ Explained(k, p)
                            \/ IsDirectory(outcome) /\ Awaits(Entered(q), p)
    BY <1>1, <1>4, <1>8, <2>2, Looked
  <2>4. /\ WalkSound(walk', Tree) 
        /\ \A p : AwaitedIn(walk, p) => AwaitedIn(walk', p)
        /\ \A p : IsDirectory(outcome) /\ Awaits(Entered(q), p) =>
             AwaitedIn(walk', p)
        /\ r = 1 => walk' \in {<<>>, <<Entered(<<1>>)>>}
    <3>1. WalkSound(walk, Tree)
      BY <1>2 DEF CapturingInv
    <3>2. CASE IsDirectory(outcome)
      <4>1. walk' = <<Entered(<<r>>)>> \o walk
        BY <2>1, <3>2
      <4>2. walk = <<>> \/ (r = 2 /\ walk = HomeEntered)
        BY <1>3 DEF HomeEntered
      <4>3. r \in {1, 2}
        BY <1>4
      <4> HIDE DEF r
      <4>4. /\ WalkSound(walk', Tree)
            /\ walk' = <<Entered(<<r>>)>> \/ r = 2
            /\ \A p : Awaits(Entered(<<r>>), p) \/ AwaitedIn(walk, p) =>
                 AwaitedIn(walk', p)
        BY <1>2, <3>1, <4>1, <4>2, <4>3, RootPushed
      <4> QED
        BY <4>4
    <3>3. CASE ~IsDirectory(outcome)
      <4>1. walk' = walk
        BY <2>1, <3>3
      <4> QED
        BY <1>3, <3>1, <3>3, <4>1
    <3> QED
      BY <3>2, <3>3
  <2>5. RootsInv'
    BY <1>3, <2>3, <2>4 DEF RootsInv, k
  <2>6. Cardinality(DOMAIN k.entries) <= limits.maxEntries
    <3>1. Cardinality(DOMAIN context.entries) <= 1
      <4>1. DOMAIN context.entries \subseteq {<<1>>}
        BY <1>3
      <4>2. IsFiniteSet({<<1>>}) /\ Cardinality({<<1>>}) = 1
        BY FS_Singleton
      <4> QED
        BY <4>1, <4>2, FS_Subset
    <3>2. limits.maxEntries \in Nat \ {0, 1}
      BY <1>2, CaptureLimitsAssumption
    <3> QED
      BY <2>3, <3>1, <3>2
  <2>7. Accounts(k, Tree, roots', walk')
    <3> SUFFICES ASSUME NEW p \in Visible(Tree) \ DOMAIN k.entries
                 PROVE  \/ Explained(k, p)
                        \/ /\ ~k.stopped
                           /\ AwaitedAt(roots', p) \/ AwaitedIn(walk', p)
      BY DEF Accounts
    <3>1. p \in Seq(Nat) /\ p[1] \in {1, 2} /\ Above(<<p[1]>>, p)
      BY <1>2, TreeStarts DEF Visible
    <3>2. k.stopped => Explained(k, p)
      BY <1>4, <2>3, <3>1, StopExplains
    <3>3. \/ Explained(context, p)
          \/ AwaitedAt(roots, p) \/ AwaitedIn(walk, p)
      BY <1>2, <2>3 DEF CapturingInv, Accounts
    <3>4. CASE AwaitedAt(roots, p)
      <4>1. CASE p[1] = r
        BY <2>3, <2>4, <3>1, <3>2, <4>1
      <4>2. CASE p[1] # r
        BY <1>3, <3>2, <3>4, <4>2 DEF AwaitedAt
      <4> QED
        BY <4>1, <4>2
    <3>5. CASE AwaitedIn(walk, p)
      BY <2>4, <3>2, <3>5
    <3>6. CASE Explained(context, p)
      BY <2>3, <3>6, ExplainedKept
    <3> QED
      BY <3>3, <3>4, <3>5, <3>6
  <2> QED
    BY <1>1, <2>3, <2>4, <2>5, <2>6, <2>7, CaptureGoesOn DEF k
<1> QED
  BY <1>7, <1>8

(* What the walk stands at.                                                *)
LEMMA TopIs ==
  ASSUME CaptureInv, Walking
  PROVE  /\ Capturing /\ ~context.stopped /\ roots = <<>> /\ walk # <<>>
         /\ IsTree(Tree) /\ limits \in CaptureLimits /\ CapturingInv
         /\ WalkSound(walk, Tree) /\ Accounts(context, Tree, <<>>, walk)
         /\ Left = Lower(walk) /\ Top = walk[Len(walk)]
         /\ Top \in Frames /\ Top.at \in DOMAIN Tree
         /\ Top.at \in Seq(Nat) /\ Top.at # <<>>
         /\ Top.rest \subseteq NamesIn(Tree, Top.at)
         /\ WalkSound(Lower(walk), Tree)
         /\ \A i \in 1..Len(Lower(walk)) : Behind(Lower(walk)[i], Top.at)
<1>1. Capturing /\ ~context.stopped /\ roots = <<>> /\ walk # <<>>
  BY DEF Walking
<1>2. IsTree(Tree) /\ limits \in CaptureLimits /\ CapturingInv
  BY <1>1, TreeCaptured
<1>3. WalkSound(walk, Tree) /\ Accounts(context, Tree, <<>>, walk)
  BY <1>1, <1>2 DEF CapturingInv
<1>4. Len(walk) \in 1..Len(walk) /\ Top \in Frames
  <2>1. walk \in Seq(Frames)
    BY <1>3 DEF WalkSound
  <2>2. Len(walk) \in Nat \ {0}
    BY <1>1, <2>1, EmptySeq
  <2> QED
    BY <2>1, <2>2, LenProperties DEF Top
<1>5. Top.at \in DOMAIN Tree /\ Top.rest \subseteq NamesIn(Tree, Top.at)
  BY <1>3, <1>4 DEF WalkSound, Top
<1>6. Top.at \in Seq(Nat) /\ Top.at # <<>>
  BY <1>2, <1>5 DEF IsTree
<1>7. /\ WalkSound(Lower(walk), Tree)
      /\ \A i \in 1..Len(Lower(walk)) : Behind(Lower(walk)[i], Top.at)
  BY <1>1, <1>3, WalkLower DEF Top
<1> QED
  BY <1>1, <1>2, <1>3, <1>4, <1>5, <1>6, <1>7 DEF Left, Lower, Top

(* A step of the walk that retains nothing.                                *)
LEMMA WalkGoesOn ==
  ASSUME CaptureInv, Walking, Capture, roots' = roots,
         NEW q \in Seq(Nat), q # <<>>, Moved(context, context', q),
         \A i \in 1..Len(Lower(walk)) : Behind(Lower(walk)[i], q),
         WalkSound(walk', Tree),
         \/ context'.stopped
         \/ \A p : AwaitedIn(Lower(walk), p) => AwaitedIn(walk', p),
         \A p \in Visible(Tree) :
           Awaits(Top, p) =>
             \/ Explained(context', p)
             \/ ~context'.stopped /\ AwaitedIn(walk', p)
  PROVE  CaptureInv'
<1> DEFINE k == context'
           others == walk'
<1>1. /\ Capturing /\ ~context.stopped /\ roots = <<>> /\ walk # <<>>
      /\ IsTree(Tree) /\ WalkSound(walk, Tree) /\ Top = walk[Len(walk)]
      /\ Accounts(context, Tree, <<>>, walk)
  BY TopIs
<1> HIDE DEF k, others
<1>2. /\ IsContext(k) /\ Extends(k, context) /\ EntriesSound(k, Tree)
      /\ k.entries = context.entries /\ (k.stopped => StoppedAt(k, q))
      /\ Cardinality(DOMAIN k.entries) <= limits.maxEntries
  BY <1>1, PassedBy DEF k
<1>3. Accounts(k, Tree, <<>>, others)
  <2>1. k.stopped \/ \A p : AwaitedIn(Lower(walk), p) => AwaitedIn(others, p)
    BY DEF k, others
  <2>2. \A p \in Visible(Tree) \ DOMAIN k.entries :
          Awaits(walk[Len(walk)], p) =>
            Explained(k, p) \/ (~k.stopped /\ AwaitedIn(others, p))
    BY <1>1 DEF k, others
  <2>3. DOMAIN context.entries \subseteq DOMAIN k.entries
    BY <1>2
  <2> QED
    BY <1>1, <1>2, <2>1, <2>2, <2>3, CaptureSettled
<1>4. RootsInv'
  BY <1>1 DEF RootsInv
<1> QED
  BY <1>1, <1>2, <1>3, <1>4, CaptureGoesOn DEF k, others

(* A directory is listed, or it is said why not.                           *)
LEMMA ListKeeps ==
  ASSUME CaptureInv, ListDirectory
  PROVE  CaptureInv'
<1> DEFINE q == Top.at
           names == Names(q)
           large == Cardinality(names) > limits.maxDirectoryEntries
           deep == Len(q) > limits.maxDepth /\ names # {}
<1>1. Walking /\ ~Top.listed /\ Capture /\ roots' = roots
  BY DEF ListDirectory, Capture
<1>2. /\ ~context.stopped /\ IsTree(Tree) /\ limits \in CaptureLimits
      /\ IsContext(context)
      /\ Left = Lower(walk) /\ Top \in Frames /\ q \in DOMAIN Tree
      /\ q \in Seq(Nat) /\ q # <<>> /\ WalkSound(Lower(walk), Tree)
      /\ \A i \in 1..Len(Lower(walk)) : Behind(Lower(walk)[i], q)
  BY <1>1, TopIs DEF CapturingInv
<1>3. \A p \in Visible(Tree) : p \in Seq(Nat) /\ p \in DOMAIN Tree
  BY <1>2 DEF Visible, IsTree
<1>4. \/ /\ context' \in Timed(RecordIssue(context, q), q)
                         \union {Late(context, q)}
         /\ walk' = Left
      \/ /\ \E reason \in {"directory_entry_limit", "depth_limit"} :
              context' = Truncated(context, q, reason)
         /\ walk' = Left
      \/ /\ walk' = Append(Left, [at |-> q, listed |-> TRUE, rest |-> names])
         /\ context' = context
  BY DEF ListDirectory
<1> HIDE DEF q, names
<1>5. CASE /\ context' \in Timed(RecordIssue(context, q), q)
                           \union {Late(context, q)}
           /\ walk' = Left
  <2>1. Moved(context, context', q)
        /\ (q \in context'.issues \/ StoppedAt(context', q))
    <3>1. CASE context' = Late(context, q)
      BY <1>2, <3>1, Stops DEF Late
    <3>2. CASE context' \in Timed(RecordIssue(context, q), q)
      <4> DEFINE d == RecordIssue(context, q)
      <4>1. Moved(context, d, q) /\ (q \in d.issues \/ StoppedAt(d, q))
        BY <1>2, Issues
      <4> HIDE DEF d
      <4>2. Moved(d, context', q)
        BY <3>2, <4>1, Times DEF Moved, d
      <4> QED
        BY <4>1, <4>2, MovesOn DEF Moved, Extends, StoppedAt
    <3> QED
      BY <1>5, <3>1, <3>2
  <2>2. \A p \in Visible(Tree) : Awaits(Top, p) => Explained(context', p)
    BY <1>2, <1>3, <2>1, IssueExplains DEF Awaits, q
  <2> QED
    BY <1>1, <1>2, <1>5, <2>1, <2>2, WalkGoesOn
<1>6. CASE /\ \E reason \in {"directory_entry_limit", "depth_limit"} :
                context' = Truncated(context, q, reason)
           /\ walk' = Left
  <2>1. PICK reason \in {"directory_entry_limit", "depth_limit"} :
          context' = Truncated(context, q, reason)
    BY <1>6
  <2>2. Moved(context, context', q) /\ <<q, reason>> \in context'.truncations
    BY <1>2, <2>1, WalkTruncates
  <2>3. \A p \in Visible(Tree) : Awaits(Top, p) => Explained(context', p)
    <3>1. ASSUME NEW p \in Visible(Tree), Awaits(Top, p)
          PROVE  Explained(context', p)
      <4>1. IsAtOrAbove(q, p)
        BY <1>2, <1>3, <3>1, PositionAbove DEF Awaits, q
      <4> QED
        BY <2>2, <4>1 DEF Explained
    <3> QED
      BY <3>1
  <2> QED
    BY <1>1, <1>2, <1>6, <2>2, <2>3, WalkGoesOn
<1>7. CASE /\ walk' = Append(Left, [at |-> q, listed |-> TRUE, rest |-> names])
           /\ context' = context
  <2> DEFINE f == [at |-> q, listed |-> TRUE, rest |-> names]
  <2>1. names = NamesIn(Tree, q)
    BY DEF names, Names, NamesIn
  <2>2. f \in Frames /\ f.at = q /\ f.rest = names /\ f.listed
    BY <1>2, <2>1, NamesAre DEF Frames
  <2> HIDE DEF f
  <2>3. /\ WalkSound(walk', Tree)
        /\ \A p : AwaitedIn(Lower(walk), p) \/ Awaits(f, p) => AwaitedIn(walk', p)
    BY <1>2, <1>7, <2>1, <2>2, WalkPushed DEF f
  <2>4. \A p \in Visible(Tree) : Awaits(Top, p) => Awaits(f, p)
    BY <1>2, <1>3, <2>1, <2>2, NamesAre DEF Awaits, q
  <2>5. Moved(context, context', q)
    BY <1>2, <1>7 DEF Moved, Extends
  <2> QED
    BY <1>1, <1>2, <1>7, <2>3, <2>4, <2>5, WalkGoesOn
<1> QED
  BY <1>4, <1>5, <1>6, <1>7

(* The least name that is left is looked at, or the capture stops.         *)
LEMMA ChildKeeps ==
  ASSUME CaptureInv, InspectChild
  PROVE  CaptureInv'
<1> DEFINE at == Top.at
           name == CHOOSE i \in Top.rest : \A j \in Top.rest : i <= j
           q == Append(at, name)
           w == [Top EXCEPT !.rest = @ \ {name}]
           remaining == Append(Left, w)
           full == Cardinality(DOMAIN context.entries) >= limits.maxEntries
<1>1. /\ Walking /\ Top.listed /\ Top.rest # {} /\ Capture /\ roots' = roots
  BY DEF InspectChild, Capture
<1>2. /\ Capturing /\ ~context.stopped /\ IsTree(Tree) /\ limits \in CaptureLimits
      /\ roots = <<>> /\ walk # <<>> /\ CapturingInv
      /\ IsContext(context) /\ Top = walk[Len(walk)]
      /\ WalkSound(walk, Tree) /\ Accounts(context, Tree, <<>>, walk)
      /\ Left = Lower(walk) /\ Top \in Frames /\ at \in DOMAIN Tree
      /\ at \in Seq(Nat) /\ at # <<>> /\ Top.rest \subseteq NamesIn(Tree, at)
      /\ WalkSound(Lower(walk), Tree)
      /\ \A i \in 1..Len(Lower(walk)) : Behind(Lower(walk)[i], at)
  BY <1>1, TopIs DEF CapturingInv
<1>3. \A p \in Visible(Tree) : p \in Seq(Nat) /\ p \in DOMAIN Tree
  BY <1>2 DEF Visible, IsTree
<1>4. /\ name \in Top.rest /\ name \in Nat /\ \A j \in Top.rest : name <= j
      /\ Top.rest \subseteq Nat
  <2>1. Top.rest \subseteq Nat
    BY <1>2 DEF Frames
  <2>2. \E i \in Top.rest : \A j \in Top.rest : i <= j
    BY <1>1, <2>1, LeastName
  <2>3. name \in Top.rest /\ \A j \in Top.rest : name <= j
    BY <2>2
  <2> QED
    BY <2>1, <2>3
<1> HIDE DEF name
<1>5. /\ q \in Seq(Nat) /\ q # <<>> /\ q \in DOMAIN Tree
      /\ Len(at) \in Nat \ {0} /\ Len(q) = Len(at) + 1
      /\ \A i \in 1..Len(at) : q[i] = at[i]
      /\ q[Len(at) + 1] = name /\ Above(at, q)
  <2>1. Len(at) \in Nat \ {0}
    BY <1>2, EmptySeq
  <2>2. /\ q \in Seq(Nat) /\ Len(q) = Len(at) + 1
        /\ \A i \in 1..Len(at) : q[i] = at[i]
        /\ q[Len(at) + 1] = name
    BY <1>2, <1>4, AppendProperties
  <2>3. q # <<>>
    BY <2>1, <2>2
  <2>4. q \in DOMAIN Tree
    BY <1>2, <1>4, NamesAre
  <2>5. Above(at, q)
    BY <2>1, <2>2 DEF Above
  <2> QED
    BY <2>1, <2>2, <2>3, <2>4, <2>5
<1>6. \A i \in 1..Len(Lower(walk)) : Behind(Lower(walk)[i], q)
  <2>1. \A i \in 1..Len(Lower(walk)) : Lower(walk)[i] \in Frames
    BY <1>2, LenProperties DEF WalkSound
  <2> QED
    BY <1>2, <1>4, <2>1, BehindDeeper
<1> HIDE DEF at
(* What the directory awaits is at or below q, or comes after it.          *)
<1>7. /\ w \in Frames /\ w.at = at /\ w.listed /\ w.rest = Top.rest \ {name}
      /\ \A p \in Visible(Tree) : Awaits(Top, p) =>
           \/ Above(q, p)
           \/ After(p, q) /\ Awaits(w, p)
  <2>1. w \in Frames /\ w.at = at /\ w.listed /\ w.rest = Top.rest \ {name}
    <3>1. /\ w \in Frames /\ w.at = Top.at /\ w.listed = Top.listed
          /\ w.rest = Top.rest \ {name}
      BY <1>2 DEF Frames
    <3> QED
      BY <1>1, <3>1 DEF at
  <2>2. ASSUME NEW p \in Visible(Tree), Awaits(Top, p)
        PROVE  Above(q, p) \/ (After(p, q) /\ Awaits(w, p))
    <3> DEFINE n == Len(at) + 1
    <3>1. /\ p \in Seq(Nat) /\ Len(p) \in Nat /\ Len(at) < Len(p)
          /\ Above(at, p) /\ p[n] \in Top.rest
      BY <1>1, <1>3, <2>2, LenProperties DEF Awaits, at
    <3>2. CASE p[n] = name
      <4>1. \A i \in 1..(Len(at) + 1) : p[i] = q[i]
        BY <1>5, <3>1, <3>2 DEF Above
      <4> QED
        BY <1>5, <3>1, <4>1 DEF Above
    <3>3. CASE p[n] # name
      <4>1. p[n] > q[n]
        BY <1>4, <1>5, <3>1, <3>3
      <4>2. n \in 1..Len(p) /\ n <= Len(q) /\ \A i \in 1..(n - 1) : p[i] = q[i]
        BY <1>5, <3>1 DEF Above
      <4>3. After(p, q)
        BY <4>1, <4>2 DEF After
      <4>4. Awaits(w, p)
        BY <2>1, <3>1, <3>3 DEF Awaits
      <4> QED
        BY <4>3, <4>4
    <3> QED
      BY <3>2, <3>3
  <2> QED
    BY <2>1, <2>2
<1> HIDE DEF q, w
<1>8. CASE full
  <2> DEFINE c == Stopped(context, at, "entry_limit")
  <2>1. context' = c /\ walk' = walk
    BY <1>8 DEF InspectChild, at
  <2>2. Moved(context, c, at) /\ c.stopped /\ StoppedAt(c, at)
    BY <1>2, Stops
  <2> HIDE DEF c
  <2>3. \A p \in Visible(Tree) : Awaits(Top, p) => Explained(c, p)
    BY <1>2, <1>3, <2>2, StopExplains DEF Awaits, at
  <2> QED
    BY <1>1, <1>2, <2>1, <2>2, <2>3, WalkGoesOn
<1>9. CASE ~full
  <2>1. PICK c \in ReserveVisit(context, q) :
          IF c.stopped THEN context' = c /\ walk' = walk
          ELSE \E outcome \in Inspected(c, q) :
                 /\ context' = Keep(outcome, q)
                 /\ walk' = IF IsDirectory(outcome)
                            THEN Append(remaining, Entered(q))
                            ELSE remaining
    BY <1>9 DEF InspectChild, q, w, at, name
  <2>2. Moved(context, c, q)
    BY <1>2, <2>1, Reserves
  <2>3. CASE c.stopped
    <3>1. context' = c /\ walk' = walk
      BY <2>1, <2>3
    <3>2. StoppedAt(c, q)
      BY <2>2, <2>3 DEF Moved
    <3>3. \A p \in Visible(Tree) : Awaits(Top, p) => Explained(c, p)
      BY <1>3, <1>5, <1>7, <3>2, StopExplains
    <3> QED
      BY <1>1, <1>2, <1>5, <1>6, <2>2, <2>3, <3>1, <3>3, WalkGoesOn
  <2>4. CASE ~c.stopped
    <3>1. PICK outcome \in Inspected(c, q) :
            /\ context' = Keep(outcome, q)
            /\ walk' = IF IsDirectory(outcome)
                       THEN Append(remaining, Entered(q)) ELSE remaining
      BY <2>1, <2>4
    <3> DEFINE k == context'
               others == walk'
    <3>2. k = Keep(outcome, q)
      BY <3>1
    <3> HIDE DEF k
    <3>3. /\ IsContext(k) /\ Extends(k, context) /\ (k.stopped => StoppedAt(k, q))
          /\ EntriesSound(k, Tree)
          /\ Cardinality(DOMAIN context.entries) \in Nat
          /\ Cardinality(DOMAIN k.entries) \in Nat
          /\ Cardinality(DOMAIN k.entries)
               <= Cardinality(DOMAIN context.entries) + 1
          /\ DOMAIN context.entries \subseteq DOMAIN k.entries
          /\ \A p \in Visible(Tree) \ DOMAIN k.entries :
               Above(q, p) => \/ Explained(k, p)
                              \/ IsDirectory(outcome) /\ Awaits(Entered(q), p)
      BY <1>2, <1>5, <2>4, <3>2, Looked
    <3>4. Cardinality(DOMAIN k.entries) <= limits.maxEntries
      <4>1. limits.maxEntries \in Nat
        BY <1>2, CaptureLimitsAssumption
      <4> QED
        BY <1>9, <3>3, <4>1
    <3>5. /\ WalkSound(remaining, Tree)
          /\ \A p : AwaitedIn(Lower(walk), p) \/ Awaits(w, p) =>
               AwaitedIn(remaining, p)
      <4>1. /\ w.at \in DOMAIN Tree /\ w.rest \subseteq NamesIn(Tree, w.at)
            /\ \A i \in 1..Len(Lower(walk)) : Behind(Lower(walk)[i], w.at)
        BY <1>2, <1>7
      <4> QED
        BY <1>2, <1>7, <4>1, WalkPushed
    <3>6. \A i \in 1..Len(remaining) : Behind(remaining[i], q)
      <4>1. Lower(walk) \in Seq(Frames)
        BY <1>2 DEF WalkSound
      <4>2. /\ Len(remaining) = Len(Lower(walk)) + 1
            /\ Len(Lower(walk)) \in Nat
            /\ \A i \in 1..Len(Lower(walk)) : remaining[i] = Lower(walk)[i]
            /\ remaining[Len(Lower(walk)) + 1] = w
        BY <1>2, <1>7, <4>1, AppendProperties, LenProperties
      <4>3. Behind(w, q)
        <5>1. Len(w.at) < Len(q) /\ Above(w.at, q)
          BY <1>5, <1>7
        <5>2. \A r \in w.rest : q[Len(w.at) + 1] < r
          BY <1>4, <1>5, <1>7
        <5> QED
          BY <1>7, <5>1, <5>2 DEF Behind
      <4> HIDE DEF remaining
      <4> QED
        BY <1>6, <4>2, <4>3
    <3> HIDE DEF remaining
    <3>7. /\ WalkSound(others, Tree)
          /\ \A p : AwaitedIn(Lower(walk), p) \/ Awaits(w, p) =>
               AwaitedIn(others, p)
          /\ \A p : IsDirectory(outcome) /\ Awaits(Entered(q), p) =>
               AwaitedIn(others, p)
      <4>1. CASE IsDirectory(outcome)
        <5>1. others = Append(remaining, Entered(q))
          BY <3>1, <4>1
        <5>2. /\ Entered(q) \in Frames /\ Entered(q).at = q
              /\ Entered(q).rest \subseteq NamesIn(Tree, q)
          BY <1>2, <1>5, EnteredIs
        <5>3. /\ WalkSound(others, Tree)
              /\ \A p : AwaitedIn(remaining, p) \/ Awaits(Entered(q), p) =>
                   AwaitedIn(others, p)
          BY <1>5, <3>5, <3>6, <5>1, <5>2, WalkPushed
        <5> QED
          BY <3>5, <5>3
      <4>2. CASE ~IsDirectory(outcome)
        <5>1. others = remaining
          BY <3>1, <4>2
        <5> QED
          BY <3>5, <4>2, <5>1
      <4> QED
        BY <4>1, <4>2
    <3> HIDE DEF others
    <3>8. Accounts(k, Tree, <<>>, others)
      <4>1. ASSUME NEW p \in Visible(Tree) \ DOMAIN k.entries, Awaits(Top, p)
            PROVE  Explained(k, p) \/ (~k.stopped /\ AwaitedIn(others, p))
        <5>1. Above(q, p) \/ (After(p, q) /\ Awaits(w, p))
          BY <1>7, <4>1
        <5>2. k.stopped => Explained(k, p)
          BY <1>3, <1>5, <3>3, <5>1, StopExplains
        <5> QED
          BY <3>3, <3>7, <5>1, <5>2
      <4>2. \A p \in Visible(Tree) \ DOMAIN k.entries :
              Awaits(walk[Len(walk)], p) =>
                Explained(k, p) \/ (~k.stopped /\ AwaitedIn(others, p))
        BY <1>2, <4>1
      <4>3. k.stopped \/ \A p : AwaitedIn(Lower(walk), p) => AwaitedIn(others, p)
        BY <3>7
      <4> QED
        BY <1>2, <1>5, <1>6, <3>3, <4>2, <4>3, CaptureSettled
    <3>9. RootsInv'
      BY <1>1, <1>2 DEF RootsInv
    <3>10. roots' = <<>>
      BY <1>1, <1>2
    <3> QED
      BY <1>1, <1>2, <3>3, <3>4, <3>7, <3>8, <3>9, <3>10, CaptureGoesOn
         DEF k, others
  <2> QED
    BY <2>3, <2>4
<1> QED
  BY <1>8, <1>9

-----------------------------------------------------------------------------
(* A capture begins.                                                       *)
LEMMA FreshIs ==
  ASSUME limits \in CaptureLimits, NEW tree, IsTree(tree)
  PROVE  /\ IsContext(FreshContext) /\ WalkSound(<<>>, tree)
         /\ EntriesSound(FreshContext, tree) /\ DOMAIN FreshContext.entries = {}
         /\ Cardinality(DOMAIN FreshContext.entries) <= limits.maxEntries
         /\ Accounts(FreshContext, tree, <<1, 2>>, <<>>)
<1> DEFINE f == FALSE
<1>1. f \in BOOLEAN /\ f = FALSE
  OBVIOUS
<1>2. IsFiniteSet({}) /\ Cardinality({}) = 0
  BY FS_EmptySet
<1>3. limits.maxIssues \in Nat /\ limits.maxEntries \in Nat
  BY CaptureLimitsAssumption
<1>4. FreshContext = ContextOf(NothingRetained, {}, {}, 0, 0, f)
  BY DEF FreshContext, ContextOf
<1> HIDE DEF f
<1>5. /\ IsContext(FreshContext) /\ FreshContext.entries = NothingRetained
      /\ FreshContext.stopped = f
  BY <1>1, <1>2, <1>3, <1>4, IsContextOf
<1>6. DOMAIN FreshContext.entries = {}
  BY <1>5 DEF NothingRetained
<1>7. WalkSound(<<>>, tree)
  BY DEF WalkSound
<1>8. EntriesSound(FreshContext, tree)
  BY <1>2, <1>6 DEF EntriesSound
<1>9. Cardinality(DOMAIN FreshContext.entries) <= limits.maxEntries
  BY <1>2, <1>3, <1>6
<1>10. Accounts(FreshContext, tree, <<1, 2>>, <<>>)
  <2>1. ASSUME NEW p \in Visible(tree)
        PROVE  AwaitedAt(<<1, 2>>, p)
    <3>1. p[1] \in {1, 2}
      BY TreeStarts DEF Visible
    <3> QED
      BY <3>1 DEF AwaitedAt
  <2>2. ~FreshContext.stopped
    BY <1>1, <1>5
  <2> QED
    BY <2>1, <2>2 DEF Accounts
<1> QED
  BY <1>5, <1>6, <1>7, <1>8, <1>9, <1>10

(* The first capture begins.                                               *)
LEMMA CaptureInitially ==
  ASSUME CaptureInit
  PROVE  CaptureInv
<1> USE DEF CaptureInit
<1>1. Len(snapshots) = 0
  OBVIOUS
<1>2. SnapshotsInv
  <2>1. snapshots \in Seq({})
    OBVIOUS
  <2> QED
    BY <2>1, <1>1 DEF SnapshotsInv
<1>3. IsTree(Tree)
  BY <1>1, ProfilesAssumption DEF Tree
<1>4. CapturingInv
  BY <1>3, FreshIs DEF CapturingInv, RootsInv
<1> QED
  BY <1>2, <1>4 DEF CaptureInv

(* What the capture has not retained when it ends is explained.            *)
LEMMA TakeKeeps ==
  ASSUME CaptureInv, TakeSnapshot
  PROVE  CaptureInv'
<1> DEFINE snap == [entries |-> context.entries, issues |-> context.issues,
                    truncations |-> context.truncations,
                    complete |-> context.issues = {} /\ context.truncations = {}]
           n == Len(snapshots) + 1
<1>1. /\ Capturing /\ UNCHANGED <<trees, limits, difference, stored>>
      /\ context.stopped \/ (roots = <<>> /\ walk = <<>>)
      /\ snapshots' = Append(snapshots, snap)
      /\ context' = FreshContext /\ roots' = <<1, 2>> /\ walk' = <<>>
  BY DEF TakeSnapshot
<1>2. IsTree(Tree) /\ limits \in CaptureLimits /\ CapturingInv
  BY <1>1, TreeCaptured
<1>3. /\ snap.entries = context.entries /\ snap.issues = context.issues
      /\ snap.truncations = context.truncations
      /\ snap.complete <=> context.issues = {} /\ context.truncations = {}
  OBVIOUS
<1> HIDE DEF snap
<1>4. SnapshotHonest(snap, Tree)
  <2>1. Extends(snap, context)
    BY <1>3 DEF Extends
  <2>2. \A p \in Visible(Tree) \ DOMAIN context.entries : Explained(context, p)
    BY <1>1, <1>2 DEF CapturingInv, Accounts, AwaitedAt, AwaitedIn
  <2>3. \A p \in Visible(Tree) \ DOMAIN snap.entries : Explained(snap, p)
    BY <1>3, <2>1, <2>2, ExplainedKept
  <2>4. EntriesSound(snap, Tree)
    BY <1>2, <1>3, <2>1, EntriesKept DEF CapturingInv
  <2>5. /\ Cardinality(DOMAIN snap.entries) <= limits.maxEntries
        /\ Cardinality(snap.issues) <= limits.maxIssues
    BY <1>2, <1>3 DEF CapturingInv, IsContext
  <2> QED
    BY <2>3, <2>4, <2>5 DEF SnapshotHonest, EntriesSound
<1>5. PICK S : snapshots \in Seq(S)
  BY DEF CaptureInv, SnapshotsInv
<1>6. Len(snapshots) \in Nat /\ n \in 1..2 /\ n = Len(snapshots) + 1
  BY <1>1, <1>5, LenProperties DEF Capturing
<1>7. /\ snapshots' \in Seq(S \union {snap}) /\ Len(snapshots') = n
      /\ \A i \in 1..Len(snapshots) : snapshots'[i] = snapshots[i]
      /\ snapshots'[n] = snap
  <2>1. snapshots \in Seq(S \union {snap})
    BY <1>5
  <2> QED
    BY <1>1, <2>1, AppendProperties
<1>8. trees[n] = Tree
  BY DEF Tree
<1> HIDE DEF n
<1>9. SnapshotsInv'
  <2>1. difference = {}
    BY <1>1, <1>6 DEF Capturing, CaptureInv, SnapshotsInv
  <2>2. \A i \in 1..Len(snapshots') :
          /\ SnapshotHonest(snapshots'[i], trees[i])
          /\ snapshots'[i].complete <=>
               snapshots'[i].issues = {} /\ snapshots'[i].truncations = {}
    <3>1. \A i \in 1..Len(snapshots') : i \in 1..Len(snapshots) \/ i = n
      BY <1>6, <1>7
    <3> QED
      BY <1>3, <1>4, <1>7, <1>8, <3>1 DEF CaptureInv, SnapshotsInv
  <2>3. \A i, s, t : SnapshotHonest(s, t) => SnapshotHonest(s, t)'
    BY <1>1 DEF SnapshotHonest, Faithful, TooLarge
  <2> QED
    BY <1>1, <1>6, <1>7, <2>1, <2>2, <2>3 DEF SnapshotsInv, CaptureInv
<1>10. Capturing' => CapturingInv'
  <2> SUFFICES ASSUME Capturing'
               PROVE  CapturingInv'
    OBVIOUS
  <2>1. IsTree(Tree)'
    <3>1. Len(snapshots') + 1 \in 1..2
      BY <1>6, <1>7 DEF Capturing
    <3>2. IsTree(trees[Len(snapshots') + 1])
      BY <3>1, ProfilesAssumption DEF CaptureInv
    <3> QED
      BY <1>1, <3>2 DEF Tree
  <2>2. /\ IsContext(FreshContext) /\ WalkSound(<<>>, Tree')
        /\ EntriesSound(FreshContext, Tree')
        /\ DOMAIN FreshContext.entries = {}
        /\ Cardinality(DOMAIN FreshContext.entries) <= limits.maxEntries
        /\ Accounts(FreshContext, Tree', <<1, 2>>, <<>>)
    BY <1>2, <2>1, FreshIs
  <2>3. IsContext(context)' /\ RootsInv'
    BY <1>1, <2>2 DEF IsContext, RootsInv
  <2>4. EntriesSound(context, Tree)'
    BY <1>1, <2>2 DEF EntriesSound, Faithful, TooLarge
  <2> QED
    BY <1>1, <2>2, <2>3, <2>4 DEF CapturingInv
<1> QED
  BY <1>1, <1>2, <1>9, <1>10 DEF CaptureInv

(* The snapshots are compared.                                             *)
LEMMA CompareKeeps ==
  ASSUME CaptureInv, CompareSnapshots
  PROVE  CaptureInv'
<1>1. /\ Len(snapshots) = 2 /\ snapshots' = snapshots
      /\ UNCHANGED <<trees, limits, stored>>
      /\ difference' = {Diff(snapshots[1], snapshots[2])}
  BY DEF CompareSnapshots
<1>2. ~Capturing'
  BY <1>1 DEF Capturing
<1>3. SnapshotsInv'
  <2>1. \A s, t : SnapshotHonest(s, t) => SnapshotHonest(s, t)'
    BY <1>1 DEF SnapshotHonest, Faithful, TooLarge
  <2> QED
    BY <1>1, <2>1 DEF CaptureInv, SnapshotsInv
<1> QED
  BY <1>1, <1>2, <1>3 DEF CaptureInv

(* The artifacts are written in their order.                               *)
LEMMA PersistKeeps ==
  ASSUME CaptureInv, NEW n \in 1..3, Persist(n)
  PROVE  CaptureInv'
<1>1. /\ difference # {} /\ stored = {Artifacts[i] : i \in 1..(n - 1)}
      /\ stored' = stored \union {Artifacts[n]}
      /\ UNCHANGED <<trees, limits, snapshots, difference>>
  BY DEF Persist
<1>2. Len(snapshots) = 2
  BY <1>1 DEF CaptureInv, SnapshotsInv
<1>3. ~Capturing'
  BY <1>1, <1>2 DEF Capturing
<1>4. stored' \in {{}, {"before"}, {"before", "after"},
                   {"before", "after", "delta"}}
  <2>1. CASE n = 1
    BY <1>1, <2>1 DEF Artifacts
  <2>2. CASE n = 2
    BY <1>1, <2>2 DEF Artifacts
  <2>3. CASE n = 3
    BY <1>1, <2>3 DEF Artifacts
  <2> QED
    BY <2>1, <2>2, <2>3
<1>5. SnapshotsInv'
  <2>1. \A s, t : SnapshotHonest(s, t) => SnapshotHonest(s, t)'
    BY <1>1 DEF SnapshotHonest, Faithful, TooLarge
  <2> QED
    BY <1>1, <1>4, <2>1 DEF CaptureInv, SnapshotsInv
<1> QED
  BY <1>1, <1>3, <1>5 DEF CaptureInv

(* The invariant of the captures, of the comparison and of persisting it   *)
(* (captureFilesystemState, diffFilesystemState,                           *)
(* persistFilesystemStateEvidence).                                        *)
THEOREM CaptureInvariant == CaptureSpec => []CaptureInv
<1>1. CaptureInit => CaptureInv
  BY CaptureInitially
<1>2. CaptureInv /\ [CaptureNext]_stateVars => CaptureInv'
  BY RootKeeps, ListKeeps, ChildKeeps, LeaveKeeps, TakeKeeps, CompareKeeps,
     PersistKeeps, CaptureStays DEF CaptureNext
<1> QED
  BY <1>1, <1>2, PTL DEF CaptureSpec

-----------------------------------------------------------------------------
(* Two captures of one object are told apart exactly where they differ.    *)
Exact(e, object) ==
  /\ e.kind = object.kind
  /\ \/ e = InFull(object) /\ ~TooLarge(object)
     \/ /\ InPart(e, InFull(object)) /\ TooLarge(object)
        /\ e.status = "omitted_size_limit"

(* A complete snapshot has the whole tree.                                 *)
LEMMA CompleteIs ==
  ASSUME NEW s, NEW tree, SnapshotHonest(s, tree), s.issues = {},
         s.truncations = {}
  PROVE  /\ DOMAIN s.entries = Visible(tree)
         /\ \A p \in Visible(tree) : Exact(s.entries[p], tree[p])
<1>1. \A p : ~Explained(s, p)
  BY DEF Explained
<1>2. DOMAIN s.entries = Visible(tree)
  BY <1>1 DEF SnapshotHonest
<1>3. \A p \in DOMAIN s.entries : Faithful(s, p, tree[p], s.entries[p])
  BY DEF SnapshotHonest
<1> QED
  BY <1>1, <1>2, <1>3 DEF Faithful, Exact

(* What an exact entry says of an object.                                  *)
LEMMA ExactIs ==
  ASSUME NEW e, NEW object, Exact(e, object),
         object.kind \in {"directory", "file", "symlink"}
  PROVE  /\ e.mode = IF object.kind = "symlink" THEN 0 ELSE object.mode
         /\ e.size = IF object.kind = "file" THEN object.size ELSE 0
         /\ e.status = CASE TooLarge(object) -> "omitted_size_limit"
                         [] ~TooLarge(object) /\ object.kind = "file" -> "hashed"
                         [] OTHER -> "recorded"
         /\ e.content = IF TooLarge(object) \/ object.kind = "directory" THEN {}
                        ELSE {object.content}
<1> DEFINE whole == InFull(object)
<1>1. /\ DOMAIN whole = {"kind", "mode", "size", "status", "content"}
      /\ whole.mode = IF object.kind = "symlink" THEN 0 ELSE object.mode
      /\ whole.size = IF object.kind = "file" THEN object.size ELSE 0
      /\ whole.status = IF object.kind = "file" THEN "hashed" ELSE "recorded"
      /\ whole.content = IF object.kind = "directory" THEN {}
                         ELSE {object.content}
  <2>1. CASE object.kind = "directory"
    BY <2>1 DEF InFull, Captured
  <2>2. CASE object.kind = "file"
    BY <2>2 DEF InFull, Captured
  <2>3. CASE object.kind = "symlink"
    BY <2>3 DEF InFull, Captured
  <2> QED
    BY <2>1, <2>2, <2>3
<1> HIDE DEF whole
<1>2. CASE e = whole /\ ~TooLarge(object)
  BY <1>1, <1>2
<1>3. CASE /\ InPart(e, whole) /\ TooLarge(object)
           /\ e.status = "omitted_size_limit"
  <2> DEFINE f == [e EXCEPT !.status = whole.status]
             g == [f EXCEPT !.content = whole.content]
  <2>1. g = whole /\ e.content = {}
    BY <1>3 DEF InPart
  <2>2. DOMAIN g = DOMAIN f /\ DOMAIN f = DOMAIN e
    OBVIOUS
  <2>3. \A x \in DOMAIN e \ {"status", "content"} : g[x] = e[x]
    OBVIOUS
  <2> HIDE DEF f, g
  <2>4. e.mode = whole.mode /\ e.size = whole.size
    BY <1>1, <2>1, <2>2, <2>3
  <2> QED
    BY <1>1, <1>3, <2>1, <2>4
<1> QED
  BY <1>2, <1>3 DEF Exact, whole

(* changedAttributes() tells entries apart where the objects differ.       *)
LEMMA ChangedAreDifferent ==
  ASSUME NEW a, NEW b, NEW x, NEW y, a.kind = b.kind,
         a.kind \in {"directory", "file", "symlink"},
         Exact(x, a), Exact(y, b)
  PROVE  ChangedAttributes(x, y) # {} <=> Differs(a, b)
<1> DEFINE sameMode == x.mode = y.mode
           sameSize == x.size = y.size
           sameStatus == x.status = y.status
           sameContent == x.content = y.content
<1>1. ChangedAttributes(x, y) # {} <=>
        ~sameMode \/ ~sameSize \/ ~sameStatus \/ (sameStatus /\ ~sameContent)
  <2>1. "mode" \in ChangedAttributes(x, y) <=> ~sameMode
    BY DEF ChangedAttributes
  <2>2. "size" \in ChangedAttributes(x, y) <=> ~sameSize
    BY DEF ChangedAttributes
  <2>3. "status" \in ChangedAttributes(x, y) <=> ~sameStatus
    BY DEF ChangedAttributes
  <2>4. "content" \in ChangedAttributes(x, y) <=> sameStatus /\ ~sameContent
    BY DEF ChangedAttributes
  <2>5. ChangedAttributes(x, y) \subseteq {"mode", "size", "status", "content"}
    BY DEF ChangedAttributes
  <2> HIDE DEF sameMode, sameSize, sameStatus, sameContent
  <2> QED
    BY <2>1, <2>2, <2>3, <2>4, <2>5
<1>2. CASE a.kind = "directory"
  <2>1. ~TooLarge(a) /\ ~TooLarge(b)
    BY <1>2 DEF TooLarge
  <2> QED
    BY <1>1, <1>2, <2>1, ExactIs DEF Differs
<1>3. /\ TooLarge(a) => x.status = "omitted_size_limit" /\ x.content = {}
      /\ TooLarge(b) => y.status = "omitted_size_limit" /\ y.content = {}
  BY ExactIs
<1>4. CASE a.kind = "file"
  <2>1. a.size = b.size => (TooLarge(a) <=> TooLarge(b))
    BY <1>4 DEF TooLarge
  <2>2. /\ x.mode = a.mode /\ x.size = a.size
        /\ y.mode = b.mode /\ y.size = b.size
    BY <1>4, ExactIs
  <2>3. ~TooLarge(a) => x.status = "hashed" /\ x.content = {a.content}
    BY <1>4, ExactIs
  <2>4. ~TooLarge(b) => y.status = "hashed" /\ y.content = {b.content}
    BY <1>4, ExactIs
  <2>5. {a.content} = {b.content} <=> a.content = b.content
    OBVIOUS
  <2> QED
    BY <1>1, <1>3, <1>4, <2>1, <2>2, <2>3, <2>4, <2>5 DEF Differs
<1>5. CASE a.kind = "symlink"
  <2>1. x.mode = 0 /\ x.size = 0 /\ y.mode = 0 /\ y.size = 0
    BY <1>5, ExactIs
  <2>2. ~TooLarge(a) => x.status = "recorded" /\ x.content = {a.content}
    BY <1>5, ExactIs
  <2>3. ~TooLarge(b) => y.status = "recorded" /\ y.content = {b.content}
    BY <1>5, ExactIs
  <2>4. {a.content} = {b.content} <=> a.content = b.content
    OBVIOUS
  <2> QED
    BY <1>1, <1>3, <1>5, <2>1, <2>2, <2>3, <2>4 DEF Differs
<1> QED
  BY <1>2, <1>4, <1>5

(* The delta of two snapshots that account for their trees.                *)
LEMMA DeltaIs ==
  ASSUME CaptureInv, NEW d \in difference
  PROVE  LET a == Visible(trees[1])
             b == Visible(trees[2])
             same == {p \in a \intersect b : trees[1][p].kind = trees[2][p].kind}
         IN  /\ d.before => d.created \subseteq b \ a
             /\ d.after => d.deleted \subseteq a \ b
             /\ d.before /\ d.after =>
                  /\ d.created = b \ a /\ d.deleted = a \ b
                  /\ d.typeChanged = (a \intersect b) \ same
                  /\ d.modified = {p \in same : Differs(trees[1][p], trees[2][p])}
<1> DEFINE x == snapshots[1]
           y == snapshots[2]
           A == trees[1]
           B == trees[2]
           a == Visible(A)
           b == Visible(B)
           same == {p \in a \intersect b : A[p].kind = B[p].kind}
<1>1. d = Diff(x, y) /\ SnapshotHonest(x, A) /\ SnapshotHonest(y, B)
      /\ (x.complete <=> x.issues = {} /\ x.truncations = {})
      /\ (y.complete <=> y.issues = {} /\ y.truncations = {})
  BY DEF CaptureInv, SnapshotsInv
<1>2. IsTree(A) /\ IsTree(B)
  BY ProfilesAssumption DEF CaptureInv
<1> HIDE DEF x, y, A, B
<1> DEFINE both == DOMAIN x.entries \intersect DOMAIN y.entries
           sameKind == {p \in both : x.entries[p].kind = y.entries[p].kind}
<1>3. /\ d.created = DOMAIN y.entries \ DOMAIN x.entries
      /\ d.deleted = DOMAIN x.entries \ DOMAIN y.entries
      /\ d.typeChanged = both \ sameKind
      /\ d.modified = {p \in sameKind :
                         ChangedAttributes(x.entries[p], y.entries[p]) # {}}
      /\ d.before = x.complete /\ d.after = y.complete
  BY <1>1 DEF Diff
<1>4. DOMAIN x.entries \subseteq a /\ DOMAIN y.entries \subseteq b
  BY <1>1 DEF SnapshotHonest
<1>5. d.before => /\ DOMAIN x.entries = a
                  /\ \A p \in a : Exact(x.entries[p], A[p])
  BY <1>1, <1>3, CompleteIs
<1>6. d.after => /\ DOMAIN y.entries = b
                 /\ \A p \in b : Exact(y.entries[p], B[p])
  BY <1>1, <1>3, CompleteIs
<1>7. d.before => d.created \subseteq b \ a
  BY <1>3, <1>4, <1>5
<1>8. d.after => d.deleted \subseteq a \ b
  BY <1>3, <1>4, <1>6
<1>9. ASSUME d.before, d.after
      PROVE  /\ d.created = b \ a /\ d.deleted = a \ b
             /\ d.typeChanged = (a \intersect b) \ same
             /\ d.modified = {p \in same : Differs(A[p], B[p])}
  <2>1. /\ DOMAIN x.entries = a /\ DOMAIN y.entries = b
        /\ \A p \in a : Exact(x.entries[p], A[p])
        /\ \A p \in b : Exact(y.entries[p], B[p])
    BY <1>5, <1>6, <1>9
  <2>2. \A p \in a \intersect b :
          x.entries[p].kind = A[p].kind /\ y.entries[p].kind = B[p].kind
    BY <2>1 DEF Exact
  <2>3. sameKind = same
    BY <2>1, <2>2
  <2>4. \A p \in same : ChangedAttributes(x.entries[p], y.entries[p]) # {}
                          <=> Differs(A[p], B[p])
    <3>1. \A p \in a : A[p].kind \in {"directory", "file", "symlink"}
      BY <1>2 DEF Visible, IsTree
    <3> QED
      BY <2>1, <3>1, ChangedAreDifferent
  <2> QED
    BY <1>3, <2>1, <2>3, <2>4
<1> QED
  BY <1>7, <1>8, <1>9 DEF A, B

(* Whatever limit is met and whatever fails, a delta of two complete       *)
(* snapshots is the difference of the two trees (captureFilesystemState,   *)
(* diffFilesystemState, persistFilesystemStateEvidence).                   *)
THEOREM DeltaHolds == CaptureSpec => []DeltaSound
<1>1. CaptureInv => DeltaSound
  <2> SUFFICES ASSUME CaptureInv
               PROVE  DeltaSound
    OBVIOUS
  <2>1. \A n \in DOMAIN snapshots : SnapshotHonest(snapshots[n], trees[n])
    BY LenProperties DEF CaptureInv, SnapshotsInv
  <2>2. "delta" \in stored => {"before", "after"} \subseteq stored
    BY DEF CaptureInv, SnapshotsInv
  <2> QED
    BY <2>1, <2>2, DeltaIs DEF DeltaSound
<1> QED
  BY <1>1, CaptureInvariant, PTL

=============================================================================
