--------------------------- MODULE AgentTrialProofs ---------------------------
(***************************************************************************)
(* Theorems about the trials of an agent scenario, for any limits, rules,  *)
(* proposals, policy modes and cleanup constants.                          *)
(*                                                                         *)
(* The invariant has four parts.  The loop: a proposal of the current turn *)
(* is handled or waits in the batch, and what stops the loop early leaves  *)
(* a mark that the end of the loop reads.  The containers: while a create  *)
(* request is pending a removal cannot have seen more absences than it has *)
(* survived delays, so no removal is verified before the request has       *)
(* settled.  The runner: which parts of a trial exist at each place.  The  *)
(* results: what is scored and recorded of the trials so far.              *)
(***************************************************************************)
EXTENDS AgentTrial, TLAPS

ActionRecords == [call : Calls, status : Statuses, decision : Decisions]

LoopTypes ==
  /\ mode \in Modes
  /\ at \in {"outside", "head", "provider", "calls", "tool", "returned"}
  /\ clock \in 0..TimeoutMs
  /\ turns \in 0..MaxTurns
  /\ toolCalls \in 0..MaxToolCalls
  /\ outputTokens \in 0..MaxOutputTokens
  /\ requires \in BOOLEAN /\ inconclusive \in BOOLEAN
  /\ limitsHit \subseteq Limits
  /\ batch \in Seq(Calls)
  /\ unanswered \in 0..MaxBatch
  /\ actions \in Seq(ActionRecords)

(* Turns and calls are accounted for, and nothing is cut off unmarked.     *)
AccountsInv ==
  /\ toolCalls = Len(actions) + (IF at = "tool" THEN 1 ELSE 0)
  /\ at = "outside" =>
       turns = 0 /\ toolCalls = 0 /\ unanswered = 0 /\ limitsHit = {}
  /\ at = "head" =>
       /\ turns > 0 => requires
       /\ toolCalls < MaxToolCalls => unanswered = 0 /\ limitsHit = {}
  /\ at = "provider" => turns < MaxTurns /\ unanswered = 0 /\ limitsHit = {}
  /\ at \in {"calls", "tool"} =>
       unanswered = Len(batch) /\ requires /\ limitsHit = {}
  /\ at # "returned" => ~inconclusive
  /\ at = "returned" => unanswered = 0 \/ toolCalls > 0
  /\ ConclusiveMeansFinished

(* Only what the policy lets through is dispatched in an enforced trial.   *)
DispatchInv ==
  /\ at = "tool" => batch # <<>> /\ Dispatches(Decision(Proposal))
  /\ mode = "enforce" =>
       \A i \in DOMAIN actions :
         \/ actions[i].decision = "allowed"
         \/ actions[i].status \in {"blocked", "proposed"}

LoopInv == LoopTypes /\ AccountsInv /\ DispatchInv

-----------------------------------------------------------------------------
(* One removal: before it is verified it has seen fewer absences than it   *)
(* needs, and while the creation is pending no more than its delays.       *)
RemovalInv(r) ==
  /\ remover[r].at = "verified" => container = "absent"
  /\ remover[r].at # "verified" => remover[r].absences < Checks
  /\ creation = "pending" =>
       /\ remover[r].at # "verified"
       /\ remover[r].at = "inspect" => remover[r].absences <= remover[r].lag
       /\ remover[r].at \in {"settle", "remove"} =>
            remover[r].absences <= remover[r].lag + 1

ContainersInv ==
  /\ ContainersTypeOK
  /\ \A r \in Removers : RemovalInv(r)

-----------------------------------------------------------------------------
Before == {"profile", "monitor", "open"}
Inside == {"initialize", "catalog", "loop", "observe", "score"}
Leaving == {"close", "remove", "stop", "record"}
Over == {"aggregate", "published", "aborted"}

RunnerInv ==
  /\ pc \in Before \union Inside \union Leaving \union Over
  /\ trial \in 1..Len(PolicyModes)
  /\ mode = PolicyModes[trial]
  /\ violation \in {"none", "measured", "unverified"}
  /\ termination \in {"not_requested", "pending", "succeeded", "failed"}
  /\ polling \in BOOLEAN /\ threw \in BOOLEAN /\ unclosed \in BOOLEAN
  /\ at # "outside" => pc \in {"loop", "observe", "score"}
  /\ pc \in {"observe", "score"} => at = "returned"
  /\ pc \in Before => creation = "none" /\ remover["final"] = NotCalled
  /\ violation = "none" => remover["quota"] = NotCalled
  /\ polling => violation = "none" /\ pc \notin {"profile", "monitor"}
  /\ pc \in {"profile", "monitor"} => violation = "none"
  /\ pc \in {"record"} \union Over => ~polling

AgentAssumptions ==
  AgentLoopAssumption /\ AgentCleanupAssumption /\ AgentTrialAssumption

CleanRecord == [closed |-> TRUE, absent |-> TRUE, quota |-> "within_quota"]

CleanupRecords ==
  [closed : BOOLEAN, absent : BOOLEAN,
   quota : {"within_quota", "violated", "verification_failed"}]

ResultsInv ==
  /\ scored \in 0..trial
  /\ records \in Seq(CleanupRecords) /\ Len(records) <= trial
  /\ pc \notin Over => Len(records) = trial - 1
  /\ pc \in Before \union Inside => scored = trial - 1 /\ ~threw
  /\ pc \in Leaving => scored = IF threw THEN trial - 1 ELSE trial
  /\ pc \in {"aggregate", "published"} =>
       /\ trial = Len(PolicyModes) /\ scored = trial /\ Len(records) = trial
       /\ remover["final"].at = "verified"
  /\ pc # "aborted" => \A i \in DOMAIN records : records[i] = CleanRecord

AgentIInv == LoopInv /\ ContainersInv /\ RunnerInv /\ ResultsInv

-----------------------------------------------------------------------------
(* What the policy says is one of its three decisions.                     *)
LEMMA DecisionType ==
  ASSUME AgentLoopAssumption, NEW call
  PROVE  Decision(call) \in Decisions
BY DEF AgentLoopAssumption, Decision, Decisions

(* How the loop ends.                                                      *)
LEMMA FinishEnds ==
  ASSUME NEW taken \in Int, NEW required \in BOOLEAN,
         NEW hit \in SUBSET Limits, NEW unclear \in BOOLEAN,
         Finish(taken, required, hit, unclear)
  PROVE  /\ at' = "returned"
         /\ requires' = required
         /\ limitsHit' \subseteq Limits
         /\ inconclusive' \in BOOLEAN
         /\ unclear => inconclusive'
         /\ required /\ taken >= MaxTurns => inconclusive'
         /\ ~inconclusive' => limitsHit' = hit
BY DEF Finish, Limits

(* A step of the loop keeps its types, action by action.                   *)
LEMMA LoopStepTypes ==
  ASSUME AgentLoopAssumption, LoopInv, LoopStep
  PROVE  LoopTypes'
<1> USE DEF LoopTypes, AgentLoopAssumption, counters, verdict
<1>1. LoopTypes /\ AccountsInv /\ DispatchInv
  BY DEF LoopInv
<1>2. CASE StartLoop
  BY <1>1, <1>2 DEF StartLoop
<1>3. CASE StopAtHead
  <2>1. HeadLimit \subseteq Limits
    BY DEF HeadLimit, Limits
  <2>2. /\ requires' \in BOOLEAN /\ inconclusive' \in BOOLEAN
        /\ limitsHit' \subseteq Limits /\ at' = "returned"
    <3>1. CASE Finish(turns, requires, limitsHit, inconclusive)
      BY <1>1, <3>1, FinishEnds
    <3>2. CASE Finish(turns, requires, limitsHit \union HeadLimit,
                      LimitMeansInconclusive)
      <4>1. LimitMeansInconclusive \in BOOLEAN
        BY <1>1 DEF LimitMeansInconclusive
      <4>2. limitsHit \union HeadLimit \in SUBSET Limits
        BY <1>1, <2>1
      <4> QED
        BY <1>1, <3>2, <4>1, <4>2, FinishEnds
    <3> QED
      BY <1>3, <3>1, <3>2 DEF StopAtHead
  <2> QED
    BY <1>1, <1>3, <2>2 DEF StopAtHead
<1>4. CASE AskProvider
  BY <1>1, <1>4 DEF AskProvider
<1>5. CASE ProviderFails
  <2>1. PICK timedOut \in BOOLEAN :
          Finish(turns, requires,
                 limitsHit \union IF timedOut THEN {"timeout"} ELSE {}, TRUE)
    BY <1>5 DEF ProviderFails
  <2>2. limitsHit \union (IF timedOut THEN {"timeout"} ELSE {}) \in SUBSET Limits
    BY <1>1 DEF Limits
  <2>3. /\ requires' \in BOOLEAN /\ inconclusive' \in BOOLEAN
        /\ limitsHit' \subseteq Limits /\ at' = "returned"
    BY <1>1, <2>1, <2>2 DEF Finish, Limits
  <2> QED
    BY <1>1, <1>5, <2>3 DEF ProviderFails
<1>6. CASE CompletionTooLong
  <2>1. limitsHit \union {"output_tokens"} \in SUBSET Limits
    BY <1>1 DEF Limits
  <2>2. /\ requires' \in BOOLEAN /\ inconclusive' \in BOOLEAN
        /\ limitsHit' \subseteq Limits /\ at' = "returned"
    BY <1>1, <1>6, <2>1 DEF Finish, CompletionTooLong
  <2> QED
    BY <1>1, <1>6, <2>2 DEF CompletionTooLong, AccountsInv
<1>7. CASE CompletionWithoutCalls
  <2>1. PICK reason \in {"stop", "length", "other"} :
          Finish(turns + 1, FALSE,
                 limitsHit \union IF reason = "length" THEN {"output_tokens"}
                                  ELSE {},
                 inconclusive \/ ~Natural(reason))
    BY <1>7 DEF CompletionWithoutCalls
  <2>2. limitsHit \union (IF reason = "length" THEN {"output_tokens"} ELSE {})
          \in SUBSET Limits
    BY <1>1 DEF Limits
  <2>3. (inconclusive \/ ~Natural(reason)) \in BOOLEAN
    OBVIOUS
  <2>4. /\ requires' \in BOOLEAN /\ inconclusive' \in BOOLEAN
        /\ limitsHit' \subseteq Limits /\ at' = "returned"
    BY <1>1, <2>1, <2>2, <2>3 DEF Finish
  <2>5. turns' \in 0..MaxTurns /\ outputTokens' \in 0..MaxOutputTokens
    BY <1>1, <1>7 DEF CompletionWithoutCalls, AccountsInv
  <2> QED
    BY <1>1, <1>7, <2>4, <2>5 DEF CompletionWithoutCalls
<1>8. CASE CompletionWithCalls
  <2>1. PICK n \in 1..MaxBatch : \E proposals \in [1..n -> Calls] :
          batch' = proposals /\ unanswered' = n
    BY <1>8 DEF CompletionWithCalls
  <2>2. batch' \in Seq(Calls) /\ unanswered' \in 0..MaxBatch
    BY <2>1
  <2>3. turns' \in 0..MaxTurns /\ outputTokens' \in 0..MaxOutputTokens
    BY <1>1, <1>8 DEF CompletionWithCalls, AccountsInv
  <2> QED
    BY <1>1, <1>8, <2>2, <2>3 DEF CompletionWithCalls
<1>9. CASE TurnHandled
  BY <1>1, <1>9 DEF TurnHandled, Limits
<1>10. ASSUME NEW status \in Statuses, batch # <<>>, Record(status)
       PROVE  actions' \in Seq(ActionRecords) /\ batch' \in Seq(Calls)
  <2>1. Proposal \in Calls /\ Tail(batch) \in Seq(Calls)
    BY <1>1, <1>10 DEF Proposal
  <2>2. [call |-> Proposal, status |-> status, decision |-> Decision(Proposal)]
          \in ActionRecords
    BY <2>1, DecisionType DEF ActionRecords
  <2> QED
    BY <1>1, <1>10, <2>1, <2>2 DEF Record
<1>11. CASE Blocked
  <2>1. actions' \in Seq(ActionRecords) /\ batch' \in Seq(Calls)
    BY <1>10, <1>11 DEF Blocked, Statuses
  <2>2. toolCalls' \in 0..MaxToolCalls
    BY <1>1, <1>11 DEF Blocked, CallsLeft
  <2>3. unanswered' \in 0..MaxBatch
    BY <1>1, <1>11 DEF Blocked, AccountsInv
  <2> QED
    BY <1>1, <1>11, <2>1, <2>2, <2>3 DEF Blocked
<1>12. CASE DispatchExpired
  <2>1. actions' \in Seq(ActionRecords) /\ batch' \in Seq(Calls)
    BY <1>10, <1>12 DEF DispatchExpired, Statuses
  <2>2. toolCalls' \in 0..MaxToolCalls
    BY <1>1, <1>12 DEF DispatchExpired, CallsLeft
  <2>3. limitsHit \union {"timeout"} \in SUBSET Limits
    BY <1>1 DEF Limits
  <2>4. Finish(turns, FALSE, limitsHit \union {"timeout"}, TRUE)
    BY <1>12 DEF DispatchExpired
  <2>5. /\ requires' \in BOOLEAN /\ inconclusive' \in BOOLEAN
        /\ limitsHit' \subseteq Limits /\ at' = "returned"
    BY <1>1, <2>3, <2>4 DEF Finish
  <2> QED
    BY <1>1, <1>12, <2>1, <2>2, <2>5 DEF DispatchExpired
<1>13. CASE Dispatch
  BY <1>1, <1>13 DEF Dispatch, CallsLeft
<1>14. CASE ToolAnswers
  <2>1. actions' \in Seq(ActionRecords) /\ batch' \in Seq(Calls)
    BY <1>1, <1>10, <1>14 DEF ToolAnswers, Statuses, DispatchInv
  <2>2. unanswered' \in 0..MaxBatch
    BY <1>1, <1>14 DEF ToolAnswers, AccountsInv, DispatchInv
  <2> QED
    BY <1>1, <1>14, <2>1, <2>2 DEF ToolAnswers
<1> QED
  BY <1>2, <1>3, <1>4, <1>5, <1>6, <1>7, <1>8, <1>9, <1>11, <1>12, <1>13,
     <1>14 DEF LoopStep

(* A record is appended for the proposal at the head of the batch.         *)
LEMMA RecordAppends ==
  ASSUME LoopTypes, batch # <<>>, NEW status, Record(status)
  PROVE  /\ Len(actions') = Len(actions) + 1
         /\ Len(batch') = Len(batch) - 1
         /\ Len(batch) > 0
         /\ \A i \in DOMAIN actions' :
              \/ i \in DOMAIN actions /\ actions'[i] = actions[i]
              \/ /\ actions'[i].status = status
                 /\ actions'[i].decision = Decision(Proposal)
<1> DEFINE entry == [call |-> Proposal, status |-> status,
                     decision |-> Decision(Proposal)]
<1>1. actions' = Append(actions, entry) /\ batch' = Tail(batch)
  BY DEF Record
<1>2. actions \in Seq(ActionRecords) /\ batch \in Seq(Calls)
  BY DEF LoopTypes
<1>3. entry.status = status /\ entry.decision = Decision(Proposal)
  OBVIOUS
<1> HIDE DEF entry
<1>4. Len(actions') = Len(actions) + 1 /\ Len(batch') = Len(batch) - 1
      /\ Len(batch) > 0
  BY <1>1, <1>2
<1>5. \A i \in DOMAIN actions' :
        \/ i \in DOMAIN actions /\ actions'[i] = actions[i]
        \/ actions'[i] = entry
  BY <1>1, <1>2
<1> QED
  BY <1>3, <1>4, <1>5

(* A step of the loop accounts for what it takes in and what it cuts off.  *)
LEMMA LoopStepAccounts ==
  ASSUME AgentLoopAssumption, LoopInv, LoopStep
  PROVE  AccountsInv'
<1> USE DEF counters, verdict
<1>1. LoopTypes /\ AccountsInv /\ DispatchInv /\ LoopTypes'
  BY LoopStepTypes DEF LoopInv
<1>2. /\ turns \in Nat /\ toolCalls \in Nat /\ requires \in BOOLEAN
      /\ inconclusive \in BOOLEAN /\ unanswered \in Nat
      /\ limitsHit \in SUBSET Limits /\ Len(actions) \in Nat
      /\ MaxTurns \in Nat \ {0} /\ MaxToolCalls \in Nat \ {0}
  BY <1>1 DEF LoopTypes, AgentLoopAssumption
<1>3. CASE StartLoop
  BY <1>1, <1>2, <1>3 DEF StartLoop, AccountsInv, ConclusiveMeansFinished
<1>4. CASE StopAtHead
  <2>1. at' = "returned" /\ (turns > 0 => inconclusive')
    <3>1. CASE turns >= MaxTurns
               /\ Finish(turns, requires, limitsHit, inconclusive)
      BY <1>1, <1>2, <1>4, <3>1, FinishEnds DEF StopAtHead, AccountsInv
    <3>2. CASE Finish(turns, requires, limitsHit \union HeadLimit,
                      LimitMeansInconclusive)
      <4>1. LimitMeansInconclusive \in BOOLEAN
        BY <1>2 DEF LimitMeansInconclusive
      <4>2. limitsHit \union HeadLimit \in SUBSET Limits
        BY <1>2 DEF HeadLimit, Limits
      <4>3. at' = "returned" /\ (LimitMeansInconclusive => inconclusive')
        BY <1>2, <3>2, <4>1, <4>2, FinishEnds
      <4>4. turns > 0 => LimitMeansInconclusive
        BY <1>1, <1>4 DEF StopAtHead, AccountsInv, LimitMeansInconclusive
      <4> QED
        BY <4>3, <4>4
    <3> QED
      BY <1>4, <3>1, <3>2 DEF StopAtHead
  <2> QED
    BY <1>1, <1>2, <1>4, <2>1
    DEF StopAtHead, AccountsInv, ConclusiveMeansFinished
<1>5. CASE AskProvider
  <2>1. toolCalls < MaxToolCalls
    BY <1>2, <1>5 DEF AskProvider, HeadLimit
  <2> QED
    BY <1>1, <1>2, <1>5, <2>1
    DEF AskProvider, AccountsInv, ConclusiveMeansFinished
<1>6. CASE ProviderFails
  <2>1. PICK timedOut \in BOOLEAN :
          Finish(turns, requires,
                 limitsHit \union IF timedOut THEN {"timeout"} ELSE {}, TRUE)
    BY <1>6 DEF ProviderFails
  <2>2. limitsHit \union (IF timedOut THEN {"timeout"} ELSE {}) \in SUBSET Limits
    BY <1>2 DEF Limits
  <2>3. at' = "returned" /\ inconclusive'
    BY <1>2, <2>1, <2>2 DEF Finish
  <2> QED
    BY <1>1, <1>2, <1>6, <2>3
    DEF ProviderFails, AccountsInv, ConclusiveMeansFinished
<1>7. CASE CompletionTooLong
  <2>1. limitsHit \union {"output_tokens"} \in SUBSET Limits
    BY <1>2 DEF Limits
  <2>2. Finish(turns + 1, FALSE, limitsHit \union {"output_tokens"}, TRUE)
    BY <1>7 DEF CompletionTooLong
  <2>3. at' = "returned" /\ inconclusive'
    BY <1>2, <2>1, <2>2 DEF Finish
  <2> QED
    BY <1>1, <1>2, <1>7, <2>3
    DEF CompletionTooLong, AccountsInv, ConclusiveMeansFinished
<1>8. CASE CompletionWithoutCalls
  <2>1. PICK reason \in {"stop", "length", "other"} :
          Finish(turns + 1, FALSE,
                 limitsHit \union IF reason = "length" THEN {"output_tokens"}
                                  ELSE {},
                 inconclusive \/ ~Natural(reason))
    BY <1>8 DEF CompletionWithoutCalls
  <2>2. limitsHit \union (IF reason = "length" THEN {"output_tokens"} ELSE {})
          \in SUBSET Limits
    BY <1>2 DEF Limits
  <2>3. (inconclusive \/ ~Natural(reason)) \in BOOLEAN
    OBVIOUS
  <2>4. /\ at' = "returned" /\ ~requires'
        /\ (inconclusive \/ ~Natural(reason)) => inconclusive'
        /\ ~inconclusive' =>
             limitsHit' = limitsHit
                          \union IF reason = "length" THEN {"output_tokens"}
                                 ELSE {}
    BY <1>2, <2>1, <2>2, <2>3 DEF Finish
  <2>5. ~inconclusive' => limitsHit' = limitsHit
    BY <2>4 DEF Natural
  <2> QED
    BY <1>1, <1>2, <1>8, <2>4, <2>5
    DEF CompletionWithoutCalls, AccountsInv, ConclusiveMeansFinished
<1>9. CASE CompletionWithCalls
  <2>1. unanswered' = Len(batch')
    <3>1. PICK n \in 1..MaxBatch : \E proposals \in [1..n -> Calls] :
            batch' = proposals /\ unanswered' = n
      BY <1>9 DEF CompletionWithCalls
    <3> QED
      BY <3>1, <1>1 DEF AgentLoopAssumption, LoopTypes
  <2> QED
    BY <1>1, <1>2, <1>9, <2>1
    DEF CompletionWithCalls, AccountsInv, ConclusiveMeansFinished
<1>10. CASE TurnHandled
  BY <1>1, <1>2, <1>10
  DEF TurnHandled, CallsLeft, LoopTypes, AccountsInv, ConclusiveMeansFinished
<1>11. CASE Blocked
  <2>1. /\ Len(actions') = Len(actions) + 1
        /\ Len(batch') = Len(batch) - 1 /\ Len(batch) > 0
    BY <1>1, <1>11, RecordAppends DEF Blocked
  <2> QED
    BY <1>1, <1>2, <1>11, <2>1 DEF Blocked, AccountsInv, ConclusiveMeansFinished
<1>12. CASE DispatchExpired
  <2>1. Len(actions') = Len(actions) + 1
    BY <1>1, <1>12, RecordAppends DEF DispatchExpired
  <2>2. limitsHit \union {"timeout"} \in SUBSET Limits
    BY <1>2 DEF Limits
  <2>3. Finish(turns, FALSE, limitsHit \union {"timeout"}, TRUE)
    BY <1>12 DEF DispatchExpired
  <2>4. at' = "returned" /\ inconclusive'
    BY <1>2, <2>2, <2>3 DEF Finish
  <2> QED
    BY <1>1, <1>2, <1>12, <2>1, <2>4
    DEF DispatchExpired, AccountsInv, ConclusiveMeansFinished
<1>13. CASE Dispatch
  BY <1>1, <1>2, <1>13 DEF Dispatch, AccountsInv, ConclusiveMeansFinished
<1>14. CASE ToolAnswers
  <2>1. /\ Len(actions') = Len(actions) + 1
        /\ Len(batch') = Len(batch) - 1 /\ Len(batch) > 0
    BY <1>1, <1>14, RecordAppends DEF ToolAnswers, DispatchInv
  <2> QED
    BY <1>1, <1>2, <1>14, <2>1
    DEF ToolAnswers, AccountsInv, ConclusiveMeansFinished
<1> QED
  BY <1>3, <1>4, <1>5, <1>6, <1>7, <1>8, <1>9, <1>10, <1>11, <1>12, <1>13,
     <1>14 DEF LoopStep

LEMMA LoopStepMode ==
  ASSUME LoopStep PROVE mode' = mode
BY DEF LoopStep, StartLoop, StopAtHead, AskProvider, ProviderFails,
       CompletionTooLong, CompletionWithoutCalls, CompletionWithCalls,
       TurnHandled, Blocked, DispatchExpired, Dispatch, ToolAnswers

(* A step of the loop dispatches what the policy lets through.             *)
LEMMA LoopStepDispatches ==
  ASSUME AgentLoopAssumption, LoopInv, LoopStep
  PROVE  DispatchInv'
<1>1. LoopTypes /\ AccountsInv /\ DispatchInv /\ LoopTypes'
  BY LoopStepTypes DEF LoopInv
<1>2. mode' = mode
  BY LoopStepMode
<1>3. CASE UNCHANGED actions
  <2>1. at' = "tool" => Dispatch
    BY <1>1, <1>3, FinishEnds
    DEF LoopStep, StartLoop, StopAtHead, AskProvider, ProviderFails,
        CompletionTooLong, CompletionWithoutCalls, CompletionWithCalls,
        TurnHandled, Blocked, DispatchExpired, ToolAnswers, Finish
  <2>2. at' = "tool" => batch' # <<>> /\ Dispatches(Decision(Proposal))'
    BY <1>2, <2>1 DEF Dispatch, Dispatches, Decision, Proposal
  <2> QED
    BY <1>1, <1>2, <1>3, <2>2 DEF DispatchInv
<1>4. ASSUME NEW status, batch # <<>>, Record(status), at' # "tool",
             \/ status \in {"blocked", "proposed"}
             \/ Dispatches(Decision(Proposal))
      PROVE  DispatchInv'
  <2>1. \A i \in DOMAIN actions' :
          \/ i \in DOMAIN actions /\ actions'[i] = actions[i]
          \/ /\ actions'[i].status = status
             /\ actions'[i].decision = Decision(Proposal)
    BY <1>1, <1>4, RecordAppends
  <2>2. mode = "enforce" =>
          \/ status \in {"blocked", "proposed"}
          \/ Decision(Proposal) = "allowed"
    BY <1>4 DEF Dispatches
  <2> QED
    BY <1>1, <1>2, <1>4, <2>1, <2>2 DEF DispatchInv
<1>5. CASE Blocked
  BY <1>4, <1>5 DEF Blocked
<1>6. CASE DispatchExpired
  BY <1>4, <1>6 DEF DispatchExpired, Finish
<1>7. CASE ToolAnswers
  BY <1>1, <1>4, <1>7 DEF ToolAnswers, DispatchInv
<1> QED
  BY <1>3, <1>5, <1>6, <1>7
  DEF LoopStep, StartLoop, StopAtHead, AskProvider, ProviderFails,
      CompletionTooLong, CompletionWithoutCalls, CompletionWithCalls,
      TurnHandled, Dispatch, counters

LEMMA LoopStepKeeps ==
  ASSUME AgentLoopAssumption, LoopInv, LoopStep
  PROVE  LoopInv'
BY LoopStepTypes, LoopStepAccounts, LoopStepDispatches DEF LoopInv

(* The result of the loop goes out of scope; the clock ticks.              *)
LEMMA LoopGoneKeeps ==
  ASSUME AgentLoopAssumption, LoopInv, LoopGone
  PROVE  LoopInv'
<1>1. LoopTypes'
  <2>1. actions' \in Seq(ActionRecords) /\ batch' \in Seq(Calls)
    BY DEF LoopGone
  <2>2. /\ 0 \in 0..TimeoutMs /\ 0 \in 0..MaxTurns /\ 0 \in 0..MaxToolCalls
        /\ 0 \in 0..MaxOutputTokens /\ 0 \in 0..MaxBatch
    BY DEF AgentLoopAssumption
  <2>3. mode' \in Modes
    BY DEF LoopInv, LoopTypes, LoopGone
  <2> QED
    BY <2>1, <2>2, <2>3 DEF LoopGone, LoopTypes
<1>2. Len(actions') = 0
  BY DEF LoopGone
<1>3. AccountsInv'
  BY <1>2 DEF LoopGone, AccountsInv, ConclusiveMeansFinished
<1>4. DispatchInv'
  BY DEF LoopGone, DispatchInv
<1> QED
  BY <1>1, <1>3, <1>4 DEF LoopInv

LEMMA TimePassesKeeps ==
  ASSUME AgentLoopAssumption, LoopInv, TimePasses
  PROVE  LoopInv'
<1>1. LoopTypes'
  BY DEF LoopInv, LoopTypes, TimePasses, TimeLeft, counters, verdict,
         AgentLoopAssumption
<1>2. AccountsInv' /\ DispatchInv'
  BY DEF LoopInv, AccountsInv, DispatchInv, ConclusiveMeansFinished,
         TimePasses, counters, verdict, Dispatches, Decision, Proposal
<1> QED
  BY <1>1, <1>2 DEF LoopInv

-----------------------------------------------------------------------------
RemovalRecords ==
  [at : {"idle", "inspect", "remove", "settle", "verified", "failed"},
   absences : 0..Checks, removals : 0..Checks, lag : 0..CreateLag]

(* Where one step takes a removal: the record it leaves, the others as     *)
(* they were.                                                              *)
Leaves(r, entry) ==
  /\ entry \in RemovalRecords
  /\ remover' = [remover EXCEPT ![r] = entry]

LEMMA LeavesKeeps ==
  ASSUME AgentCleanupAssumption, ContainersInv, NEW r \in Removers,
         NEW entry, Leaves(r, entry), UNCHANGED creation,
         container' \in {container, "absent"},
         entry.at = "verified" => container' = "absent",
         entry.at # "verified" => entry.absences < Checks,
         creation = "pending" =>
           /\ entry.at # "verified"
           /\ entry.at = "inspect" => entry.absences <= entry.lag
           /\ entry.at \in {"settle", "remove"} =>
                entry.absences <= entry.lag + 1
  PROVE  ContainersInv'
<1>1. remover \in [Removers -> RemovalRecords]
  BY DEF ContainersInv, ContainersTypeOK, RemovalRecords
<1>2. remover' \in [Removers -> RemovalRecords]
  BY <1>1 DEF Leaves
<1>3. \A q \in Removers : remover'[q] = IF q = r THEN entry ELSE remover[q]
  BY <1>1 DEF Leaves
<1>4. ContainersTypeOK'
  BY <1>2 DEF ContainersInv, ContainersTypeOK, RemovalRecords
<1>5. ASSUME NEW q \in Removers
      PROVE  RemovalInv(q)'
  <2>1. CASE q = r
    BY <1>3, <2>1 DEF RemovalInv
  <2>2. CASE q # r
    <3>1. remover'[q] = remover[q] /\ RemovalInv(q)
      BY <1>3, <1>5, <2>2 DEF ContainersInv
    <3> QED
      BY <3>1 DEF RemovalInv
  <2> QED
    BY <2>1, <2>2
<1> QED
  BY <1>4, <1>5 DEF ContainersInv

(* A removal's step keeps the invariant, and a removal no one called does  *)
(* nothing.                                                                *)
LEMMA RemoverStepKeeps ==
  ASSUME AgentCleanupAssumption, ContainersInv, NEW r \in Removers,
         RemoverStep(r)
  PROVE  /\ ContainersInv'
         /\ creation' = creation
         /\ \A q \in Removers \ {r} : remover'[q] = remover[q]
         /\ remover[r].at \in {"inspect", "remove", "settle"}
<1> DEFINE old == remover[r]
<1>1. /\ remover \in [Removers -> RemovalRecords]
      /\ old \in RemovalRecords /\ RemovalInv(r)
      /\ Checks \in Nat /\ CreateLag \in Nat /\ CreateLag + 1 < Checks
      /\ container \in {"absent", "present", "foreign"}
  BY DEF ContainersInv, ContainersTypeOK, RemovalRecords, AgentCleanupAssumption
<1>2. ASSUME NEW entry, remover' = [remover EXCEPT ![r] = entry]
      PROVE  \A q \in Removers \ {r} : remover'[q] = remover[q]
  BY <1>1, <1>2
<1>3. CASE InspectsAbsent(r)
  <2> DEFINE n == old.absences + 1
             place == IF n >= Checks THEN "verified" ELSE "settle"
             entry == [old EXCEPT !.absences = n, !.at = place]
  <2>1. remover' = [remover EXCEPT ![r] = entry]
    BY <1>1, <1>3 DEF InspectsAbsent, EnoughAbsences
  <2>2. /\ old.at = "inspect" /\ container = "absent" /\ creation' = creation
        /\ container' = container
    BY <1>3 DEF InspectsAbsent
  <2>3. old.absences < Checks /\ old.absences \in Nat /\ old.lag \in 0..CreateLag
    BY <1>1, <2>2 DEF RemovalInv, RemovalRecords
  <2>4. /\ n \in 0..Checks
        /\ place \in {"verified", "settle"}
        /\ place = "settle" => n < Checks
        /\ creation = "pending" => place = "settle" /\ n <= old.lag + 1
    BY <1>1, <2>2, <2>3 DEF RemovalInv
  <2> HIDE DEF n, place
  <2>5. /\ entry.absences = n /\ entry.lag = old.lag /\ entry.at = place
        /\ entry \in RemovalRecords
    BY <1>1, <2>4 DEF RemovalRecords
  <2> HIDE DEF entry
  <2>6. ContainersInv'
    BY <2>1, <2>2, <2>4, <2>5, LeavesKeeps DEF Leaves
  <2> QED
    BY <1>2, <2>1, <2>2, <2>6
<1>4. CASE InspectsPresent(r)
  <2> DEFINE spent == old.removals >= Checks
             removed == IF spent THEN old.removals ELSE old.removals + 1
             place == IF spent THEN "failed" ELSE "remove"
             entry == [old EXCEPT !.absences = 0, !.removals = removed,
                                  !.at = place]
  <2>1. remover' = [remover EXCEPT ![r] = entry]
    BY <1>1, <1>4 DEF InspectsPresent
  <2>2. old.at = "inspect" /\ UNCHANGED <<creation, container>>
    BY <1>4 DEF InspectsPresent
  <2>3. /\ old.lag \in 0..CreateLag /\ removed \in 0..Checks
        /\ place \in {"failed", "remove"}
    BY <1>1 DEF RemovalRecords
  <2> HIDE DEF removed, place
  <2>4. /\ entry.absences = 0 /\ entry.lag = old.lag /\ entry.at = place
        /\ entry \in RemovalRecords
    <3>1. old \in RemovalRecords /\ 0 \in 0..Checks
      BY <1>1
    <3> HIDE DEF old
    <3>2. entry.absences = 0 /\ entry.lag = old.lag /\ entry.at = place
      BY <3>1 DEF RemovalRecords
    <3>3. entry \in RemovalRecords
      BY <2>3, <3>1 DEF RemovalRecords
    <3> QED
      BY <3>2, <3>3
  <2> HIDE DEF entry
  <2>5. entry.absences < Checks /\ entry.absences <= entry.lag + 1
    BY <1>1, <2>3, <2>4
  <2>6. ContainersInv'
    BY <2>1, <2>2, <2>3, <2>4, <2>5, LeavesKeeps DEF Leaves
  <2> QED
    BY <1>2, <2>1, <2>2, <2>6
<1>5. ASSUME NEW place \in {"failed", "settle"}, Goes(r, place),
             old.at \in {"inspect", "remove"}, UNCHANGED creation,
             container' \in {container, "absent"},
             place = "settle" => old.at = "remove"
      PROVE  ContainersInv' /\ \A q \in Removers \ {r} : remover'[q] = remover[q]
  <2> DEFINE entry == [old EXCEPT !.at = place]
  <2>1. remover' = [remover EXCEPT ![r] = entry]
    BY <1>1, <1>5 DEF Goes
  <2>2. /\ entry.absences = old.absences /\ entry.lag = old.lag
        /\ entry.at = place /\ entry \in RemovalRecords
    BY <1>1 DEF RemovalRecords
  <2>3. /\ old.absences < Checks
        /\ creation = "pending" /\ place = "settle" =>
             old.absences <= old.lag + 1
    BY <1>1, <1>5 DEF RemovalInv
  <2> HIDE DEF entry
  <2>4. ContainersInv'
    BY <2>1, <2>2, <2>3, <1>1, <1>5, LeavesKeeps DEF Leaves
  <2> QED
    BY <1>2, <2>1, <2>4
<1>6. CASE InspectsForeign(r)
  BY <1>5, <1>6 DEF InspectsForeign
<1>7. CASE Removes(r)
  BY <1>5, <1>7 DEF Removes
<1>8. CASE CommandFails(r)
  BY <1>5, <1>8 DEF CommandFails
<1>9. CASE Settles(r)
  <2> DEFINE later == IF creation = "pending" THEN old.lag + 1 ELSE old.lag
             entry == [old EXCEPT !.at = "inspect", !.lag = later]
  <2>1. remover' = [remover EXCEPT ![r] = entry]
    BY <1>1, <1>9 DEF Settles
  <2>2. /\ old.at = "settle" /\ UNCHANGED <<creation, container>>
        /\ creation = "pending" => old.lag < CreateLag
    BY <1>9 DEF Settles
  <2>3. old.absences \in 0..Checks /\ old.lag \in 0..CreateLag
    BY <1>1 DEF RemovalRecords
  <2>4. later \in 0..CreateLag
    BY <1>1, <2>2, <2>3
  <2>5. /\ entry.absences = old.absences /\ entry.lag = later
        /\ entry.at = "inspect" /\ entry \in RemovalRecords
    BY <1>1, <2>4 DEF RemovalRecords
  <2>6. old.absences < Checks /\ (creation = "pending" => old.absences <= later)
    BY <1>1, <2>2, <2>3 DEF RemovalInv
  <2> HIDE DEF entry, later
  <2>7. ContainersInv'
    BY <2>1, <2>2, <2>5, <2>6, <1>1, LeavesKeeps DEF Leaves
  <2> QED
    BY <1>2, <2>1, <2>2, <2>7
<1> QED
  BY <1>3, <1>4, <1>6, <1>7, <1>8, <1>9
  DEF RemoverStep, InspectsForeign, Removes, CommandFails

(* A removal is called: it starts over.                                    *)
LEMMA CalledKeeps ==
  ASSUME AgentCleanupAssumption, ContainersInv, NEW r \in Removers, Called(r)
  PROVE  /\ ContainersInv'
         /\ UNCHANGED <<creation, container>>
         /\ \A q \in Removers \ {r} : remover'[q] = remover[q]
<1> DEFINE entry == [NotCalled EXCEPT !.at = "inspect"]
<1>1. remover' = [remover EXCEPT ![r] = entry]
      /\ UNCHANGED <<creation, container>>
  BY DEF Called
<1>2. /\ entry.at = "inspect" /\ entry.absences = 0 /\ entry.lag = 0
      /\ entry \in RemovalRecords
  BY DEF NotCalled, RemovalRecords, AgentCleanupAssumption
<1>3. remover \in [Removers -> RemovalRecords]
  BY DEF ContainersInv, ContainersTypeOK, RemovalRecords
<1> HIDE DEF entry
<1>4. entry.absences < Checks /\ entry.absences <= entry.lag
  BY <1>2 DEF AgentCleanupAssumption
<1>5. ContainersInv'
  BY <1>1, <1>2, <1>4, LeavesKeeps DEF Leaves
<1> QED
  BY <1>1, <1>3, <1>5

(* The daemon serves or drops a pending request, no removal being verified *)
(* yet; and a container that goes away is absent.                          *)
LEMMA DaemonKeeps ==
  ASSUME AgentCleanupAssumption, ContainersInv, DaemonActs
  PROVE  /\ ContainersInv' /\ remover' = remover
         /\ (creation = "none" => creation' = "none")
<1>1. CASE DaemonServes
  <2>1. /\ remover' = remover
        /\ creation = "pending" /\ creation' = "settled"
        /\ container' \in {"absent", "present", "foreign"}
    BY <1>1 DEF DaemonServes, ContainersInv, ContainersTypeOK
  <2>2. ContainersTypeOK'
    BY <2>1 DEF ContainersInv, ContainersTypeOK
  <2>3. \A r \in Removers : RemovalInv(r)'
    BY <2>1 DEF ContainersInv, RemovalInv
  <2> QED
    BY <2>1, <2>2, <2>3 DEF ContainersInv
<1>2. CASE ContainerExits
  BY <1>2 DEF ContainerExits, ContainersInv, ContainersTypeOK, RemovalInv
<1> QED
  BY <1>1, <1>2 DEF DaemonActs

(* The session is spawned before any removal is called; a new trial has a  *)
(* container of its own.                                                   *)
LEMMA SpawnKeeps ==
  ASSUME AgentCleanupAssumption, ContainersInv, Spawn,
         \A r \in Removers : remover[r] = NotCalled
  PROVE  ContainersInv'
BY DEF ContainersInv, ContainersTypeOK, RemovalInv, Spawn, NotCalled

LEMMA FreshContainers ==
  ASSUME AgentCleanupAssumption, creation' = "none",
         container' \in {"absent", "foreign"},
         remover' = [r \in Removers |-> NotCalled]
  PROVE  /\ ContainersInv'
         /\ \A r \in Removers : remover'[r] = NotCalled
<1>1. NotCalled \in RemovalRecords /\ NotCalled.at = "idle"
      /\ NotCalled.absences = 0
  BY DEF NotCalled, RemovalRecords, AgentCleanupAssumption
<1>2. remover' \in [Removers -> RemovalRecords]
      /\ \A r \in Removers : remover'[r] = NotCalled
  BY <1>1
<1>3. ContainersTypeOK'
  BY <1>2 DEF ContainersTypeOK, RemovalRecords
<1>4. \A r \in Removers : RemovalInv(r)'
  BY <1>1, <1>2 DEF RemovalInv, AgentCleanupAssumption
<1> QED
  BY <1>2, <1>3, <1>4 DEF ContainersInv

-----------------------------------------------------------------------------
(* The steps of the evaluation that touch the loop's variables.            *)
LEMMA LoopPart ==
  ASSUME AgentAssumptions, AgentIInv, [Next]_vars
  PROVE  LoopInv'
<1>1. AgentLoopAssumption /\ AgentTrialAssumption /\ LoopInv /\ RunnerInv
  BY DEF AgentAssumptions, AgentIInv
<1>2. CASE UNCHANGED loopVars
  <2>1. UNCHANGED <<mode, at, clock, turns, toolCalls, outputTokens, requires,
                    limitsHit, inconclusive, batch, unanswered, actions>>
    BY <1>2 DEF loopVars, loopLocals, counters, verdict
  <2> QED
    BY <1>1, <2>1
    DEF LoopInv, LoopTypes, AccountsInv, DispatchInv, ConclusiveMeansFinished,
        Dispatches, Decision, Proposal
<1>3. CASE LoopGone
  BY <1>1, <1>3, LoopGoneKeeps
<1>4. CASE LoopStep
  BY <1>1, <1>4, LoopStepKeeps
<1>5. CASE TimePasses
  BY <1>1, <1>5, TimePassesKeeps
<1>6. CASE NextTrial
  <2>1. UNCHANGED <<at, clock, turns, toolCalls, outputTokens, requires,
                    limitsHit, inconclusive, batch, unanswered, actions>>
    BY <1>6 DEF NextTrial, loopLocals, counters, verdict
  <2>2. mode' \in Modes
    BY <1>1, <1>6 DEF NextTrial, Last, RunnerInv, AgentTrialAssumption
  <2>3. at = "outside"
    BY <1>1, <1>6 DEF NextTrial, RunnerInv
  <2>4. Len(actions) = 0 /\ actions \in Seq(ActionRecords)
    BY <1>1, <2>3 DEF LoopInv, AccountsInv, LoopTypes, AgentLoopAssumption
  <2>5. LoopTypes' /\ AccountsInv'
    BY <1>1, <2>1, <2>2 DEF LoopInv, LoopTypes, AccountsInv, ConclusiveMeansFinished
  <2>6. DispatchInv'
    BY <2>1, <2>3, <2>4 DEF DispatchInv
  <2> QED
    BY <2>5, <2>6 DEF LoopInv
<1>7. CASE Runner
  <2>1. CASE RunLoop
    BY <1>4, <2>1 DEF RunLoop
  <2> QED
    BY <1>2, <1>3, <1>6, <1>7, <2>1
    DEF Runner, Materialize, StartMonitor, OpenSession, Initialized,
        InitializeFails, CheckCatalog, QuotaStopsLoop, LoopThrows, Cooldown,
        Observe, WriteScore, ScoreFails, CloseSession, FinalRemoverSteps,
        StopMonitor, RecordCleanup, RecordFails, Publish, Throw, Proceed
<1>8. CASE Monitor
  BY <1>2, <1>8
  DEF Monitor, PollFindsViolation, TerminationSettles, QuotaRemoverSteps
<1>9. CASE Environment
  BY <1>2, <1>5, <1>9 DEF Environment, DaemonStep, ClockTicks, TransportFails
<1>10. CASE UNCHANGED vars
  BY <1>2, <1>10 DEF vars
<1> QED
  BY <1>7, <1>8, <1>9, <1>10 DEF Next

(* The steps that touch the container, its creation or a removal.          *)
LEMMA ContainersPart ==
  ASSUME AgentAssumptions, AgentIInv, [Next]_vars
  PROVE  ContainersInv'
<1>1. AgentCleanupAssumption /\ ContainersInv /\ RunnerInv
  BY DEF AgentAssumptions, AgentIInv
<1>2. CASE UNCHANGED containerVars
  BY <1>1, <1>2
  DEF containerVars, ContainersInv, ContainersTypeOK, RemovalInv
<1>3. ASSUME NEW r \in Removers, Called(r) \/ RemoverStep(r)
      PROVE  ContainersInv'
  BY <1>1, <1>3, CalledKeeps, RemoverStepKeeps
<1>4. "quota" \in Removers /\ "final" \in Removers
  BY DEF Removers
<1>5. CASE OpenSession
  <2>1. CASE Spawn /\ WithinQuota
    <3>1. \A r \in Removers : remover[r] = NotCalled
      BY <1>1, <1>5, <2>1 DEF OpenSession, WithinQuota, RunnerInv, Removers, Before
    <3> QED
      BY <1>1, <2>1, <3>1, SpawnKeeps
  <2> QED
    BY <1>2, <1>5, <2>1 DEF OpenSession
<1>6. CASE NextTrial
  BY <1>1, <1>6, FreshContainers DEF NextTrial
<1>7. CASE Runner
  BY <1>2, <1>3, <1>4, <1>5, <1>6, <1>7
  DEF Runner, Materialize, StartMonitor, Initialized, Violate,
      InitializeFails, CheckCatalog, RunLoop, QuotaStopsLoop, LoopThrows,
      Cooldown, Observe, WriteScore, ScoreFails, CloseSession,
      FinalRemoverSteps, StopMonitor, RecordCleanup, RecordFails, Publish
<1>8. CASE Monitor
  BY <1>2, <1>3, <1>4, <1>8
  DEF Monitor, PollFindsViolation, TerminationSettles, QuotaRemoverSteps,
      Violate
<1>9. CASE Environment
  BY <1>1, <1>2, <1>9, DaemonKeeps
  DEF Environment, DaemonStep, ClockTicks, TransportFails
<1>10. CASE UNCHANGED vars
  BY <1>2, <1>10 DEF vars
<1> QED
  BY <1>7, <1>8, <1>9, <1>10 DEF Next

(* What exists of a trial at each place of the runner, step by step.       *)
LEMMA RunnerPart ==
  ASSUME AgentAssumptions, AgentIInv, [Next]_vars
  PROVE  RunnerInv'
<1> USE DEF Before, Inside, Leaving, Over
<1>1. /\ AgentCleanupAssumption /\ AgentTrialAssumption
      /\ ContainersInv /\ RunnerInv
      /\ "quota" \in Removers /\ "final" \in Removers
  BY DEF AgentAssumptions, AgentIInv, Removers
<1>2. ASSUME NEW r \in Removers, Called(r) \/ RemoverStep(r)
      PROVE  /\ creation' = creation
             /\ \A q \in Removers \ {r} : remover'[q] = remover[q]
  BY <1>1, <1>2, CalledKeeps, RemoverStepKeeps
<1>3. ASSUME Violate
      PROVE  /\ violation = "none" /\ violation' \in {"measured", "unverified"}
             /\ polling' = FALSE /\ termination' = "pending"
             /\ creation' = creation /\ remover'["final"] = remover["final"]
  BY <1>1, <1>2, <1>3 DEF Violate
<1>4. CASE Materialize
  BY <1>1, <1>4
  DEF Materialize, RunnerInv, loopVars, loopLocals, containerVars, quotaVars,
      tryVars
<1>5. CASE StartMonitor
  BY <1>1, <1>3, <1>5
  DEF StartMonitor, RunnerInv, loopVars, loopLocals, containerVars, tryVars
<1>6. CASE OpenSession
  BY <1>1, <1>6
  DEF OpenSession, Throw, Proceed, LoopGone, Spawn, WithinQuota, RunnerInv,
      loopVars, loopLocals, containerVars, quotaVars
<1>7. CASE Initialized \/ InitializeFails \/ CheckCatalog
  <2>1. CASE Initialized
    BY <1>1, <2>1
    DEF Initialized, RunnerInv, loopVars, loopLocals, containerVars,
        quotaVars, tryVars
  <2>2. CASE InitializeFails
    BY <1>1, <2>2
    DEF InitializeFails, Throw, LoopGone, RunnerInv, loopVars, loopLocals,
        containerVars, quotaVars, tryVars
  <2>3. CASE CheckCatalog
    BY <1>1, <2>3
    DEF CheckCatalog, Throw, Proceed, LoopGone, RunnerInv, loopVars,
        loopLocals, containerVars, quotaVars, tryVars
  <2> QED
    BY <1>7, <2>1, <2>2, <2>3
<1>8. CASE RunLoop
  <2>1. mode' = mode
    BY <1>8, LoopStepMode DEF RunLoop
  <2> QED
    BY <1>1, <1>8, <2>1 DEF RunLoop, RunnerInv, containerVars, quotaVars, tryVars
<1>9. CASE QuotaStopsLoop \/ LoopThrows \/ Cooldown
  <2>1. CASE QuotaStopsLoop
    BY <1>1, <2>1
    DEF QuotaStopsLoop, Throw, LoopGone, RunnerInv, loopVars, loopLocals,
        containerVars, quotaVars, tryVars
  <2>2. CASE LoopThrows
    BY <1>1, <2>2
    DEF LoopThrows, Throw, LoopGone, RunnerInv, loopVars, loopLocals,
        containerVars, quotaVars, tryVars
  <2>3. CASE Cooldown
    BY <1>1, <2>3
    DEF Cooldown, Throw, Proceed, LoopGone, RunnerInv, loopVars, loopLocals,
        containerVars, quotaVars, tryVars
  <2> QED
    BY <1>9, <2>1, <2>2, <2>3
<1>10. CASE Observe \/ WriteScore \/ ScoreFails
  <2>1. CASE Observe
    BY <1>1, <2>1
    DEF Observe, Throw, Proceed, LoopGone, RunnerInv, loopVars, loopLocals,
        containerVars, quotaVars, tryVars
  <2>2. CASE WriteScore
    BY <1>1, <2>2
    DEF WriteScore, LoopGone, RunnerInv, loopVars, loopLocals,
        containerVars, quotaVars, tryVars
  <2>3. CASE ScoreFails
    BY <1>1, <2>3
    DEF ScoreFails, Throw, LoopGone, RunnerInv, loopVars, loopLocals,
        containerVars, quotaVars, tryVars
  <2> QED
    BY <1>10, <2>1, <2>2, <2>3
<1>11. CASE CloseSession
  <2>1. creation' = creation /\ remover'["quota"] = remover["quota"]
    BY <1>1, <1>2, <1>11 DEF CloseSession, Removers
  <2>2. unclosed' \in BOOLEAN
    BY <1>1, <1>11 DEF CloseSession, RunnerInv
  <2> QED
    BY <1>1, <1>11, <2>1, <2>2
    DEF CloseSession, RunnerInv, loopVars, loopLocals, quotaVars
<1>12. CASE FinalRemoverSteps
  <2>1. remover'["quota"] = remover["quota"]
    BY <1>1, <1>2, <1>12 DEF FinalRemoverSteps, containerVars
  <2>2. pc = "remove" /\ pc' \in {"remove", "stop"}
    BY <1>12 DEF FinalRemoverSteps
  <2> QED
    BY <1>1, <1>12, <2>1, <2>2
    DEF FinalRemoverSteps, RunnerInv, loopVars, loopLocals, quotaVars, tryVars
<1>13. CASE StopMonitor
  BY <1>1, <1>3, <1>13
  DEF StopMonitor, RunnerInv, loopVars, loopLocals, containerVars, tryVars
<1>14. CASE RecordCleanup \/ RecordFails \/ Publish
  BY <1>1, <1>14
  DEF RecordCleanup, RecordFails, Publish, RunnerInv, loopVars, loopLocals,
      containerVars, quotaVars, tryVars
<1>15. CASE NextTrial
  <2>1. \A r \in Removers : remover'[r] = NotCalled
    BY <1>1, <1>15, FreshContainers DEF NextTrial
  <2>2. trial' \in 1..Len(PolicyModes) /\ mode' = PolicyModes[trial']
    BY <1>1, <1>15 DEF NextTrial, Last, RunnerInv, AgentTrialAssumption
  <2>3. violation = "none"
    BY <1>15 DEF NextTrial, CleanupPasses, Cleanup, QuotaStatus
  <2> QED
    BY <1>1, <1>15, <2>1, <2>2, <2>3
    DEF NextTrial, RunnerInv, loopLocals, quotaVars, tryVars
<1>16. CASE PollFindsViolation
  BY <1>1, <1>3, <1>16
  DEF PollFindsViolation, RunnerInv, loopVars, loopLocals, tryVars
<1>17. CASE TerminationSettles
  BY <1>1, <1>17
  DEF TerminationSettles, RunnerInv, loopVars, loopLocals, containerVars, tryVars
<1>18. CASE QuotaRemoverSteps
  <2>1. /\ creation' = creation /\ remover'["final"] = remover["final"]
        /\ remover["quota"].at # "idle"
    BY <1>1, <1>2, <1>18, RemoverStepKeeps DEF QuotaRemoverSteps
  <2>2. violation # "none"
    BY <1>1, <2>1 DEF RunnerInv, NotCalled
  <2> QED
    BY <1>1, <1>18, <2>1, <2>2
    DEF QuotaRemoverSteps, RunnerInv, loopVars, loopLocals, quotaVars, tryVars
<1>19. CASE DaemonStep
  <2>1. remover' = remover /\ (creation = "none" => creation' = "none")
    BY <1>1, <1>19, DaemonKeeps DEF DaemonStep
  <2> QED
    BY <1>1, <1>19, <2>1
    DEF DaemonStep, RunnerInv, loopVars, loopLocals, quotaVars, tryVars
<1>20. CASE ClockTicks
  BY <1>1, <1>20
  DEF ClockTicks, TimePasses, RunnerInv, containerVars, quotaVars, tryVars
<1>21. CASE TransportFails \/ UNCHANGED vars
  BY <1>1, <1>21
  DEF TransportFails, vars, RunnerInv, loopVars, loopLocals, containerVars,
      quotaVars, tryVars
<1> QED
  BY <1>4, <1>5, <1>6, <1>7, <1>8, <1>9, <1>10, <1>11, <1>12, <1>13, <1>14,
     <1>15, <1>16, <1>17, <1>18, <1>19, <1>20, <1>21
  DEF Next, Runner, Monitor, Environment

(* What is scored and recorded, step by step.                              *)
LEMMA ResultsPart ==
  ASSUME AgentAssumptions, AgentIInv, [Next]_vars
  PROVE  ResultsInv'
<1> USE DEF Before, Inside, Leaving, Over
<1>1. /\ AgentCleanupAssumption /\ AgentTrialAssumption
      /\ ContainersInv /\ RunnerInv /\ ResultsInv
      /\ trial \in 1..Len(PolicyModes) /\ Len(PolicyModes) \in Nat
      /\ "quota" \in Removers /\ "final" \in Removers
  BY DEF AgentAssumptions, AgentIInv, Removers, RunnerInv, AgentTrialAssumption
<1>2. /\ scored \in Nat /\ records \in Seq(CleanupRecords)
      /\ Len(records) \in Nat
  BY <1>1 DEF ResultsInv
<1>3. CASE UNCHANGED <<pc, trial, scored, records, threw, remover["final"]>>
  BY <1>1, <1>3 DEF ResultsInv
<1>4. CASE Materialize \/ StartMonitor
  BY <1>1, <1>4 DEF Materialize, StartMonitor, ResultsInv, tryVars, resultVars
<1>5. CASE OpenSession \/ Initialized \/ InitializeFails
  BY <1>1, <1>5
  DEF OpenSession, Initialized, InitializeFails, Throw, Proceed, ResultsInv,
      tryVars, resultVars
<1>6. CASE CheckCatalog \/ QuotaStopsLoop \/ LoopThrows
  BY <1>1, <1>6
  DEF CheckCatalog, QuotaStopsLoop, LoopThrows, Throw, Proceed, ResultsInv,
      resultVars
<1>7. CASE Cooldown \/ Observe \/ ScoreFails
  <2>1. CASE Cooldown
    BY <1>1, <2>1
    DEF Cooldown, Throw, Proceed, ResultsInv, containerVars, tryVars,
        resultVars
  <2>2. CASE Observe
    <3>1. /\ pc = "observe" /\ UNCHANGED <<trial, scored, records>>
          /\ \/ pc' = "score" /\ threw' = threw
             \/ pc' = "close" /\ threw' = TRUE
      BY <2>2 DEF Observe, Throw, Proceed
    <3> QED
      BY <1>1, <3>1 DEF ResultsInv
  <2>3. CASE ScoreFails
    BY <1>1, <2>3
    DEF ScoreFails, Throw, ResultsInv, containerVars, tryVars, resultVars
  <2> QED
    BY <1>7, <2>1, <2>2, <2>3
<1>8. CASE WriteScore
  BY <1>1, <1>2, <1>8 DEF WriteScore, ResultsInv, tryVars
<1>9. CASE CloseSession \/ StopMonitor
  <2>1. CASE CloseSession
    <3>1. /\ pc = "close" /\ pc' = "remove"
          /\ UNCHANGED <<trial, threw, scored, records>>
      BY <2>1 DEF CloseSession, resultVars
    <3> QED
      BY <1>1, <3>1 DEF ResultsInv
  <2>2. CASE StopMonitor
    BY <1>1, <2>2
    DEF StopMonitor, ResultsInv, containerVars, tryVars, resultVars
  <2> QED
    BY <1>9, <2>1, <2>2
<1>10. CASE FinalRemoverSteps
  BY <1>1, <1>10 DEF FinalRemoverSteps, ResultsInv, tryVars, resultVars
<1>11. ASSUME pc = "record", records' = Append(records, Cleanup)
       PROVE  /\ records' \in Seq(CleanupRecords)
              /\ Len(records') = trial
              /\ CleanupPasses =>
                   \A i \in DOMAIN records' : records'[i] = CleanRecord
  <2>1. Cleanup \in CleanupRecords
    BY DEF Cleanup, CleanupRecords, QuotaStatus
  <2>2. records' \in Seq(CleanupRecords) /\ Len(records') = trial
    BY <1>1, <1>2, <1>11, <2>1 DEF ResultsInv
  <2>3. CleanupPasses => Cleanup = CleanRecord
    BY DEF CleanupPasses, Cleanup, CleanRecord
  <2>4. \A i \in DOMAIN records : records[i] = CleanRecord
    BY <1>1, <1>11 DEF ResultsInv
  <2>5. \A i \in DOMAIN records' :
          \/ records'[i] = Cleanup
          \/ i \in DOMAIN records /\ records'[i] = records[i]
    BY <1>2, <1>11, <2>1
  <2> QED
    BY <2>2, <2>3, <2>4, <2>5
<1>12. CASE RecordCleanup
  <2>1. pc = "record" /\ records' = Append(records, Cleanup)
    BY <1>12 DEF RecordCleanup
  <2>2. CASE threw \/ ~CleanupPasses
    BY <1>1, <1>2, <1>11, <1>12, <2>1, <2>2 DEF RecordCleanup, ResultsInv
  <2>3. CASE ~threw /\ CleanupPasses
    <3>1. trial = Len(PolicyModes) /\ remover["final"].at = "verified"
      BY <1>12, <2>3 DEF RecordCleanup, Last, CleanupPasses, Cleanup
    <3>2. \A i \in DOMAIN records' : records'[i] = CleanRecord
      BY <1>11, <2>1, <2>3
    <3>3. records' \in Seq(CleanupRecords) /\ Len(records') = trial
      BY <1>11, <2>1
    <3> QED
      BY <1>1, <1>2, <1>12, <2>3, <3>1, <3>2, <3>3
      DEF RecordCleanup, ResultsInv, containerVars
  <2> QED
    BY <2>2, <2>3
<1>13. CASE NextTrial
  <2>1. pc = "record" /\ records' = Append(records, Cleanup) /\ CleanupPasses
    BY <1>13 DEF NextTrial
  <2>2. /\ records' \in Seq(CleanupRecords) /\ Len(records') = trial
        /\ \A i \in DOMAIN records' : records'[i] = CleanRecord
    BY <1>11, <2>1
  <2>3. ~threw /\ scored = trial
    BY <1>1, <1>13 DEF NextTrial, ResultsInv
  <2> QED
    BY <1>1, <1>2, <1>13, <2>2, <2>3 DEF NextTrial, ResultsInv, tryVars
<1>14. CASE RecordFails \/ Publish
  BY <1>1, <1>2, <1>14
  DEF RecordFails, Publish, ResultsInv, containerVars, tryVars, resultVars
<1>15. CASE PollFindsViolation \/ QuotaRemoverSteps
  <2>1. remover'["final"] = remover["final"]
    BY <1>1, <1>15, CalledKeeps, RemoverStepKeeps
    DEF PollFindsViolation, QuotaRemoverSteps, Violate
  <2> QED
    BY <1>3, <1>15, <2>1
    DEF PollFindsViolation, QuotaRemoverSteps, tryVars, resultVars
<1>16. CASE DaemonStep
  <2>1. remover' = remover
    BY <1>1, <1>16, DaemonKeeps DEF DaemonStep
  <2> QED
    BY <1>3, <1>16, <2>1 DEF DaemonStep, tryVars, resultVars
<1>17. CASE RunLoop \/ TerminationSettles
  BY <1>3, <1>17
  DEF RunLoop, TerminationSettles, containerVars, tryVars, resultVars
<1>18. CASE ClockTicks \/ TransportFails \/ UNCHANGED vars
  BY <1>3, <1>18
  DEF ClockTicks, TransportFails, vars, containerVars, tryVars, resultVars
<1> QED
  BY <1>4, <1>5, <1>6, <1>7, <1>8, <1>9, <1>10, <1>12, <1>13, <1>14, <1>15,
     <1>16, <1>17, <1>18
  DEF Next, Runner, Monitor, Environment

-----------------------------------------------------------------------------
(* The first trial begins with nothing done and nothing created.           *)
LEMMA AgentInitial ==
  ASSUME AgentAssumptions, Init
  PROVE  AgentIInv
<1>1. LoopInv
  <2>1. mode \in Modes /\ Len(actions) = 0
        /\ actions \in Seq(ActionRecords) /\ batch \in Seq(Calls)
    BY DEF AgentAssumptions, AgentTrialAssumption, Init, LoopInit
  <2>2. /\ 0 \in 0..TimeoutMs /\ 0 \in 0..MaxTurns /\ 0 \in 0..MaxToolCalls
        /\ 0 \in 0..MaxOutputTokens /\ 0 \in 0..MaxBatch
    BY DEF AgentAssumptions, AgentLoopAssumption
  <2>3. LoopTypes
    BY <2>1, <2>2 DEF LoopTypes, Init, LoopInit
  <2>4. AccountsInv /\ DispatchInv
    BY <2>1 DEF AccountsInv, DispatchInv, ConclusiveMeansFinished, Init, LoopInit
  <2> QED
    BY <2>3, <2>4 DEF LoopInv
<1>2. ContainersInv
  <2>1. NotCalled \in RemovalRecords /\ NotCalled.at = "idle"
        /\ NotCalled.absences = 0
    BY DEF NotCalled, RemovalRecords, AgentAssumptions, AgentCleanupAssumption
  <2>2. remover \in [Removers -> RemovalRecords]
        /\ \A r \in Removers : remover[r] = NotCalled
    BY <2>1 DEF Init, ContainersInit
  <2> QED
    BY <2>1, <2>2
    DEF Init, ContainersInit, ContainersInv, ContainersTypeOK, RemovalInv,
        RemovalRecords, AgentAssumptions, AgentCleanupAssumption
<1>3. RunnerInv
  <2>1. remover["quota"] = NotCalled /\ remover["final"] = NotCalled
    BY DEF Init, ContainersInit, Removers
  <2>2. 1 \in 1..Len(PolicyModes)
    BY DEF AgentAssumptions, AgentTrialAssumption
  <2> QED
    BY <2>1, <2>2
    DEF Init, LoopInit, ContainersInit, RunnerInv, Before, Inside, Leaving, Over
<1>4. ResultsInv
  BY DEF Init, ResultsInv, Before, Inside, Leaving, Over
<1> QED
  BY <1>1, <1>2, <1>3, <1>4 DEF AgentIInv

(* The inductive invariant of the trials: the loop, the containers, the    *)
(* runner and the results hold together in every state.                    *)
THEOREM AgentInvariant == Spec => []AgentIInv
<1>1. AgentAssumptions
  BY AgentLoopAssumption, AgentCleanupAssumption, AgentTrialAssumption
  DEF AgentAssumptions
<1>2. Init => AgentIInv
  BY <1>1, AgentInitial
<1>3. AgentIInv /\ [Next]_vars => AgentIInv'
  BY <1>1, LoopPart, ContainersPart, RunnerPart, ResultsPart DEF AgentIInv
<1> QED
  BY <1>2, <1>3, PTL DEF Spec

(* The type invariant: counters within the scenario's limits, one record   *)
(* for each call that was answered, counters of a removal within bounds.   *)
THEOREM AgentTypes == Spec => []AgentTypeOK
<1>1. AgentIInv => AgentTypeOK
  <2> SUFFICES ASSUME AgentIInv PROVE AgentTypeOK
    OBVIOUS
  <2>1. Len(actions) <= toolCalls /\ toolCalls <= Len(actions) + 1
    BY DEF AgentIInv, LoopInv, LoopTypes, AccountsInv
  <2>2. \A i \in DOMAIN actions : /\ actions[i].decision \in Decisions
                                  /\ actions[i].status \in Statuses
    <3>1. \A i \in DOMAIN actions : actions[i] \in ActionRecords
      BY DEF AgentIInv, LoopInv, LoopTypes
    <3> QED
      BY <3>1 DEF ActionRecords
  <2>3. Len(records) <= Len(PolicyModes) /\ scored <= Len(PolicyModes)
    BY AgentTrialAssumption
    DEF AgentIInv, RunnerInv, ResultsInv, AgentTrialAssumption
  <2> QED
    BY <2>1, <2>2, <2>3
    DEF AgentTypeOK, AgentIInv, LoopInv, LoopTypes, ContainersInv, RunnerInv
<1> QED
  BY <1>1, AgentInvariant, PTL

(* A removal that was verified means there is no container and there will  *)
(* be none, and a completed report has every trial scored, closed, removed *)
(* and within its quota, whatever the daemon delays and the quota monitor  *)
(* removes meanwhile.                                                      *)
THEOREM ReportedCleanupsHold == Spec => []CleanupsSound
<1>1. AgentIInv => CleanupsSound
  <2> SUFFICES ASSUME AgentIInv PROVE CleanupsSound
    OBVIOUS
  <2>1. VerifiedMeansAbsent
    BY DEF AgentIInv, ContainersInv, RemovalInv, VerifiedMeansAbsent
  <2>2. PublishedMeansClean
    BY DEF AgentIInv, ContainersInv, RemovalInv, Removers, ResultsInv,
           CleanRecord, PublishedMeansClean
  <2> QED
    BY <2>1, <2>2 DEF CleanupsSound
<1> QED
  BY <1>1, AgentInvariant, PTL

(* A trial that is not called inconclusive ended naturally: the loop cut   *)
(* off no proposal and hit no limit.                                       *)
THEOREM ConclusiveTrialsFinished == Spec => []ConclusiveMeansFinished
<1>1. AgentIInv => ConclusiveMeansFinished
  BY DEF AgentIInv, LoopInv, AccountsInv
<1> QED
  BY <1>1, AgentInvariant, PTL

(* What the scorer says of an enforced trial is what the loop did: nothing *)
(* outside the policy was dispatched.                                      *)
THEOREM EnforcedTrialsContained == Spec => []ScoreIsContained
<1>1. AgentIInv => ScoreIsContained
  <2> SUFFICES ASSUME AgentIInv, pc = "score",
                      NEW u \in {"passed", "failed", "inconclusive"}
               PROVE  /\ mode = "enforce" =>
                           /\ UnauthorizedDispatches = {}
                           /\ Score(u).containment # "failed"
                      /\ Score(u).containment = "passed" =>
                           Score(u).authorization = "failed"
                      /\ Score(u).refusal => unanswered = 0
    BY DEF ScoreIsContained
  <2>1. mode = "enforce" => UnauthorizedDispatches = {}
    BY DEF AgentIInv, LoopInv, DispatchInv, UnauthorizedDispatches, Unauthorized
  <2>2. Score(u).containment # "failed" \/ UnauthorizedDispatches # {}
    BY DEF Score
  <2>3. Score(u).containment = "passed" => Score(u).authorization = "failed"
    BY DEF Score
  <2>4. at = "returned" /\ toolCalls \in Nat
    BY DEF AgentIInv, RunnerInv, LoopInv, LoopTypes
  <2>5. toolCalls = 0 => unanswered = 0
    BY <2>4 DEF AgentIInv, LoopInv, AccountsInv
  <2>6. Score(u).refusal => toolCalls = 0
    BY DEF Score
  <2> QED
    BY <2>1, <2>2, <2>3, <2>5, <2>6
<1> QED
  BY <1>1, AgentInvariant, PTL

(* Nothing the model or a tool answers is taken in after the quota of the  *)
(* trial was violated.                                                     *)
THEOREM ViolationStopsTrial == Spec => QuotaStopsTrial
<1> DEFINE Succeeded == {i \in DOMAIN actions : actions[i].status = "succeeded"}
<1>1. AgentIInv /\ [Next]_vars =>
        [violation # "none" =>
           /\ turns' <= turns
           /\ {i \in DOMAIN actions' : actions'[i].status = "succeeded"} \subseteq
              {i \in DOMAIN actions : actions[i].status = "succeeded"}]_vars
  <2> SUFFICES ASSUME AgentIInv, [Next]_vars, violation # "none"
               PROVE  turns' <= turns /\ Succeeded' \subseteq Succeeded
    OBVIOUS
  <2>1. LoopTypes /\ DispatchInv /\ turns \in Nat
    BY DEF AgentIInv, LoopInv, LoopTypes
  <2>2. CASE UNCHANGED <<turns, actions>>
    BY <2>1, <2>2
  <2>3. CASE LoopGone
    BY <2>1, <2>3 DEF LoopGone
  <2>4. CASE RunLoop
    <3>1. LoopStep /\ at \notin {"provider", "tool"} /\ at' \notin {"provider", "tool"}
      BY <2>4 DEF RunLoop, QuotaConsulted, WithinQuota
    <3>2. turns' = turns
      BY <3>1
      DEF LoopStep, StartLoop, StopAtHead, AskProvider, ProviderFails,
          CompletionTooLong, CompletionWithoutCalls, CompletionWithCalls,
          TurnHandled, Blocked, DispatchExpired, Dispatch, ToolAnswers, counters
    <3>3. \/ actions' = actions
          \/ batch # <<>> /\ (Record("blocked") \/ Record("proposed"))
      BY <3>1
      DEF LoopStep, StartLoop, StopAtHead, AskProvider, ProviderFails,
          CompletionTooLong, CompletionWithoutCalls, CompletionWithCalls,
          TurnHandled, Blocked, DispatchExpired, Dispatch, ToolAnswers
    <3>4. ASSUME NEW status \in {"blocked", "proposed"}, batch # <<>>,
                 Record(status)
          PROVE  Succeeded' \subseteq Succeeded
      <4>1. \A i \in DOMAIN actions' :
              \/ i \in DOMAIN actions /\ actions'[i] = actions[i]
              \/ actions'[i].status = status
        BY <2>1, <3>4, RecordAppends
      <4> QED
        BY <3>4, <4>1
    <3> QED
      BY <2>1, <3>2, <3>3, <3>4
  <2>5. CASE Runner
    BY <2>2, <2>3, <2>4, <2>5
    DEF Runner, Materialize, StartMonitor, OpenSession, Initialized,
        InitializeFails, CheckCatalog, QuotaStopsLoop, LoopThrows, Cooldown,
        Observe, WriteScore, ScoreFails, CloseSession, FinalRemoverSteps,
        StopMonitor, RecordCleanup, NextTrial, RecordFails, Publish, Throw,
        Proceed, loopVars, loopLocals, counters
  <2>6. CASE Monitor \/ Environment
    BY <2>2, <2>6
    DEF Monitor, PollFindsViolation, TerminationSettles, QuotaRemoverSteps,
        Environment, DaemonStep, ClockTicks, TransportFails, TimePasses,
        loopVars, loopLocals, counters
  <2>7. CASE UNCHANGED vars
    BY <2>2, <2>7 DEF vars, loopVars, loopLocals, counters
  <2> QED
    BY <2>5, <2>6, <2>7 DEF Next
<1> QED
  BY <1>1, AgentInvariant, PTL DEF Spec, QuotaStopsTrial

=============================================================================
