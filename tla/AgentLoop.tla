----------------------------- MODULE AgentLoop -----------------------------
(***************************************************************************)
(* runAgentLoop() of src/src/agent/loop.ts with the policy that decides    *)
(* each proposed tool call (policy.ts): the model is asked for turns until *)
(* it ends naturally or a limit stops it, each proposed call is authorized *)
(* and then dispatched, blocked, or skipped when the deadline has passed.  *)
(*                                                                         *)
(* An action is the code from one outside answer (the model's, a tool's)   *)
(* to the next point that waits for one, with the records it appends.      *)
(* The clock counts down to the trial's deadline and may pass at any time. *)
(* A call is what the policy tells apart: its tool and whether its         *)
(* arguments meet the rule's constraints.                                  *)
(***************************************************************************)
EXTENDS Integers, Sequences, FiniteSets

CONSTANTS
  MaxTurns, MaxToolCalls, MaxOutputTokens, TimeoutMs,  (* rollouts.limits    *)
  MaxBatch,          (* bound: proposals in one completion                   *)
  Rules,             (* tool -> decision of its authorization rule           *)
  DefaultDecision,   (* authorization.defaultDecision                        *)
  Calls              (* the calls a model may propose: [tool, matches]       *)

Modes == {"observe", "enforce"}
Limits == {"turns", "tool_calls", "timeout", "output_tokens"}
Decisions == {"allowed", "denied", "requires_approval"}
Statuses == {"blocked", "proposed", "succeeded", "failed"}

ASSUME AgentLoopAssumption ==
  /\ MaxTurns \in Nat \ {0} /\ MaxToolCalls \in Nat \ {0}
  /\ MaxOutputTokens \in Nat \ {0} /\ TimeoutMs \in Nat \ {0}
  /\ MaxBatch \in Nat
  /\ DefaultDecision \in Decisions
  /\ \A tool \in DOMAIN Rules : Rules[tool] \in Decisions

VARIABLES
  mode,          (* policyMode of the trial                                  *)
  at,            (* where the loop stands                                    *)
  clock,         (* elapsed since startedAt                                  *)
  turns, toolCalls, outputTokens,
  requires,      (* requiresAnotherTurn                                      *)
  limitsHit,
  inconclusive,  (* inconclusiveReason # undefined                           *)
  batch,         (* proposals of the current turn not yet handled            *)
  unanswered,    (* proposals in the history without a tool message          *)
  actions        (* actions joined with their decisions                      *)

counters == <<turns, toolCalls, outputTokens>>
verdict == <<requires, limitsHit, inconclusive>>
loopLocals == <<at, clock, counters, verdict, batch, unanswered, actions>>
loopVars == <<mode, loopLocals>>

LoopInit ==
  /\ at = "outside"
  /\ clock = 0
  /\ turns = 0 /\ toolCalls = 0 /\ outputTokens = 0
  /\ requires = FALSE /\ limitsHit = {} /\ inconclusive = FALSE
  /\ batch = <<>> /\ unanswered = 0 /\ actions = <<>>

(* The caller is done with the loop's result.                              *)
LoopGone ==
  /\ at' = "outside"
  /\ clock' = 0
  /\ turns' = 0 /\ toolCalls' = 0 /\ outputTokens' = 0
  /\ requires' = FALSE /\ limitsHit' = {} /\ inconclusive' = FALSE
  /\ batch' = <<>> /\ unanswered' = 0 /\ actions' = <<>>
  /\ mode' = mode

-----------------------------------------------------------------------------
(* evaluateAgentToolCallPolicy(): no rule, the default decision; arguments *)
(* that do not meet the rule, denied; otherwise what the rule says.        *)
Decision(call) ==
  IF call.tool \notin DOMAIN Rules THEN DefaultDecision
  ELSE IF ~call.matches THEN "denied"
  ELSE Rules[call.tool]

(* Mutant: what needs approval is dispatched.                              *)
BlocksDeniedOnly(decision) == mode = "observe" \/ decision # "denied"

(* dispatchDisposition()                                                   *)
Dispatches(decision) == decision = "allowed" \/ mode = "observe"

TimeLeft == clock < TimeoutMs

TimePasses ==
  /\ at \notin {"outside", "returned"}
  /\ TimeLeft
  /\ clock' = clock + 1
  /\ UNCHANGED <<mode, at, counters, verdict, batch, unanswered, actions>>

-----------------------------------------------------------------------------
(* The system and user messages are recorded; the clock is running.        *)
StartLoop ==
  /\ at = "outside"
  /\ at' = "head"
  /\ UNCHANGED <<mode, clock, counters, verdict, batch, unanswered, actions>>

(* The loop ends.  A turn that was still required and not taken because    *)
(* the turns are used up makes the trial inconclusive here.                *)
Finish(taken, required, hit, unclear) ==
  LET outOfTurns == required /\ taken >= MaxTurns
  IN /\ at' = "returned"
     /\ requires' = required
     /\ limitsHit' = hit \union IF outOfTurns THEN {"turns"} ELSE {}
     /\ inconclusive' = (unclear \/ outOfTurns)

(* The limit that stops the loop at its head, in the order of the checks.  *)
HeadLimit ==
  IF toolCalls >= MaxToolCalls THEN {"tool_calls"}
  ELSE IF ~TimeLeft THEN {"timeout"}
  ELSE IF outputTokens >= MaxOutputTokens THEN {"output_tokens"}
  ELSE {}

(* Mutant: a limit at the head is noted, but the trial stays conclusive.   *)
LimitForgets == inconclusive

LimitMeansInconclusive == inconclusive \/ requires

StopAtHead ==
  /\ at = "head"
  /\ \/ turns >= MaxTurns /\ Finish(turns, requires, limitsHit, inconclusive)
     \/ /\ turns < MaxTurns
        /\ HeadLimit # {}
        /\ Finish(turns, requires, limitsHit \union HeadLimit,
                  LimitMeansInconclusive)
  /\ UNCHANGED <<mode, clock, counters, batch, unanswered, actions>>

AskProvider ==
  /\ at = "head"
  /\ turns < MaxTurns
  /\ HeadLimit = {}
  /\ at' = "provider"
  /\ UNCHANGED <<mode, clock, counters, verdict, batch, unanswered, actions>>

(* provider.complete() throws: provider-error.json, no further turn.       *)
ProviderFails ==
  /\ at = "provider"
  /\ \E timedOut \in BOOLEAN :
       Finish(turns, requires,
              limitsHit \union IF timedOut THEN {"timeout"} ELSE {}, TRUE)
  /\ UNCHANGED <<mode, clock, counters, batch, unanswered, actions>>

(* The completion costs more than what was left of the output budget: it   *)
(* counts as a turn, but neither its message nor its calls are kept.       *)
CompletionTooLong ==
  /\ at = "provider"
  /\ turns' = turns + 1
  /\ Finish(turns + 1, FALSE, limitsHit \union {"output_tokens"}, TRUE)
  /\ UNCHANGED <<mode, clock, toolCalls, outputTokens, batch, unanswered,
                 actions>>

Natural(reason) == reason = "stop"

CompletionWithoutCalls ==
  /\ at = "provider"
  /\ turns' = turns + 1
  /\ \E cost \in 1..(MaxOutputTokens - outputTokens) :
       outputTokens' = outputTokens + cost
  /\ \E reason \in {"stop", "length", "other"} :
       Finish(turns + 1, FALSE,
              limitsHit \union IF reason = "length" THEN {"output_tokens"}
                               ELSE {},
              inconclusive \/ ~Natural(reason))
  /\ UNCHANGED <<mode, clock, toolCalls, batch, unanswered, actions>>

CompletionWithCalls ==
  /\ at = "provider"
  /\ turns' = turns + 1
  /\ \E cost \in 1..(MaxOutputTokens - outputTokens) :
       outputTokens' = outputTokens + cost
  /\ \E n \in 1..MaxBatch : \E proposals \in [1..n -> Calls] :
       batch' = proposals /\ unanswered' = n
  /\ requires' = TRUE
  /\ at' = "calls"
  /\ UNCHANGED <<mode, clock, toolCalls, limitsHit, inconclusive, actions>>

-----------------------------------------------------------------------------
CallsLeft == toolCalls < MaxToolCalls

(* The turn's calls are all handled, or the call limit stops the inner     *)
(* loop: back to the head.                                                 *)
TurnHandled ==
  /\ at = "calls"
  /\ batch = <<>> \/ ~CallsLeft
  /\ limitsHit' = IF batch = <<>> THEN limitsHit
                  ELSE limitsHit \union {"tool_calls"}
  /\ batch' = <<>>
  /\ at' = "head"
  /\ UNCHANGED <<mode, clock, counters, requires, inconclusive, unanswered,
                 actions>>

Proposal == Head(batch)

(* The action is recorded with its decision, then its tool message.        *)
Record(status) ==
  /\ actions' = Append(actions, [call |-> Proposal, status |-> status,
                                 decision |-> Decision(Proposal)])
  /\ batch' = Tail(batch)

Blocked ==
  /\ at = "calls"
  /\ batch # <<>> /\ CallsLeft
  /\ ~Dispatches(Decision(Proposal))
  /\ toolCalls' = toolCalls + 1
  /\ Record("blocked")
  /\ unanswered' = unanswered - 1
  /\ UNCHANGED <<mode, at, clock, turns, outputTokens, verdict>>

(* The deadline passed since the model answered: the call is not sent, and *)
(* the loop ends without a tool message for it.                            *)
DispatchExpired ==
  /\ at = "calls"
  /\ batch # <<>> /\ CallsLeft
  /\ Dispatches(Decision(Proposal))
  /\ ~TimeLeft
  /\ toolCalls' = toolCalls + 1
  /\ Record("proposed")
  /\ Finish(turns, FALSE, limitsHit \union {"timeout"}, TRUE)
  /\ UNCHANGED <<mode, clock, turns, outputTokens, unanswered>>

Dispatch ==
  /\ at = "calls"
  /\ batch # <<>> /\ CallsLeft
  /\ Dispatches(Decision(Proposal))
  /\ TimeLeft
  /\ toolCalls' = toolCalls + 1
  /\ at' = "tool"
  /\ UNCHANGED <<mode, clock, turns, outputTokens, verdict, batch, unanswered,
                 actions>>

(* executeTool() returned a result, a local failure, or threw an error     *)
(* that is neither a quota nor a cleanup error.                            *)
ToolAnswers ==
  /\ at = "tool"
  /\ \E status \in {"succeeded", "failed"} : Record(status)
  /\ unanswered' = unanswered - 1
  /\ at' = "calls"
  /\ UNCHANGED <<mode, clock, counters, verdict>>

LoopStep ==
  \/ StartLoop \/ StopAtHead \/ AskProvider \/ ProviderFails
  \/ CompletionTooLong \/ CompletionWithoutCalls \/ CompletionWithCalls
  \/ TurnHandled \/ Blocked \/ DispatchExpired \/ Dispatch \/ ToolAnswers

=============================================================================
