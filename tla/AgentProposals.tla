--------------------------- MODULE AgentProposals ---------------------------
(***************************************************************************)
(* src/src/audit/v2/agent-proposal.ts: a model proposes further cases for  *)
(* an audit that compiles.  prepareAgentProposalExperiment() computes what *)
(* is left of the plan's bounds, comparePreparedAgentProposalSubmission()  *)
(* examines the submitted candidates one after the other and accepts a     *)
(* selection of them, and nothing is executed: an operator may add the     *)
(* accepted cases to the specification, which is then compiled afresh.     *)
(* evaluateCandidate() is a second implementation of what compile.ts does  *)
(* for a case, without the other cases of the plan.                        *)
(*                                                                         *)
(* A candidate is a record of a proposalId and of a case (caseId, kind,    *)
(* steps, predictor, and approval: the class it suggests).  Warnings and   *)
(* the reasons of a refusal by evaluateCandidate() are left out.           *)
(***************************************************************************)
EXTENDS ExperimentPlan

CONSTANTS
  Audits,             (* the inputs of the experiment                        *)
  Candidates,         (* what the model can submit                           *)
  MaxSubmitted,       (* AGENT_PROPOSAL_EXPERIMENT_LIMITS.maxCandidates      *)
  MaxCandidates, MaxProposedSteps,       (* options of the experiment        *)
  MaxFeatures         (* AGENT_PROPOSAL_EXPERIMENT_LIMITS.maxComparison...   *)

ASSUME AuditsAssumption ==
  /\ \A a \in Audits : IsAudit(a)
  /\ \A c \in Candidates : IsCase(c)
  /\ {MaxSubmitted, MaxCandidates, MaxProposedSteps, MaxFeatures} \subseteq Nat

VARIABLES
  audit,              (* the inputs, which the comparison recomputes from    *)
  proposals,          (* "given", "prepared", "reported" or "refused"        *)
  examined            (* the candidates and their results, in order          *)

proposalVars == <<audit, proposals, examined>>

-----------------------------------------------------------------------------
Baseline == audit.suite \union audit.manual

(* featuresForCase(), without the predictions and the assertions.          *)
Features(c) ==
  {<<"kind", c.kind>>} \union
  UNION {LET step == c.steps[i]
             t == Tree[step.args]
         IN  {<<"tool", step.tool>>} \union
             {<<"argument", step.tool, p,
                IF ~ExactReference(t, p) THEN t[p].kind
                ELSE IF AliasAt(t, p) \in DOMAIN audit.resources
                THEN audit.resources[AliasAt(t, p)] ELSE "unknown">> :
                p \in {x \in DOMAIN t : ~ \E q \in DOMAIN t :
                         ExactReference(t, q) /\ IsStrictPrefix(q, x)}} :
         i \in DOMAIN c.steps}

(* caseSemanticDigest(): the tools and the arguments, not the names.       *)
Semantics(c) ==
  [i \in DOMAIN c.steps |-> <<c.steps[i].tool, Tree[c.steps[i].args]>>]

BaselineFeatures == UNION {Features(c) : c \in Baseline}

(* Mutant: the bounds are compared with cases that are not yet expanded.   *)
UnexpandedLeft(bound, used) == IF used <= bound THEN bound - used ELSE 0

(* proposalBudget: the bounds are on expanded cases and steps.             *)
Least(a, b) == IF a <= b THEN a ELSE b
Left(bound, used) == IF used <= bound THEN (bound - used) \div Factor(audit) ELSE 0
MaxAcceptedCases == Least(MaxCandidates, Left(audit.bounds.cases, TotalCases(audit)))
MaxAcceptedSteps == Least(MaxProposedSteps, Left(audit.bounds.steps, TotalSteps(audit)))

-----------------------------------------------------------------------------
(* evaluateCandidate(): the approval the case needs, with the plan grown   *)
(* by this one case; {} if it throws.  Every step is evaluated with a      *)
(* tracker of its own.                                                     *)
EvaluateCandidate(c) ==
  IF \/ Cardinality(Features(c)) > MaxFeatures
     \/ \E i \in DOMAIN c.steps :
          StepCanonical(audit, c.steps[i], "agent_proposed") > MaxCanonicalBytes
  THEN {}
  ELSE CompileCase(audit, c, "agent_proposed",
         TotalCases(audit) + Factor(audit),
         TotalSteps(audit) + Factor(audit) * Len(c.steps))

(* agentExperimentProposalV2Schema: a model can only infer.                *)
Parses(c) == c.steps # <<>> /\ c.predictor = "model_inference"

Parsed ==
  {i \in DOMAIN examined : examined[i].reason \notin {"beyond", "contract_invalid"}}
AcceptedAt == {i \in DOMAIN examined : examined[i].reason = "accepted"}
Selected == {examined[i] : i \in AcceptedAt}
StepsIn(places) == SumFunction([i \in places |-> Len(examined[i].candidate.steps)])

(* What becomes of the next candidate of the submission: the first check   *)
(* that it does not pass, in the order of the code.                        *)
Finding(c) ==
  LET evaluation == EvaluateCandidate(c)
      earlier == {examined[i].candidate : i \in Parsed}
      named == {examined[i].candidate : i \in {j \in Parsed :
                                 examined[j].reason # "duplicate_proposal_id"}}
  IN  IF Len(examined) >= MaxCandidates THEN "beyond"
      ELSE IF ~Parses(c) THEN "contract_invalid"
      ELSE IF \E d \in earlier : d.proposalId = c.proposalId THEN "duplicate_proposal_id"
      ELSE IF \E d \in named : d.caseId = c.caseId THEN "duplicate_case_id"
      ELSE IF \E d \in Baseline : d.caseId = c.caseId THEN "reserved_case_id"
      ELSE IF c.kind \notin {"tool_call", "security_probe"} THEN "unsupported_case_kind"
      ELSE IF StepsIn(Parsed) + Len(c.steps) > MaxProposedSteps THEN "steps_exceeded"
      ELSE IF evaluation = {} THEN "evaluation_failed"
      ELSE IF Semantics(c) \in {Semantics(d) : d \in Baseline} THEN "duplicate_baseline"
      ELSE IF Semantics(c) \in {Semantics(e.candidate) : e \in Selected} THEN "duplicate_agent"
      ELSE IF \/ Cardinality(AcceptedAt) + 1 > MaxAcceptedCases
              \/ StepsIn(AcceptedAt) + Len(c.steps) > MaxAcceptedSteps THEN "bounds_exceeded"
      ELSE "accepted"

(* The findings that come before an evaluation that holds.                 *)
Early == {"beyond", "contract_invalid", "duplicate_proposal_id", "duplicate_case_id",
          "reserved_case_id", "unsupported_case_kind", "steps_exceeded",
          "evaluation_failed"}

(* agentProposalCandidateResultV2Schema: what was not rejected carries the *)
(* approval it needs, and whether the suggested one understates it.        *)
ResultAccepted(e) ==
  /\ e.reason \in {"accepted", "duplicate_baseline", "duplicate_agent"} => e.approval # {}
  /\ \A rank \in e.approval :
       /\ rank >= e.candidate.approval
       /\ Cardinality(Features(e.candidate)) <= MaxFeatures

(* agentProposalContextV2Schema.                                           *)
ContextAccepted ==
  /\ \A c, d \in Baseline : c.caseId = d.caseId => c = d
  /\ MaxAcceptedCases <= MaxCandidates /\ MaxAcceptedSteps <= MaxProposedSteps

-----------------------------------------------------------------------------
ProposalsInit ==
  /\ audit \in Audits
  /\ proposals = "given"
  /\ examined = <<>>

(* prepareAgentProposalExperiment(): only for an audit that compiles.      *)
PrepareProposals ==
  /\ proposals = "given"
  /\ proposals' = IF /\ Compile(audit) # {}
                     /\ Cardinality(BaselineFeatures) <= MaxFeatures
                     /\ ContextAccepted
                  THEN "prepared" ELSE "refused"
  /\ UNCHANGED <<audit, examined>>

(* No single submission call, or a context that is not the recomputed one. *)
RefuseSubmission ==
  /\ proposals = "prepared" /\ examined = <<>>
  /\ proposals' = "refused"
  /\ UNCHANGED <<audit, examined>>

Examine(c) ==
  /\ proposals = "prepared"
  /\ Len(examined) < MaxSubmitted
  /\ LET reason == Finding(c)
     IN  examined' = Append(examined,
           [candidate |-> c, reason |-> reason,
            approval |-> IF reason \in Early THEN {} ELSE EvaluateCandidate(c)])
  /\ UNCHANGED <<audit, proposals>>

(* agentProposalComparisonV2Schema, with the features of the baseline and  *)
(* of what the report accepts.                                             *)
ReportAccepts ==
  /\ Len(examined) <= MaxSubmitted
  /\ \A e \in Range(examined) : ResultAccepted(e)
  /\ Cardinality(BaselineFeatures \union
       UNION {Features(e.candidate) : e \in Selected}) <= MaxFeatures

ReportProposals ==
  /\ proposals = "prepared"
  /\ proposals' = IF ReportAccepts THEN "reported" ELSE "refused"
  /\ UNCHANGED <<audit, examined>>

ProposalsNext ==
  \/ PrepareProposals \/ RefuseSubmission \/ ReportProposals
  \/ \E c \in Candidates : Examine(c)

ProposalsSpec == ProposalsInit /\ [][ProposalsNext]_proposalVars

-----------------------------------------------------------------------------
(* The operator's next specification, with the cases of some candidates.   *)
AsManual(c) ==
  [caseId |-> c.caseId, kind |-> c.kind, steps |-> c.steps,
   predicted |-> {}, predictor |-> "operator", approval |-> c.approval,
   frame |-> c.frame]
Adopted(candidates) ==
  [audit EXCEPT !.manual = @ \union {AsManual(c) : c \in candidates}]

(* What the report leaves to the fresh compilation: the form of the plan's *)
(* cases, and the budgets over all of them.                                *)
FormOk(c) ==
  /\ c.kind = "tool_call" => Len(c.steps) = 1
  /\ Len(c.steps) <= audit.bounds.stepsPerCase

AggregatesHold(a) ==
  /\ PolicyWorkBounded(a.rules, TotalSteps(a)) /\ CanonicalBounded(a)
  /\ Materializable(a) /\ WorkBounded(a)
  /\ TotalCases(a) <= ArrayItems /\ TotalSteps(a) <= MaxExpandedSteps
  /\ \A m \in Measures :
       SumFunction([c \in a.manual |-> TemplateWeight(c)[m]]) <= MaxArtifact[m]
  /\ Composable(a) => \A m \in Measures : PlanWeight(Plan(a))[m] <= MaxArtifact[m]

(* What is judged are shorter paths than those that are compiled, of       *)
(* another name: an argument can outgrow its limit in between, and a       *)
(* schema or an argument rule can tell them apart.                         *)
PathsFit(c) ==
  \A i \in DOMAIN c.steps : ResolvedBytes(c.steps[i], "manual") <= audit.bounds.argument

PathNeutral(c) ==
  \A i \in DOMAIN c.steps :
    LET step == c.steps[i]
    IN  /\ step.tool \in Tools =>
             (step.args \in Conforms["proposal"][step.tool]
                <=> step.args \in Conforms["resource"][step.tool])
        /\ \A r \in audit.rules : \A j \in DOMAIN r.arguments :
             Admits(r.arguments[j], Resolved(step, "agent_proposed"))
               <=> Admits(r.arguments[j], Resolved(step, "manual"))

(* A proposal is judged as agent_proposed and compiled as manual.          *)
OriginNeutral ==
  \A r \in audit.rules : "agent_proposed" \in r.origins <=> "manual" \in r.origins

(* The selection compiles, with the approvals of the report, wherever the  *)
(* report does not say that the fresh compilation has to look again and    *)
(* the paths make no difference.                                           *)
SelectionCompiles ==
  LET selected == {e.candidate : e \in Selected}
      next == Adopted(selected)
  IN  /\ \A c \in selected : FormOk(c) /\ PathNeutral(c) /\ PathsFit(c)
      /\ AggregatesHold(next)
      => \E plan \in Compile(next) :
           \A e \in Selected : \A x \in plan :
             x.caseId = e.candidate.caseId => e.approval = {x.approval}

(* What evaluateCandidate() refuses does not compile on its own either: it *)
(* is never refused for the length of its paths alone.                     *)
RefusedDoesNotCompile ==
  \A e \in Range(examined) :
    /\ e.reason = "evaluation_failed"
    /\ Cardinality(Features(e.candidate)) <= MaxFeatures
    /\ PathNeutral(e.candidate)
    => Compile(Adopted({e.candidate})) = {}

SelectionIsNovel ==
  /\ \A e \in Selected : \A c \in Baseline :
       e.candidate.caseId # c.caseId /\ Semantics(e.candidate) # Semantics(c)
  /\ \A e, f \in Selected : e # f =>
       /\ e.candidate.caseId # f.candidate.caseId
       /\ Semantics(e.candidate) # Semantics(f.candidate)

(* The two implementations of the compiler's rules agree where the paths   *)
(* that they resolve a reference to do: what the report accepts compiles   *)
(* together with the approvals it names, what it refuses for its content   *)
(* does not compile, an accepted case is a new one, and the schema of the  *)
(* report admits every single result.                                      *)
ProposalsSound ==
  proposals \in {"prepared", "reported"} =>
    /\ SelectionIsNovel
    /\ \A e \in Range(examined) : ResultAccepted(e)
    /\ OriginNeutral => SelectionCompiles /\ RefusedDoesNotCompile

(* The plans themselves: a tighter policy never loosens one, the mandatory *)
(* cases do not depend on the operator's, compiler and envelope agree, and *)
(* every synthetic path is of a class some rule authorizes.                *)
PlansSound ==
  proposals = "given" =>
    /\ TighterNeverLoosens(audit)
    /\ MandatoryStandsAlone(audit)
    /\ EnvelopeAgrees(audit)
    /\ ClassesAuthorized(audit)

=============================================================================
