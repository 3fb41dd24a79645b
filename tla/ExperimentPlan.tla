--------------------------- MODULE ExperimentPlan ---------------------------
(***************************************************************************)
(* src/src/audit/v2/compile.ts with policy.ts, references.ts and the       *)
(* schemas of the plan and the policy: compileExperimentPlan() expands the *)
(* mandatory suite and the operator's cases over variants and repetitions, *)
(* resolves their symbolic resources, asks the policy for the approval     *)
(* each case needs, and puts the result into an envelope that checks it    *)
(* once more.  Anything that does not hold is a refusal of the whole plan. *)
(*                                                                         *)
(* An audit is the input: a record of the policy's parts (rules, required, *)
(* coverage, sensors, reviewedAt, expires), the specification's (manual,   *)
(* reservation, repetitions, variants, bounds, resources, specSensors,     *)
(* createdAt), the mandatory suite, and drifted: those of its inputs that  *)
(* are not the ones the specification was written for.  Digests are        *)
(* abstracted to that.  An argument is a tree: a function from positions   *)
(* (sequences of keys) to nodes [kind, text].  What it weighs against the  *)
(* limits (bytes, nodes, characters of its strings) is the sum over its    *)
(* nodes, where a path into a case's resources is heavier than the shorter *)
(* one that stands for it while a proposal is judged.  Approval classes    *)
(* are their ranks.                                                        *)
(***************************************************************************)
EXTENDS Naturals, Sequences, FiniteSets, SequencesExt, FiniteSetsExt

CONSTANTS
  Tools,              (* the tools of the frozen catalog                     *)
  Tree,               (* argument -> its tree                                *)
  KeyClass,           (* key -> what it means to references.ts               *)
  Conforms,           (* kind of path, tool -> what its input schema admits  *)
                      (* of the arguments that are resolved to such paths    *)
  Weight,             (* measure, kind of node -> its weight                 *)
  ArrayItems,         (* V2_CONTRACT_LIMITS.arrayItems                       *)
  MaxExpandedSteps, MaxArgumentWork, MaxCaseWork,
                      (* PHASE1_COMPILER_WORK_LIMITS, the last two by measure*)
  MaxPredicateChecks, MaxCanonicalBytes, (* PHASE1_POLICY_EVALUATION_LIMITS  *)
  MaxArtifact         (* V2_ARTIFACT_CLONE_LIMITS, by measure                *)

Measures == {"bytes", "nodes", "characters"}
WorkMeasures == {"bytes", "nodes"}

(* /forge/synthetic/resource-... (58 characters) in a compiled case, and   *)
(* /forge/synthetic/proposal-... (50) in a proposal that is judged.        *)
PathKinds == {"resource", "proposal"}
NodeKinds == PathKinds \union {"object", "text", "other"}

(* Arguments are what a JSON parser returns: finite, and not yet resolved. *)
ASSUME TreesAssumption ==
  /\ IsFiniteSet(Tools)
  /\ \A a \in DOMAIN Tree :
       /\ IsFiniteSet(DOMAIN Tree[a])
       /\ \A p \in DOMAIN Tree[a] :
            /\ p \in Seq(DOMAIN KeyClass)
            /\ Tree[a][p].kind \in {"object", "text", "other"}
  /\ {ArrayItems, MaxExpandedSteps, MaxPredicateChecks, MaxCanonicalBytes} \subseteq Nat

(* "instance" is an entry of a plan's resource manifest, "plan" what a plan*)
(* has besides its cases and the manifest.  The compiler's work limits are *)
(* below the artifact's: 3,000,000 of 4,000,000 bytes, and 75,000 of       *)
(* 100,000 nodes.                                                          *)
ASSUME WeightsAssumption ==
  /\ Weight \in [Measures -> [NodeKinds \union {"instance", "plan"} -> Nat]]
  /\ \A m \in Measures : Weight[m]["proposal"] <= Weight[m]["resource"]
  /\ MaxArgumentWork \in [WorkMeasures -> Nat] /\ MaxCaseWork \in [WorkMeasures -> Nat]
  /\ MaxArtifact \in [Measures -> Nat]
  /\ \A m \in WorkMeasures : MaxCaseWork[m] <= MaxArtifact[m]

-----------------------------------------------------------------------------
(* The resource references of an argument.                                 *)

Children(t, p) == {q \in DOMAIN t : q # <<>> /\ Front(q) = p}
Keys(t, p) == {KeyClass[Last(q)] : q \in Children(t, p)}
IsObject(t, p) == t[p].kind = "object"
HasMarker(t, p) == IsObject(t, p) /\ Keys(t, p) \cap {"resource", "binding"} # {}

(* isExactResourceMarker(): { "$forgeResource": alias }                    *)
ExactReference(t, p) ==
  /\ IsObject(t, p)
  /\ Keys(t, p) = {"resource"} /\ Cardinality(Children(t, p)) = 1
  /\ \A q \in Children(t, p) : t[q].kind = "text"

(* Neither walk goes below a marker.                                       *)
Visited(t) ==
  {p \in DOMAIN t :
     ~ \E q \in DOMAIN t : HasMarker(t, q) /\ IsStrictPrefix(q, p)}

(* assertSafeKeys() and assertReferenceFieldBindings(): a path field must  *)
(* hold a reference, or, once resolved, a synthetic path.                  *)
SafeFields(t, p) ==
  /\ Keys(t, p) \cap {"executable", "network"} = {}
  /\ \A q \in Children(t, p) : KeyClass[Last(q)] = "path" =>
       \/ t[q].kind \in PathKinds
       \/ IsObject(t, q) /\ Keys(t, q) \cap {"resource", "binding", "forge"} # {}

(* analyzeStaticResourceReferences() does not throw.                       *)
Analyzable(t) ==
  \A p \in Visited(t) : IsObject(t, p) =>
    /\ SafeFields(t, p)
    /\ HasMarker(t, p) \/ "forge" \notin Keys(t, p)
    /\ HasMarker(t, p) => ExactReference(t, p)

Aliases(t) ==
  {t[q].text : q \in UNION {Children(t, p) :
                 p \in {x \in Visited(t) : ExactReference(t, x)}}}
HasUnclassified(t) == \E p \in Visited(t) : t[p].kind \in {"text", "other"}

(* assertSafeLiteralString() of every literal that is reached.             *)
SafeLiterals(t) == \A p \in Visited(t) : t[p].kind = "text" => t[p].text # "unsafe"

Subtree(t, p) == [q \in {x \in DOMAIN t : IsPrefix(p, x)} |-> t[q]]

(* The alias of an exact reference.                                        *)
AliasAt(t, p) == t[CHOOSE q \in Children(t, p) : TRUE].text

(* resolveStaticResourceReferences(): a reference becomes a path.          *)
Resolve(t, path) ==
  [p \in Visited(t) |->
     IF HasMarker(t, p) THEN [kind |-> path, text |-> AliasAt(t, p)] ELSE t[p]]

(* assertResolvedPlanArguments(), with the paths of the case's resources.  *)
ResolvedAccepted(r, known) ==
  \A p \in DOMAIN r :
    /\ r[p].kind = "text" => r[p].text # "unsafe"
    /\ r[p].kind \in PathKinds => r[p].kind = "resource" /\ r[p].text \in known
    /\ IsObject(r, p) =>
         /\ SafeFields(r, p)
         /\ Keys(r, p) \cap {"resource", "binding", "forge"} = {}

(* What a tree weighs.                                                     *)
Weigh(t) == [m \in Measures |-> SumFunction([p \in DOMAIN t |-> Weight[m][t[p].kind]])]

(* The analysis of an argument is the same wherever it is used.            *)
Analyzed(t, analyzable, resolved) ==
  [analyzable |-> analyzable, safe |-> SafeLiterals(t), aliases |-> Aliases(t),
   unclassified |-> HasUnclassified(t), weight |-> Weigh(t), resolved |-> resolved,
   resolvedWeight |-> [path \in PathKinds |-> Weigh(resolved[path])]]
AnalysisOf(t, analyzable) ==
  Analyzed(t, analyzable,
    [path \in PathKinds |-> IF analyzable THEN Resolve(t, path) ELSE t])
Analysis == [a \in DOMAIN Tree |-> AnalysisOf(Tree[a], Analyzable(Tree[a]))]

(* resolveStaticResourceReferences() does not throw.                       *)
Resolvable(args, known) ==
  /\ Analysis[args].analyzable /\ Analysis[args].safe
  /\ Analysis[args].aliases \subseteq known

-----------------------------------------------------------------------------
(* The experiment dispatch rules of a policy.                              *)

MaximumApproval(ranks) == Max(ranks \union {0})

(* argumentRuleMatches(): `values` are the nodes that an argument rule     *)
(* admits, those with the prefix for a "string_prefix".                    *)
Admits(x, arguments) == x.at \in DOMAIN arguments /\ arguments[x.at] \in x.values

ArgumentsMatch(rule, call) ==
  \A i \in DOMAIN rule.arguments : Admits(rule.arguments[i], call.arguments)

BaseSelectorMatches(rule, call) ==
  /\ call.tool \in rule.tools
  /\ call.origin \in rule.origins
  /\ ArgumentsMatch(rule, call)

DispatchWithinLimits(rule, call) ==
  /\ call.cases <= rule.limits.cases
  /\ call.steps <= rule.limits.steps
  /\ call.bytes <= rule.limits.argument
  /\ \A f \in DOMAIN call.bounds : call.bounds[f] <= rule.limits[f]

(* Mutant: a review gate whose limits are exceeded is one rule less.       *)
GateFallsThrough(rules, call) ==
  LET matching == {r \in rules : BaseSelectorMatches(r, call)
                                 /\ r.classes \cap call.classes # {}}
      positive == {r \in matching : r.decision # "deny" /\ ~r.flows
                                    /\ DispatchWithinLimits(r, call)}
  IN  IF (\E r \in matching : r.decision = "deny")
         \/ ~(call.classes \subseteq UNION {r.classes : r \in positive})
      THEN {} ELSE {MaximumApproval({r.approval : r \in positive})}

(* evaluatePreparedExperimentDispatch(): a matching denial and a review    *)
(* gate that cannot be satisfied refuse, whatever else allows; what is     *)
(* left must cover every class, and all of it counts for the approval.     *)
EvaluateDispatch(rules, call) ==
  LET matching == {r \in rules : BaseSelectorMatches(r, call)
                                 /\ r.classes \cap call.classes # {}}
      satisfied == {r \in matching : ~r.flows /\ DispatchWithinLimits(r, call)}
      positive == {r \in satisfied : r.decision # "deny"}
      unsatisfied == {r \in matching \ satisfied : r.decision = "approval_required"}
  IN  IF \/ \E r \in matching : r.decision = "deny"
         \/ unsatisfied # {} \/ positive = {}
         \/ ~(call.classes \subseteq UNION {r.classes : r \in positive})
      THEN {} ELSE {MaximumApproval({r.approval : r \in positive})}

(* assertPolicyEvaluationWorkBound(): the predicates of a whole plan.      *)
PolicyWorkBounded(rules, steps) ==
  steps * SumFunction([r \in rules |-> 1 + Len(r.arguments)]) <= MaxPredicateChecks

(* cachedCanonicalActual(): the arguments that a call has to be written    *)
(* out for, once each.  A rule's argument rules are tried in their order   *)
(* until one does not match.                                               *)
Compared(rules, tool, origin, arguments) ==
  {at \in DOMAIN arguments : \E r \in rules :
     /\ tool \in r.tools /\ origin \in r.origins
     /\ \E i \in DOMAIN r.arguments :
          /\ r.arguments[i].at = at /\ r.arguments[i].operator # "string_prefix"
          /\ \A j \in 1..(i - 1) : Admits(r.arguments[j], arguments)}

CanonicalBytes(rules, tool, origin, arguments) ==
  SumFunction([at \in Compared(rules, tool, origin, arguments) |->
                 Weigh(Subtree(arguments, at)).bytes])

-----------------------------------------------------------------------------
(* The types of the inputs.                                                *)

Ranks == 0..2         (* APPROVAL_CLASS_RANK *)
Bounds == [cases : Nat, stepsPerCase : Nat, steps : Nat, argument : Nat, files : Nat]
Nodes == [kind : NodeKinds, text : STRING]

IsCase(c) ==
  /\ c.steps \in Seq([tool : STRING, args : DOMAIN Tree])
  /\ c.approval \in Ranks
  /\ c.frame \in [Measures -> Nat]      (* what is around its arguments *)

IsRule(r) ==
  /\ DOMAIN r = {"decision", "tools", "origins", "arguments", "classes", "flows",
                 "limits", "approval"}
  /\ r.decision \in {"allow", "deny", "approval_required"} /\ r.flows \in BOOLEAN
  /\ r.arguments \in Seq([at : Seq(DOMAIN KeyClass), values : SUBSET Nodes,
                          operator : {"equals", "one_of", "string_prefix"}])
  /\ r.limits \in Bounds /\ r.approval \in Ranks

IsAudit(a) ==
  /\ DOMAIN a = {"rules", "required", "coverage", "sensors", "reviewedAt", "expires",
                 "manual", "suite", "reservation", "repetitions", "variants", "bounds",
                 "resources", "specSensors", "createdAt", "compiledAt", "drifted"}
  /\ \A r \in a.rules : IsRule(r)
  /\ \A c \in a.suite \union a.manual : IsCase(c)
  /\ IsFiniteSet(a.rules) /\ IsFiniteSet(a.suite) /\ IsFiniteSet(a.manual)
  /\ IsFiniteSet(a.variants) /\ IsFiniteSet(DOMAIN a.resources)
  /\ a.bounds \in Bounds
  /\ a.repetitions \in Nat /\ a.reservation \in Nat /\ a.coverage \in Nat

(* What the schemas of the inputs admit.                                   *)

BoundsWellFormed(bounds) ==
  /\ \A f \in DOMAIN bounds : bounds[f] >= 1
  /\ bounds.stepsPerCase <= bounds.steps

RuleWellFormed(r) ==
  /\ r.decision = "approval_required" <=> r.approval >= 1
  /\ r.tools # {} /\ r.origins # {} /\ r.classes # {}
  /\ BoundsWellFormed(r.limits)

(* Of the clone limits of the inputs, those that its cases reach.          *)
TemplateWeight(c) ==
  [m \in Measures |-> c.frame[m] +
     SumFunction([i \in DOMAIN c.steps |-> Analysis[c.steps[i].args].weight[m]])]

CasesWellFormed(cases) ==
  /\ \A c \in cases : c.steps # <<>>
  /\ \A c, d \in cases : c.caseId = d.caseId => c = d
  /\ \A m \in Measures :
       SumFunction([c \in cases |-> TemplateWeight(c)[m]]) <= MaxArtifact[m]

SpecWellFormed(audit) ==
  LET manual == audit.repetitions * Cardinality(audit.variants)
                  * Cardinality(audit.manual)
  IN  /\ audit.repetitions >= 1 /\ audit.variants # {}
      /\ audit.specSensors # {}
      /\ BoundsWellFormed(audit.bounds)
      /\ CasesWellFormed(audit.manual)
      /\ audit.reservation >= 1
      /\ audit.reservation + manual <= audit.bounds.cases
      /\ audit.reservation + manual <= ArrayItems

(* boundedParse() of the policy, the specification and the mandatory suite.*)
WellFormed(audit) ==
  /\ \A r \in audit.rules : RuleWellFormed(r)
  /\ SpecWellFormed(audit)
  /\ CasesWellFormed(audit.suite)

-----------------------------------------------------------------------------
(* Compiling one case.                                                     *)

StepsOf(cases) == SumFunction([c \in cases |-> Len(c.steps)])
Arguments(c) == {c.steps[i].args : i \in DOMAIN c.steps}
CaseAliases(c) == UNION {Analysis[a].aliases : a \in Arguments(c)}
Factor(audit) == audit.repetitions * Cardinality(audit.variants)

(* resourceClassesForAliases(): what is not a reference is unknown.        *)
ClassesOf(audit, args, conservative) ==
  LET known == {audit.resources[a] :
                  a \in Analysis[args].aliases \cap DOMAIN audit.resources}
  IN  known \union conservative \union
        (IF known = {} \/ Analysis[args].unclassified THEN {"unknown"} ELSE {})

(* A proposal is judged with paths that no case has.                       *)
PathKind(origin) == IF origin = "agent_proposed" THEN "proposal" ELSE "resource"
Resolved(step, origin) == Analysis[step.args].resolved[PathKind(origin)]
ResolvedBytes(step, origin) == Analysis[step.args].resolvedWeight[PathKind(origin)].bytes

Call(audit, step, origin, conservative, cases, steps) ==
  [tool |-> step.tool, origin |-> origin, arguments |-> Resolved(step, origin),
   bytes |-> ResolvedBytes(step, origin),
   classes |-> ClassesOf(audit, step.args, conservative),
   cases |-> cases, steps |-> steps, bounds |-> audit.bounds]

(* compileArguments() of a step: the limit is on both forms.               *)
StepAccepted(audit, step, origin) ==
  /\ step.tool \in Tools
  /\ Analysis[step.args].weight.bytes <= audit.bounds.argument
  /\ Resolvable(step.args, DOMAIN audit.resources)
  /\ ResolvedBytes(step, origin) <= audit.bounds.argument
  /\ step.args \in Conforms[PathKind(origin)][step.tool]

(* compileCase(): the approval of the case, if every step is authorized.   *)
CaseApproval(c, approvals) ==
  IF \E i \in DOMAIN approvals : approvals[i] = {}
  THEN {}
  ELSE {MaximumApproval({c.approval} \union
          UNION {approvals[i] : i \in DOMAIN approvals})}

CompileCase(audit, c, origin, cases, steps) ==
  LET conservative == IF origin = "mandatory" THEN c.predicted ELSE {}
  IN  CaseApproval(c, [i \in DOMAIN c.steps |->
        IF StepAccepted(audit, c.steps[i], origin)
        THEN EvaluateDispatch(audit.rules,
               Call(audit, c.steps[i], origin, conservative, cases, steps))
        ELSE {}])

-----------------------------------------------------------------------------
(* Compiling the plan.                                                     *)

TotalSteps(audit) == Factor(audit) * StepsOf(audit.suite \union audit.manual)
TotalCases(audit) ==
  Factor(audit) * (Cardinality(audit.suite) + Cardinality(audit.manual))

(* validateBindings(): the inputs belong together, in the order of their   *)
(* making, and the policy is in force.                                     *)
BindingsHold(audit) ==
  /\ audit.drifted = {}
  /\ audit.reviewedAt <= audit.createdAt /\ audit.createdAt <= audit.compiledAt
  /\ \A end \in audit.expires : audit.compiledAt < end
  /\ audit.sensors \subseteq audit.specSensors

(* parseMandatoryCases(), validateMandatoryPolicy() and expandCases().     *)
Expandable(audit) ==
  LET all == audit.suite \union audit.manual
  IN  /\ \A c \in audit.suite, d \in audit.manual : c.caseId # d.caseId
      /\ audit.required \subseteq {c.caseId : c \in audit.suite}
      /\ \A c \in all : c.kind \in {"tool_call", "security_probe"}
      /\ TotalCases(audit) <= ArrayItems
      /\ TotalCases(audit) <= audit.bounds.cases
      /\ \A c \in audit.suite : c.predictor = "deterministic_generator"
      /\ \A c \in audit.manual : c.predictor = "operator"
      /\ Factor(audit) * Cardinality(audit.suite) = audit.reservation
      /\ \A c \in all : \A a \in Arguments(c) :
           Analysis[a].analyzable /\ Analysis[a].weight.bytes <= audit.bounds.argument

ResourceClassesBound(audit) ==
  \A c \in audit.suite : \A a \in CaseAliases(c) :
    a \in DOMAIN audit.resources /\ audit.resources[a] \in c.predicted

ToolsCovered(audit) ==
  LET used == UNION {{c.steps[i].tool : i \in DOMAIN c.steps} :
                       c \in audit.suite \union audit.manual}
  IN  Cardinality(used) * 100 >= audit.coverage * Cardinality(Tools)

StepsBounded(audit) ==
  /\ \A c \in audit.suite \union audit.manual :
       Len(c.steps) <= audit.bounds.stepsPerCase
  /\ TotalSteps(audit) <= audit.bounds.steps
  /\ TotalSteps(audit) <= MaxExpandedSteps

(* materializeSyntheticResources(): every expanded case has its own copies.*)
Materializable(audit) ==
  LET all == audit.suite \union audit.manual
  IN  /\ \A c \in all : CaseAliases(c) \subseteq DOMAIN audit.resources
      /\ Factor(audit) * SumFunction([c \in all |-> Cardinality(CaseAliases(c))])
           <= audit.bounds.files

(* reserveArgumentWork() and retainCompiledCase(), over all expansions;    *)
(* and the characters of every single case.                                *)
ArgumentWork(c) ==
  [m \in Measures |-> SumFunction([i \in DOMAIN c.steps |->
     Analysis[c.steps[i].args].resolvedWeight["resource"][m]])]
CaseWeight(c) == [m \in Measures |-> c.frame[m] + ArgumentWork(c)[m]]

WorkBounded(audit) ==
  LET all == audit.suite \union audit.manual
  IN  /\ \A m \in WorkMeasures :
           /\ Factor(audit) * SumFunction([c \in all |-> ArgumentWork(c)[m]])
                <= MaxArgumentWork[m]
           /\ Factor(audit) * SumFunction([c \in all |-> CaseWeight(c)[m]])
                <= MaxCaseWork[m]
      /\ \A c \in all : CaseWeight(c)["characters"] <= MaxArtifact["characters"]

OriginIn(audit, c) == IF c \in audit.suite THEN "mandatory" ELSE "manual"

(* The tracker of evaluatePreparedExperimentDispatch(), over all cases.    *)
StepCanonical(audit, step, origin) ==
  CanonicalBytes(audit.rules, step.tool, origin, Resolved(step, origin))
CaseCanonical(audit, c, origin) ==
  SumFunction([i \in DOMAIN c.steps |-> StepCanonical(audit, c.steps[i], origin)])
CanonicalBounded(audit) ==
  Factor(audit) * SumFunction([c \in audit.suite \union audit.manual |->
                                 CaseCanonical(audit, c, OriginIn(audit, c))])
    <= MaxCanonicalBytes

Compiled(audit, c) ==
  CompileCase(audit, c, OriginIn(audit, c), TotalCases(audit), TotalSteps(audit))

Composable(audit) ==
  /\ WellFormed(audit)
  /\ BindingsHold(audit)
  /\ Expandable(audit)
  /\ ResourceClassesBound(audit)
  /\ ToolsCovered(audit)
  /\ StepsBounded(audit)
  /\ PolicyWorkBounded(audit.rules, TotalSteps(audit))
  /\ Materializable(audit)
  /\ \A c \in audit.suite \union audit.manual : Compiled(audit, c) # {}
  /\ CanonicalBounded(audit)
  /\ WorkBounded(audit)

(* The plan: one case for every template, variant and repetition.          *)
Plan(audit) ==
  {[caseId |-> c.caseId, origin |-> OriginIn(audit, c), kind |-> c.kind,
    variant |-> v, repetition |-> r,
    steps |-> [i \in DOMAIN c.steps |-> Resolved(c.steps[i], OriginIn(audit, c))],
    aliases |-> CaseAliases(c), weight |-> CaseWeight(c),
    approval |-> CHOOSE rank \in Compiled(audit, c) : TRUE] :
     c \in audit.suite \union audit.manual, v \in audit.variants,
     r \in 1..audit.repetitions}

RequiredApproval(plan) == MaximumApproval({c.approval : c \in plan})

(* The clone limits are on the whole plan: its cases and the rest, with the*)
(* manifest, which has an entry for every resource of every case.          *)
RestWeight(plan) ==
  [m \in Measures |-> Weight[m]["plan"] +
     Weight[m]["instance"] * SumFunction([c \in plan |-> Cardinality(c.aliases)])]
PlanWeight(plan) ==
  [m \in Measures |-> SumFunction([c \in plan |-> c.weight[m]]) + RestWeight(plan)[m]]

(* experimentPlanV2Schema and createExperimentPlanEnvelope().              *)
EnvelopeAccepts(plan, audit) ==
  /\ \A m \in Measures : PlanWeight(plan)[m] <= MaxArtifact[m]
  /\ plan # {}
  /\ \A c \in plan :
       /\ c.kind = "tool_call" => Len(c.steps) = 1
       /\ Len(c.steps) <= audit.bounds.stepsPerCase
       /\ \A i \in DOMAIN c.steps :
            /\ ResolvedAccepted(c.steps[i], c.aliases)
            /\ Weigh(c.steps[i]).bytes <= audit.bounds.argument
  /\ Cardinality(plan) <= audit.bounds.cases
  /\ StepsOf(plan) <= audit.bounds.steps
  /\ Cardinality({c \in plan : c.origin = "mandatory"}) = audit.reservation

(* compileExperimentPlan(): {} or {the plan}.                              *)
Compile(audit) ==
  IF Composable(audit)
  THEN {plan \in {Plan(audit)} : EnvelopeAccepts(plan, audit)}
  ELSE {}

-----------------------------------------------------------------------------
(* What the operator relies on.                                            *)

(* Tightening a policy (an allowing rule dropped, a limit lowered, an      *)
(* allowing rule turned into a review gate, a gate into a denial) never    *)
(* makes a plan compile that did not, and never lowers an approval: but    *)
(* for a policy that has too many rules to be evaluated, or compares too   *)
(* much of the arguments.                                                  *)
Lowered(r) ==
  {[r EXCEPT !.limits[f] = 1] : f \in {"cases", "stepsPerCase", "argument", "files"}}
    \union {[r EXCEPT !.limits.steps = r.limits.stepsPerCase]}
Stricter(r) ==
  CASE r.decision = "allow" ->
         {[r EXCEPT !.decision = "approval_required", !.approval = 2]}
    [] r.decision = "approval_required" ->
         {[r EXCEPT !.decision = "deny", !.approval = 0]}
    [] r.decision = "deny" -> {}

Tighter(rules) ==
  {rules \ {r} : r \in {x \in rules : x.decision = "allow"}} \union
  UNION {{(rules \ {r}) \union {x} : x \in Lowered(r) \union Stricter(r)} : r \in rules}

Loosened(plan, than) ==
  \/ RequiredApproval(plan) < RequiredApproval(than)
  \/ \E c \in plan, d \in than :
       c.caseId = d.caseId /\ c.approval < d.approval

TighterNeverLoosens(audit) ==
  /\ \A r \in audit.rules : RuleWellFormed(r)
  /\ PolicyWorkBounded(audit.rules, TotalSteps(audit)) /\ CanonicalBounded(audit)
  => \A rules \in Tighter(audit.rules) :
       \A plan \in Compile([audit EXCEPT !.rules = rules]) :
         /\ Compile(audit) # {}
         /\ \A than \in Compile(audit) : ~Loosened(plan, than)

(* The mandatory cases stand alone: taking the operator's cases away       *)
(* leaves them compiled as they were, unless the tools of the operator's   *)
(* cases were needed for the policy's coverage.                            *)
MandatoryStandsAlone(audit) ==
  LET alone == [audit EXCEPT !.manual = {}]
  IN  \A plan \in Compile(audit) : ToolsCovered(alone) =>
        Compile(alone) = {{c \in plan : c.origin = "mandatory"}}

(* Composer and envelope agree: what compileExperimentPlan() composes is   *)
(* only refused for a tool call of several steps, which the template       *)
(* schema admits and the plan schema does not, for the characters of all   *)
(* its strings, which the composer only counts case by case, or because    *)
(* the rest of the plan takes more than the composer's limits leave to it. *)
EnvelopeAgrees(audit) ==
  LET plan == Plan(audit)
  IN  Composable(audit) =>
        \/ EnvelopeAccepts(plan, audit)
        \/ \E c \in audit.suite \union audit.manual :
             c.kind = "tool_call" /\ Len(c.steps) # 1
        \/ PlanWeight(plan)["characters"] > MaxArtifact["characters"]
        \/ \E m \in WorkMeasures :
             RestWeight(plan)[m] > MaxArtifact[m] - MaxCaseWork[m]

(* Every synthetic path in a compiled step is of a class that some rule    *)
(* authorizes for the tool, and that no denial names.                      *)
ClassesAuthorized(audit) ==
  \A plan \in Compile(audit), c \in audit.suite \union audit.manual :
    \A i \in DOMAIN c.steps :
      LET r == Resolved(c.steps[i], OriginIn(audit, c))
          touched == {audit.resources[r[p].text] :
                        p \in {q \in DOMAIN r : r[q].kind \in PathKinds}}
          naming == {x \in audit.rules : /\ c.steps[i].tool \in x.tools
                                         /\ OriginIn(audit, c) \in x.origins}
      IN  \A class \in touched :
            /\ \E x \in naming : x.decision # "deny" /\ class \in x.classes
            /\ ~ \E x \in naming : /\ x.decision = "deny" /\ class \in x.classes
                                   /\ x.arguments = <<>>

=============================================================================
