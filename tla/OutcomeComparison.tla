-------------------------- MODULE OutcomeComparison --------------------------
(***************************************************************************)
(* src/src/audit/v2/outcome-comparison.ts with the artifact schemas of     *)
(* src/src/contracts/v2/outcome-comparison.ts: a hypothesis is compiled    *)
(* from a model's draft, an observation of the step is recorded, and       *)
(* compareOutcome() appraises the one against the other and against the    *)
(* approved policy.  The schema recomputes what it can of the comparison   *)
(* and refuses one that disagrees, so that writer and schema are two       *)
(* versions of the same rules.                                             *)
(*                                                                         *)
(* An observation is put together in steps (its result, then one effect    *)
(* after the other), so that two observations that differ in one effect    *)
(* are one step apart.  An effect is [kind, selector, amount]: the kind    *)
(* stands for action, resource class and phase, and decides the sensor;    *)
(* the amount for operations, bytes and runtime, which are added up and    *)
(* limited alike.  A selector is a set of at most one name.                *)
(***************************************************************************)
EXTENDS Naturals, FiniteSets

CONSTANTS
  Drafts,        (* what a model may predict: shapes, classes, reasonable    *)
  Policies,      (* the approved policies: rules and default                 *)
  Predictions,   (* the case's predicted effects                             *)
  EffectIds,
  EffectOf,      (* what each effect is                                      *)
  SensorOf,      (* kind -> the sensor that is competent for it              *)
  Required,      (* plan.requiredSensors                                     *)
  Advertised,    (* the tool advertises an output schema                     *)
  ApprovedMax,   (* plan.bounds.maxOutputBytesPerStep                        *)
  Results,       (* what a step may return, and what is seen of it           *)
  Moments, PlanCompiledAt, PlanExpiry

(* The types of the parsed inputs.                                         *)
ASSUME ComparisonAssumption ==
  /\ ApprovedMax \in Nat
  /\ \A draft \in Drafts : draft.reasonable \in Nat
  /\ \A e \in EffectIds : EffectOf[e].amount \in Nat
  /\ \A p \in Policies : \A rule \in p.rules :
       /\ rule.decision \in {"allow", "deny", "review_required"}
       /\ rule.max \in Nat
  /\ \A r \in Results :
       /\ \A a, b \in r.analysis : a = b
       /\ r.capture.status \in {"complete", "truncated", "unavailable"}
       /\ r.capture.status # "unavailable" => r.capture.bytes \in Nat
       /\ r.capture.status = "truncated" =>
            r.capture.atLeast \in Nat /\ r.capture.limit \in Nat

VARIABLES
  policy,
  hypothesis,    (* {} or {the compiled hypothesis}                          *)
  result,        (* {} or {the observation, without its effects}             *)
  effects,       (* the effects observed so far                              *)
  comparison,    (* {} or {the comparison}                                   *)
  refused        (* outcomeComparisonV2Schema.parse() threw                  *)

comparisonVars == <<policy, hypothesis, result, effects, comparison, refused>>

ComparisonInit ==
  /\ policy \in Policies
  /\ hypothesis = {} /\ result = {} /\ effects = {}
  /\ comparison = {} /\ refused = FALSE

-----------------------------------------------------------------------------
(* compileAgentOutcomeHypothesis(): the draft must fall into the plan's    *)
(* window; the predicted effects and the schema are never the model's.     *)
CompileHypothesis(draft, at) ==
  /\ hypothesis = {}
  /\ at >= PlanCompiledAt
  /\ \A end \in PlanExpiry : at < end
  /\ hypothesis' = {[shapes |-> draft.shapes, classes |-> draft.classes,
       reasonable |-> draft.reasonable, protocols |-> {"result"},
       predictions |-> Predictions, createdAt |-> at]}
  /\ UNCHANGED <<policy, result, effects, comparison, refused>>

(* assessOutputSchema(): a schema outside the bounded subset, a value that *)
(* exceeds a bound and a validator that fails are not assessed.  An        *)
(* observation may deny an advertised schema, but not claim one that is    *)
(* not advertised (validateBindings()).                                    *)
SchemaAssessments ==
  {"not_advertised"} \union
  (IF Advertised THEN {"not_assessed", "conforms", "violates"} ELSE {})

CapturedBytes(capture) ==
  IF capture.status = "unavailable" THEN {} ELSE {capture.bytes}

(* outcomeObservationV2Schema: what an observation cannot combine.  The    *)
(* limit that a capture overflowed is its own, whichever it says.          *)
AnalysisRecordable(r) ==
  \A a \in r.analysis :
    /\ r.capture.status = "truncated" => a.coverage = "prefix"
    /\ a.signals # {} => "instruction_like" \in a.classes

Recordable(r) ==
  /\ r.schema \in SchemaAssessments
  /\ AnalysisRecordable(r)
  /\ r.capture.status = "unavailable" =>
       /\ r.shape = "unknown"
       /\ r.analysis = {}
       /\ r.schema \in {"not_assessed", "not_advertised"}
  /\ r.capture.status = "truncated" =>
       /\ r.schema \in {"not_assessed", "not_advertised"}
       /\ r.capture.bytes <= r.capture.limit
       /\ r.capture.bytes <= r.capture.atLeast
       /\ r.capture.overflow <=>
            ( /\ r.capture.cause = "plan_output_limit"
              /\ r.capture.atLeast > r.capture.limit )

(* validateBindings() and the checks of its caller on time: the observation *)
(* names every required sensor, and falls into the policy's window.        *)
Record(at) ==
  /\ result = {}
  /\ \E h \in hypothesis : h.createdAt <= at
  /\ \A end \in PlanExpiry : at < end
  /\ \E r \in Results :
       /\ Required \subseteq DOMAIN r.sensors
       /\ Recordable(r)
       /\ result' = {r}
  /\ UNCHANGED <<policy, hypothesis, effects, comparison, refused>>

(* An effect's evidence is retained by the sensor that is competent.       *)
ObserveEffect(e) ==
  /\ e \notin effects /\ comparison = {} /\ ~refused
  /\ \E r \in result : SensorOf[EffectOf[e].kind] \in DOMAIN r.sensors
  /\ effects' = effects \union {e}
  /\ UNCHANGED <<policy, hypothesis, result, comparison, refused>>

-----------------------------------------------------------------------------
EffectMatchesPrediction(p, e) ==
  /\ p.kind = EffectOf[e].kind
  /\ p.selector = {} \/ p.selector = EffectOf[e].selector

BaseRuleMatches(rule, e) ==
  /\ EffectOf[e].kind \in rule.kinds
  /\ rule.selectors = {} \/ EffectOf[e].selector \intersect rule.selectors # {}

(* All effects a rule matches count against its limits together.           *)
WithinRuleLimits(rule, observed) ==
  Cardinality(UNION {{e} \X (1..EffectOf[e].amount) :
                     e \in {x \in observed : BaseRuleMatches(rule, x)}})
    <= rule.max

Appraisal(decision, basis, rules) ==
  [decision |-> decision, basis |-> basis, rules |-> rules]

Default == IF policy.default = "deny" THEN "denied" ELSE "review_required"

(* Mutant: an exceeded review gate is a rule that no longer applies.       *)
GateIgnored(e, observed) ==
  LET base == {rule \in policy.rules : BaseRuleMatches(rule, e)}
      denying == {rule \in base : rule.decision = "deny"}
      within == {rule \in base \ denying : WithinRuleLimits(rule, observed)}
      Reviewing(rules) == {rule \in rules : rule.decision = "review_required"}
      Ids(rules) == {rule.ruleId : rule \in rules}
  IN  CASE denying # {} -> Appraisal("denied", "matching_rule", Ids(denying))
        [] denying = {} /\ within # {} ->
             Appraisal(IF Reviewing(within) # {} THEN "review_required"
                       ELSE "allowed", "matching_rule", Ids(within))
        [] OTHER -> Appraisal(Default, "default_decision", {})

(* policyAppraisals() of one effect: a denial first, then a review gate    *)
(* whose limits are exceeded (an allowing rule does not open it), then the *)
(* rules within their limits, then the default.                            *)
Appraise(e, observed) ==
  LET base == {rule \in policy.rules : BaseRuleMatches(rule, e)}
      denying == {rule \in base : rule.decision = "deny"}
      within == {rule \in base \ denying : WithinRuleLimits(rule, observed)}
      exceeded == (base \ denying) \ within
      Reviewing(rules) == {rule \in rules : rule.decision = "review_required"}
      Ids(rules) == {rule.ruleId : rule \in rules}
  IN  CASE denying # {} -> Appraisal("denied", "matching_rule", Ids(denying))
        [] denying = {} /\ Reviewing(exceeded) # {} ->
             Appraisal("review_required", "rule_limits_exceeded",
                       Ids(Reviewing(exceeded)))
        [] denying = {} /\ Reviewing(exceeded) = {} /\ within # {} ->
             Appraisal(IF Reviewing(within) # {} THEN "review_required"
                       ELSE "allowed", "matching_rule", Ids(within))
        [] OTHER ->
             Appraisal(Default, IF exceeded # {} THEN "rule_limits_exceeded"
                                ELSE "default_decision", Ids(exceeded))

(* boundedSizeStatus(): a truncated capture proves an excess only when the *)
(* plan's own limit cut it off.                                            *)
SizeStatus(capture, maximum) ==
  CASE capture.status = "unavailable" -> "inconclusive"
    [] capture.status = "complete" ->
         IF capture.bytes > maximum THEN "deviates" ELSE "matches"
    [] OTHER ->
         IF \/ capture.bytes > maximum
            \/ capture.overflow /\ capture.atLeast > maximum
         THEN "deviates" ELSE "inconclusive"

(* outputSchemaStatus(); validateBindings() has excluded that the schema   *)
(* assessed is another than the advertised one.                            *)
SchemaStatus(assessment) ==
  IF Advertised
  THEN CASE assessment = "not_assessed" -> "inconclusive"
         [] assessment = "conforms" -> "matches"
         [] OTHER -> "deviates"
  ELSE IF assessment = "not_advertised" THEN "matches" ELSE "deviates"

ShapeStatus(h, r) ==
  IF r.capture.status = "unavailable" \/ "unknown" \in h.shapes
  THEN "inconclusive"
  ELSE IF r.shape \in h.shapes THEN "matches" ELSE "deviates"

(* contentComparison().                                                    *)
ContentComparison(h, analysis) ==
  LET observed == UNION {a.classes : a \in analysis}
      signals == UNION {a.signals : a \in analysis}
      Difference(a, b) == IF analysis = {} THEN {} ELSE a \ b
  IN  [expected |-> h.classes, observed |-> observed, signals |-> signals,
       unexpected |-> Difference(observed, h.classes),
       missing |-> Difference(h.classes, observed),
       status |->
         IF analysis = {} \/ h.classes = {} THEN "inconclusive"
         ELSE IF \A a \in analysis : a.coverage = "prefix"
         THEN IF signals # {} THEN "deviates" ELSE "inconclusive"
         ELSE IF observed # h.classes THEN "deviates" ELSE "matches"]

(* combineExpectation().                                                   *)
Combine(statuses) ==
  CASE "deviates" \in statuses -> "deviates"
    [] "deviates" \notin statuses /\ "inconclusive" \in statuses -> "inconclusive"
    [] OTHER -> "matches"

(* Mutant: a truncated sensor counts as one that saw everything.           *)
AvailableSensors(r) == {s \in Required : r.sensors[s] # "unavailable"}

(* requiredSensorPartition().                                              *)
CompleteSensors(r) == {s \in Required : r.sensors[s] = "complete"}

PredictedRows(h, observed) ==
  [p \in h.predictions |-> {e \in observed : EffectMatchesPrediction(p, e)}]

ObservedRows(h, observed) ==
  [e \in observed |->
     [predictions |-> {p \in h.predictions : EffectMatchesPrediction(p, e)},
      appraisal |-> Appraise(e, observed)]]

(* A prediction that was not observed deviates only when every required    *)
(* sensor would have seen it.                                              *)
EffectStatus(predicted, observed, complete) ==
  IF \E e \in DOMAIN observed : observed[e].predictions = {} THEN "deviates"
  ELSE IF \A p \in DOMAIN predicted : predicted[p] # {} THEN "matches"
  ELSE IF complete = Required THEN "deviates" ELSE "inconclusive"

Decisions(observed) == {observed[e].appraisal.decision : e \in DOMAIN observed}

PolicySummary(observed, approved, complete) ==
  IF approved = "deviates" \/ "denied" \in Decisions(observed)
  THEN "policy_deviation"
  ELSE IF "review_required" \in Decisions(observed) THEN "review_required"
  ELSE IF approved = "inconclusive" \/ complete # Required THEN "inconclusive"
  ELSE "within_policy"

IntrinsicRisk(r) ==
  IF \E a \in r.analysis : a.signals # {} THEN "signals_observed"
  ELSE IF /\ r.capture.status = "complete"
          /\ \E a \in r.analysis : a.coverage = "complete"
  THEN "no_signal_observed" ELSE "inconclusive"

(* The same precedence in the writer and in the schema.                    *)
Verdict(expectation, appraised, risk) ==
  CASE appraised = "policy_deviation" -> "policy_deviation"
    [] appraised # "policy_deviation" /\ risk = "signals_observed" ->
         "intrinsic_hazard_evidence"
    [] appraised = "review_required" /\ risk # "signals_observed" ->
         "review_required"
    [] appraised \in {"within_policy", "inconclusive"}
         /\ risk # "signals_observed" ->
         IF expectation = "deviates" THEN "unexpected_behavior"
         ELSE IF /\ expectation = "matches" /\ appraised = "within_policy"
                 /\ risk = "no_signal_observed"
         THEN "expected_within_policy" ELSE "inconclusive"

(* compareOutcome() up to its parse().                                     *)
Comparison(h, r, observed) ==
  LET complete == CompleteSensors(r)
      predicted == PredictedRows(h, observed)
      rows == ObservedRows(h, observed)
      content == ContentComparison(h, r.analysis)
      protocol == IF r.protocol \in h.protocols THEN "matches" ELSE "deviates"
      reasonable == SizeStatus(r.capture, h.reasonable)
      approved == SizeStatus(r.capture, ApprovedMax)
      expectation == Combine({protocol, ShapeStatus(h, r),
        SchemaStatus(r.schema), reasonable, content.status,
        EffectStatus(predicted, rows, complete)})
      appraised == PolicySummary(rows, approved, complete)
      risk == IntrinsicRisk(r)
  IN  [capture |-> r.capture, coverage |-> {a.coverage : a \in r.analysis},
       complete |-> complete, incomplete |-> Required \ complete,
       protocol |-> [expected |-> h.protocols, observed |-> r.protocol,
                     status |-> protocol],
       shape |-> [expected |-> h.shapes, observed |-> r.shape,
                  status |-> ShapeStatus(h, r)],
       schema |-> [observed |-> r.schema, status |-> SchemaStatus(r.schema)],
       maxReasonable |-> h.reasonable,
       reasonable |-> reasonable, approved |-> approved, content |-> content,
       predicted |-> predicted, effects |-> rows,
       expectation |-> expectation, policy |-> appraised, risk |-> risk,
       verdict |-> Verdict(expectation, appraised, risk)]

-----------------------------------------------------------------------------
(* outcomeComparisonV2Schema: what it recomputes from the comparison alone. *)
CoverageConsistent(c) ==
  /\ c.complete \intersect c.incomplete = {}
  /\ c.complete \union c.incomplete = Required
  /\ c.capture.status = "truncated" =>
       /\ c.capture.atLeast >= c.capture.bytes
       /\ c.capture.overflow <=> ( /\ c.capture.cause = "plan_output_limit"
                                   /\ c.capture.atLeast > ApprovedMax )
  /\ c.coverage = {} =>
       /\ c.content.observed = {} /\ c.content.signals = {}
       /\ c.content.unexpected = {} /\ c.content.missing = {}
       /\ c.content.status = "inconclusive"

SizeFollows(c, status, maximum) ==
  status =
    IF CapturedBytes(c.capture) = {} THEN "inconclusive"
    ELSE IF \/ c.capture.bytes > maximum
            \/ /\ c.capture.status = "truncated" /\ c.capture.overflow
               /\ c.capture.atLeast > maximum
    THEN "deviates"
    ELSE IF c.capture.status = "complete" THEN "matches" ELSE "inconclusive"

ContentFollows(c) ==
  /\ (c.content.observed # {} \/ c.content.status # "inconclusive") =>
       /\ c.content.unexpected = c.content.observed \ c.content.expected
       /\ c.content.missing = c.content.expected \ c.content.observed
  /\ c.content.status =
       IF c.coverage = {} \/ c.content.expected = {} THEN "inconclusive"
       ELSE IF c.coverage = {"prefix"}
       THEN IF c.content.signals # {} THEN "deviates" ELSE "inconclusive"
       ELSE IF c.content.unexpected # {} \/ c.content.missing # {}
       THEN "deviates" ELSE "matches"

RowsAgree(c) ==
  /\ \A e \in DOMAIN c.effects :
       /\ (c.effects[e].appraisal.basis = "default_decision")
            <=> (c.effects[e].appraisal.rules = {})
       /\ \A p \in c.effects[e].predictions :
            p \in DOMAIN c.predicted /\ e \in c.predicted[p]
  /\ \A p \in DOMAIN c.predicted : \A e \in c.predicted[p] :
       e \in DOMAIN c.effects /\ p \in c.effects[e].predictions

(* A prediction that was not observed is weighed last: next to a dimension *)
(* that is inconclusive the expectation must be inconclusive.              *)
ExpectationFollows(c) ==
  LET definite ==
        {c.protocol.status, c.shape.status, c.schema.status, c.reasonable,
         c.content.status}
        \union (IF \E e \in DOMAIN c.effects : c.effects[e].predictions = {}
                THEN {"deviates"} ELSE {})
  IN  c.expectation \in
        IF "deviates" \in definite THEN {"deviates"}
        ELSE IF "inconclusive" \in definite THEN {"inconclusive"}
        ELSE IF \E p \in DOMAIN c.predicted : c.predicted[p] = {}
        THEN {"deviates", "inconclusive"} ELSE {"matches"}

SummariesFollow(c) ==
  LET deviates == "denied" \in Decisions(c.effects) \/ c.approved = "deviates"
      reviews == "review_required" \in Decisions(c.effects)
  IN  /\ deviates <=> c.policy = "policy_deviation"
      /\ (reviews /\ ~deviates) <=> c.policy = "review_required"
      /\ c.policy = "within_policy" =>
           c.approved # "inconclusive" /\ c.incomplete = {}
      /\ (c.content.signals # {}) <=> c.risk = "signals_observed"
      /\ c.risk = "no_signal_observed" =>
           c.capture.status = "complete" /\ c.coverage = {"complete"}
      /\ c.verdict = Verdict(c.expectation, c.policy, c.risk)

Accepted(c) ==
  /\ CoverageConsistent(c)
  /\ c.protocol.status =
       IF c.protocol.observed \in c.protocol.expected THEN "matches"
       ELSE "deviates"
  /\ c.shape.status =
       IF CapturedBytes(c.capture) = {} \/ "unknown" \in c.shape.expected
       THEN "inconclusive"
       ELSE IF c.shape.observed \in c.shape.expected THEN "matches"
       ELSE "deviates"
  /\ c.schema.status = SchemaStatus(c.schema.observed)
  /\ SizeFollows(c, c.reasonable, c.maxReasonable)
  /\ SizeFollows(c, c.approved, ApprovedMax)
  /\ ContentFollows(c) /\ RowsAgree(c) /\ ExpectationFollows(c)
  /\ SummariesFollow(c)

Compare ==
  /\ comparison = {} /\ ~refused
  /\ \E h \in hypothesis, r \in result :
       LET c == Comparison(h, r, effects)
       IN  IF Accepted(c) THEN comparison' = {c} /\ UNCHANGED refused
           ELSE refused' = TRUE /\ UNCHANGED comparison
  /\ UNCHANGED <<policy, hypothesis, result, effects>>

ComparisonNext ==
  \/ \E draft \in Drafts, at \in Moments : CompileHypothesis(draft, at)
  \/ \E at \in Moments : Record(at)
  \/ \E e \in EffectIds : ObserveEffect(e)
  \/ Compare

ComparisonSpec == ComparisonInit /\ [][ComparisonNext]_comparisonVars

-----------------------------------------------------------------------------
(* An overflow that one limit proves and the other does not.               *)
OtherLimit(capture) ==
  /\ capture.status = "truncated" /\ capture.cause = "plan_output_limit"
  /\ ~(capture.atLeast > capture.limit <=> capture.atLeast > ApprovedMax)

(* Everything a valid observation may say can be compared: the writer's    *)
(* record satisfies the schema it is parsed with.                          *)
NothingRefused == ~refused

(* It is refused only in two known disagreements: where the two weigh a    *)
(* missed prediction differently, next to a dimension that stays           *)
(* inconclusive; and where the limit by which an observation judges its    *)
(* overflow and the approved one by which the comparison judges it tell    *)
(* the observed bytes apart.  And "expected_within_policy" is earned: all  *)
(* of the result was captured and analysed, every required sensor saw      *)
(* everything, every prediction came true and nothing else was seen, and   *)
(* some rule allows each effect even when all that it matches is counted,  *)
(* while no rule denies it and no rule asks for a review.                  *)
ComparisonSound ==
  /\ refused => \E h \in hypothesis, r \in result :
       \/ /\ \E p \in h.predictions :
               ~\E e \in effects : EffectMatchesPrediction(p, e)
          /\ \A s \in Required : r.sensors[s] = "complete"
          /\ \/ h.classes = {} \/ "unknown" \in h.shapes
             \/ r.schema = "not_assessed" \/ r.capture.status # "complete"
             \/ \A a \in r.analysis : a.coverage = "prefix"
       \/ OtherLimit(r.capture)
  /\ \A c \in comparison : c.verdict = "expected_within_policy" =>
       \E h \in hypothesis, r \in result :
         /\ r.capture.status = "complete"
         /\ r.capture.bytes <= ApprovedMax /\ r.capture.bytes <= h.reasonable
         /\ \E a \in r.analysis : a.coverage = "complete" /\ a.signals = {}
         /\ \A s \in Required : r.sensors[s] = "complete"
         /\ \A p \in Predictions :
              \E e \in effects : EffectMatchesPrediction(p, e)
         /\ \A e \in effects :
              LET base == {rule \in policy.rules : BaseRuleMatches(rule, e)}
              IN  /\ \E p \in Predictions : EffectMatchesPrediction(p, e)
                  /\ \A rule \in base : rule.decision = "allow"
                  /\ \E rule \in base : WithinRuleLimits(rule, effects)

Lenience(decision) ==
  CASE decision = "denied" -> 0
    [] decision = "review_required" -> 1
    [] decision = "allowed" -> 2

(* To observe more never excuses what was already observed: an effect that *)
(* was denied or had to be reviewed is not allowed because another one     *)
(* exhausts the limits of the rule that said so.                           *)
NeverExcused ==
  [][\A e \in effects :
       Lenience(Appraise(e, effects').decision)
         <= Lenience(Appraise(e, effects).decision)]_comparisonVars

=============================================================================
