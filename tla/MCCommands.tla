----------------------------- MODULE MCCommands -----------------------------
(***************************************************************************)
(* The two commands that start containers of their own and share the       *)
(* session, the container and the removal loop: the analysis of a target   *)
(* and the enrolled outcome experiment.  And what stands before and after  *)
(* such an experiment: the compilation of its plan, with the cases a model *)
(* proposes for it, and the comparison of its outcome.  One of the four    *)
(* runs in a behaviour; the initial choices of the others are fixed.       *)
(***************************************************************************)
EXTENDS EnrolledRun, AnalysisRun, OutcomeComparison, AgentProposals, TLC

VARIABLE command   (* "analyze", "enroll", "compare" or "propose"            *)

commandVars == <<cleanupVars, sessionVars, runVars, npmVars, analysisVars>>
MCvars == <<commandVars, comparisonVars, proposalVars, command>>

-----------------------------------------------------------------------------
(* Outcome comparison: two kinds of effects with a sensor each, an effect  *)
(* of the first kind twice, with and without a selector.                   *)
MCEffects ==
  <<[kind |-> "fs", selector |-> {"s"}, amount |-> 1],
    [kind |-> "fs", selector |-> {}, amount |-> 1],
    [kind |-> "net", selector |-> {"s"}, amount |-> 1]>>
MCSensorOf == [fs |-> "filesystem", net |-> "network"]
MCRequired == {"filesystem", "network"}
MCPredictions ==
  {[kind |-> "fs", selector |-> {}], [kind |-> "net", selector |-> {"s"}]}

MCDrafts ==
  {[shapes |-> s, classes |-> c, reasonable |-> 2] :
     s \in {{"object"}, {"unknown"}}, c \in {{}, {"benign"}}}

MCRule(id, decision, kinds, selectors, max) ==
  [ruleId |-> id, decision |-> decision, kinds |-> kinds,
   selectors |-> selectors, max |-> max]
MCPlain ==
  [rules |-> {MCRule(1, "allow", {"fs"}, {}, 2),
              MCRule(2, "allow", {"net"}, {"s"}, 1)},
   default |-> "deny"]
MCDecisions == {"allow", "deny", "review_required"}

(* Two rules that overlap, in every combination of decisions and limits.   *)
MCPolicies ==
  {MCPlain} \union
  {[rules |-> {MCRule(1, d1, {"fs"}, {}, m1),
               MCRule(2, d2, {"fs", "net"}, s, m2)},
    default |-> d] :
     d1 \in MCDecisions, d2 \in MCDecisions, m1 \in 1..2, m2 \in 1..2,
     s \in {{}, {"s"}}, d \in MCDecisions \ {"allow"}}

Complete2 == [status |-> "complete", bytes |-> 2]
Truncation(captured, limit, cause, atLeast) ==
  [status |-> "truncated", bytes |-> captured, limit |-> limit, cause |-> cause,
   atLeast |-> atLeast,
   overflow |-> cause = "plan_output_limit" /\ atLeast > limit]
MCCaptures ==
  {[Complete2 EXCEPT !.bytes = n] : n \in 2..4} \union
  {Truncation(1, 3, "plan_output_limit", 4),
   Truncation(3, 3, "plan_output_limit", 3),
   Truncation(1, 1, "plan_output_limit", 2),
   Truncation(4, 4, "plan_output_limit", 4),
   Truncation(2, 2, "transport_limit", 4), [status |-> "unavailable"]}

Assessed(coverage, classes, signals) ==
  {[coverage |-> coverage, classes |-> classes, signals |-> signals]}
MCAnalyses ==
  {{}} \union
  {Assessed(v, {k}, {}) : v \in {"complete", "prefix"},
                          k \in {"benign", "instruction_like"}} \union
  {Assessed(v, {"instruction_like"}, {"g"}) : v \in {"complete", "prefix"}}

MCSensors(statuses) == [MCRequired -> statuses]
MCResult(protocol, shape, capture, schema, analysis, sensors) ==
  [protocol |-> protocol, shape |-> shape, capture |-> capture,
   schema |-> schema, analysis |-> analysis, sensors |-> sensors]
MCTypical ==
  {MCResult("result", "object", Complete2, "conforms",
            Assessed("complete", {"benign"}, {}), s) :
     s \in MCSensors({"complete", "truncated"})}
MCResults ==
  {MCResult("result", shape, capture, schema, analysis, sensors) :
     shape \in {"object", "text", "unknown"}, capture \in MCCaptures,
     schema \in {"not_assessed", "conforms", "violates", "not_advertised"},
     analysis \in MCAnalyses,
     sensors \in MCSensors({"complete", "truncated"})} \union
  {MCResult("error", "text", Complete2, "not_assessed", {}, sensors) :
     sensors \in MCSensors({"complete", "unavailable"})}
MCExpiry == {3}

-----------------------------------------------------------------------------
(* Plans: two tools, two resources of different classes, arguments that    *)
(* are references, plain, mixed and unacceptable ones.  A path that is     *)
(* compiled weighs three, one that is judged two: with mixed arguments     *)
(* only the second is within the bound of four, and the schema of read     *)
(* does not admit the first in nested.                                     *)
MCTools == {"read", "write"}
MCKeyClass ==
  [path |-> "path", plain |-> "plain", ref |-> "resource", bind |-> "binding"]
MCObject == [kind |-> "object", text |-> ""]
MCText(word) == [kind |-> "text", text |-> word]
MCReference(alias) ==
  <<>> :> MCObject @@ <<"path">> :> MCObject @@ <<"path", "ref">> :> MCText(alias)
MCTree ==
  [toA |-> MCReference("A"), toB |-> MCReference("B"), toC |-> MCReference("C"),
   alsoA |-> MCReference("A"),
   nested |-> <<>> :> MCObject @@ <<"plain">> :> MCObject
                @@ <<"plain", "ref">> :> MCText("A"),
   plain |-> <<>> :> MCObject @@ <<"plain">> :> MCText("safe"),
   mixed |-> MCReference("A") @@ <<"plain">> :> MCText("safe"),
   unsafe |-> <<>> :> MCObject @@ <<"plain">> :> MCText("unsafe"),
   literal |-> <<>> :> MCObject @@ <<"path">> :> MCText("safe"),
   inexact |-> MCReference("A") @@ <<"path", "plain">> :> MCText("safe")]
MCConforms ==
  [resource |-> [read |-> DOMAIN MCTree \ {"nested"}, write |-> DOMAIN MCTree \ {"plain"}],
   proposal |-> [read |-> DOMAIN MCTree, write |-> DOMAIN MCTree \ {"plain"}]]

MCPaths == [resource |-> 3, proposal |-> 2]
MCWeight ==
  [bytes |-> MCPaths @@ [object |-> 1, text |-> 1, other |-> 1,
                        instance |-> 2, plan |-> 1],
   characters |-> MCPaths @@ [object |-> 0, text |-> 1, other |-> 0,
                             instance |-> 1, plan |-> 1],
   nodes |-> [k \in NodeKinds \union {"instance", "plan"} |-> 1]]
MCMaxArgumentWork == [bytes |-> 28, nodes |-> 16]
MCMaxCaseWork == [bytes |-> 40, nodes |-> 30]
MCMaxArtifact == [bytes |-> 45, nodes |-> 37, characters |-> 25]

MCStep(tool, args) == [tool |-> tool, args |-> args]
MCCase(id, form, steps, classes, predictor, approval) ==
  [caseId |-> id, kind |-> form, steps |-> steps, predicted |-> classes,
   predictor |-> predictor, approval |-> approval,
   frame |-> [bytes |-> 2, nodes |-> 1, characters |-> 1]]
MCMandatory ==
  MCCase("m", "security_probe", <<MCStep("read", "toA")>>, {"project"},
         "deterministic_generator", 0)
MCManual ==
  MCCase("o", "tool_call", <<MCStep("write", "toA")>>, {}, "operator", 1)
MCTwoSteps ==
  MCCase("t", "security_probe", <<MCStep("read", "toB"), MCStep("write", "toA")>>,
         {}, "operator", 0)
(* Too much text for a plan that repeats it, too much of anything else, and*)
(* so much that there is no room for another case.                         *)
MCLong == [MCManual EXCEPT !.steps = <<MCStep("read", "plain")>>,
                           !.frame = [bytes |-> 9, nodes |-> 1, characters |-> 9]]
MCWide == [MCManual EXCEPT !.frame = [bytes |-> 9, nodes |-> 1, characters |-> 1]]
MCFull == [MCManual EXCEPT !.frame = [bytes |-> 8, nodes |-> 1, characters |-> 1]]

MCDispatch(decision, tools, origins, classes, approval) ==
  [decision |-> decision, tools |-> tools, origins |-> origins,
   arguments |-> <<>>, classes |-> classes, flows |-> FALSE,
   limits |-> [cases |-> 8, stepsPerCase |-> 2, steps |-> 8,
               argument |-> 4, files |-> 8],
   approval |-> approval]
MCOrigins == {"mandatory", "manual", "agent_proposed"}
MCAllowAll ==
  MCDispatch("allow", MCTools, MCOrigins, {"project", "secret", "unknown"}, 0)
MCGate == MCDispatch("approval_required", {"read"}, MCOrigins, {"secret"}, 2)
MCPrefix(paths) ==     (* "/forge/synthetic/", or up to the kind of path *)
  [at |-> <<"path">>, operator |-> "string_prefix",
   values |-> [kind : paths, text : {"A", "B"}]]
MCDenial(paths) ==
  [MCDispatch("deny", {"write"}, MCOrigins, {"secret"}, 0) EXCEPT
     !.arguments = <<MCPrefix(paths)>>]
(* Too many predicates for three steps, and one policy less without it.    *)
MCOneOf(at, words) ==
  [at |-> at, operator |-> "one_of", values |-> {MCText(word) : word \in words}]
MCWordy ==
  [MCAllowAll EXCEPT !.arguments = [i \in 1..8 |-> MCOneOf(<<"plain">>, {"safe"})]]
(* It allows nothing, but what is at the position is written out for it.   *)
MCCompare(tool, at) ==
  [MCAllowAll EXCEPT !.tools = {tool}, !.arguments = <<MCOneOf(at, {"word"})>>]
MCRuleSets ==
  {{MCAllowAll}, {MCAllowAll, MCGate}, {MCAllowAll, MCDenial(PathKinds)},
   {MCAllowAll, MCGate, MCDenial({"resource"})},
   {[MCAllowAll EXCEPT !.arguments = <<MCPrefix({"resource"})>>]},
   {MCAllowAll, MCCompare("read", <<"path">>)},
   {MCAllowAll, MCCompare("write", <<"path">>), MCCompare("write", <<>>)},
   {MCAllowAll, [MCGate EXCEPT !.limits.files = 1]},
   {MCAllowAll, [MCGate EXCEPT !.flows = TRUE]},
   {[MCAllowAll EXCEPT !.origins = {"mandatory", "manual"}]},
   {[MCAllowAll EXCEPT !.classes = {"project", "unknown"}], MCGate},
   {MCAllowAll, MCWordy}}

MCAudit(rules, manual, repetitions, variants, bounds) ==
  [rules |-> rules, required |-> {"m"}, coverage |-> 50, sensors |-> {"trace"},
   reviewedAt |-> 1, expires |-> {4}, manual |-> manual,
   suite |-> {MCMandatory}, reservation |-> repetitions * Cardinality(variants),
   repetitions |-> repetitions, variants |-> variants, bounds |-> bounds,
   resources |-> [A |-> "project", B |-> "secret"],
   specSensors |-> {"trace", "network"}, createdAt |-> 2, compiledAt |-> 3,
   drifted |-> {}]
MCBounds(cases, steps) ==
  [cases |-> cases, stepsPerCase |-> 2, steps |-> steps,
   argument |-> 4, files |-> 6]
MCWithout(a) ==
  {[a EXCEPT !.drifted = {"policy"}], [a EXCEPT !.compiledAt = 4],
   [a EXCEPT !.reservation = 2], [a EXCEPT !.coverage = 51, !.manual = {}],
   [a EXCEPT !.specSensors = {}], [a EXCEPT !.required = {"x"}],
   [a EXCEPT !.manual = {[MCTwoSteps EXCEPT !.kind = "tool_call"]}]}
MCAudits ==
  {MCAudit(rules, manual, 1, {"v"}, MCBounds(4, 5)) :
     rules \in MCRuleSets, manual \in {{MCManual}, {MCTwoSteps}}} \union
  {MCAudit({MCAllowAll}, manual, 2, {"v"}, MCBounds(6, 7)) :
     manual \in {{}, {MCLong}, {MCWide}, {MCFull}}} \union
  {MCAudit({MCAllowAll, MCGate}, {MCManual}, r, v, b) :
     r \in 1..2, v \in {{"v"}, {"v", "w"}}, b \in {MCBounds(6, 7), MCBounds(8, 8)}}
  \union MCWithout(MCAudit({MCAllowAll}, {MCManual}, 1, {"v"}, MCBounds(4, 5)))

MCProposal(id, caseId, form, steps, approval) ==
  [proposalId |-> id, predictor |-> "model_inference", caseId |-> caseId, kind |-> form,
   steps |-> steps, approval |-> approval,
   frame |-> [bytes |-> 2, nodes |-> 1, characters |-> 1]]
MCCandidates ==
  {MCProposal("p", "x", "tool_call", <<MCStep("read", a)>>, 0) :
     a \in DOMAIN MCTree \ {"alsoA", "plain"}} \union
  {MCProposal("q", "y", "security_probe",
      <<MCStep("write", "toB"), MCStep("read", "plain")>>, 1),
   MCProposal("q", "y", "tool_call", <<MCStep("read", "toB")>>, 0),
   MCProposal("q", "y", "tool_call", <<MCStep("write", "plain")>>, 0),
   MCProposal("q", "x", "tool_call", <<MCStep("read", "toB")>>, 0),
   MCProposal("q", "m", "tool_call", <<MCStep("read", "toB")>>, 0),
   MCProposal("r", "z", "workflow", <<MCStep("read", "toB")>>, 0),
   MCProposal("r", "z", "tool_call", <<MCStep("absent", "toB")>>, 0),
   [MCProposal("r", "z", "tool_call", <<MCStep("read", "toB")>>, 0) EXCEPT
      !.predictor = "operator"]}

-----------------------------------------------------------------------------
MCInit ==
  /\ command \in {"analyze", "enroll", "compare", "propose"}
  /\ policy \in IF command = "compare" THEN Policies ELSE {MCPlain}
  /\ Init /\ AnalysisInit /\ ComparisonInit
  /\ \/ command = "propose" /\ ProposalsInit
     \/ /\ command # "propose"
        /\ audit = {} /\ proposals = "none" /\ examined = <<>>
  /\ command \in {"compare", "propose"} => container = "absent"

(* Here a container's name changes hands only between an inspection and    *)
(* the removal that follows it; the run `controlled` has it at any moment. *)
Analyzes(A) ==
  /\ command = "analyze" /\ A
  /\ AnalysisName => cleanup = "remove"
  /\ UNCHANGED <<runVars, comparisonVars, proposalVars, command>>

Enrolls(A) ==
  /\ command = "enroll" /\ A
  /\ NameChanges => cleanup = "remove"
  /\ UNCHANGED <<npmVars, analysisVars, comparisonVars, proposalVars, command>>

(* The results vary under one policy, the policies with a typical result.  *)
Compares ==
  /\ command = "compare" /\ ComparisonNext
  /\ policy # MCPlain => result' \subseteq MCTypical
  /\ UNCHANGED <<commandVars, proposalVars, command>>

(* A third candidate is beyond the experiment's maximum whatever it is and *)
(* whatever came before: it follows one that was submitted twice.          *)
Proposes ==
  /\ command = "propose" /\ ProposalsNext
  /\ Len(examined') = 3 => /\ examined'[3].candidate.kind = "workflow"
                           /\ examined'[1].candidate = examined'[2].candidate
  /\ UNCHANGED <<commandVars, comparisonVars, command>>

MCNext == Analyzes(AnalysisNext) \/ Enrolls(Next) \/ Compares \/ Proposes

(* The fairness of the two specifications, of whichever command runs: the  *)
(* command never changes, so that their controllers share one condition.   *)
MCSpec ==
  /\ MCInit /\ [][MCNext]_MCvars
  /\ WF_MCvars(Analyzes(AnalysisController) \/ Enrolls(Controller))
  /\ WF_MCvars(Analyzes(AnalysisDaemon) \/ Enrolls(DaemonActs))
  /\ WF_MCvars(Analyzes(ClientEnds))

(* The command has come to its end: the runner has returned or thrown.     *)
CommandSettled ==
  /\ command = "analyze" => AnalysisSettled
  /\ command = "enroll" => pc = "done"

(* Whatever fails, in the run or in its cleanup, the command comes to its  *)
(* end: the runner returns or throws, and the analysis either returns with *)
(* a completed manifest or throws, or it waits for ever for the client of  *)
(* an install's lifecycle whose container a failed removal left behind.    *)
CommandEnds == <>CommandSettled \/ <>[](command = "analyze" /\ ClientOutlives)

=============================================================================
