---------------------------- MODULE AnalysisReport ----------------------------
(***************************************************************************)
(* The end of an analysis: the comparison of what was advertised, found in *)
(* the source, observed and expected (behavior-comparison.ts), the summary *)
(* of the observation health (observe/observation-health.ts), report.json  *)
(* (report.ts) and the conditions under which its schema (contracts/v1.ts) *)
(* accepts it.  Writer and schema derive the same facts in different ways, *)
(* and a report the schema refuses fails the whole analysis at its end.    *)
(***************************************************************************)
EXTENDS ObservedBehavior

CONSTANT Contexts  (* what else the report is written from (see context), for *)
                   (* every setting of the initialization                     *)

VARIABLES
  context,  (* [installs: {} or {the outcomes of the two installs},          *)
            (*  catalogs: experiment -> advertised catalog,                  *)
            (*  signals: static capability -> ids of the signals found,      *)
            (*  health: experiment -> [complete, gaps: outcome -> count]]    *)
  report    (* {} or {report.json}                                           *)

reportVars == <<observedVars, context, report>>

Compared == {"filesystem_access", "network_access", "process_execution"}
Capabilities == DOMAIN context.signals
InstallIds == <<"install-scripts-disabled", "install-scripts-enabled">>
GapOutcomes == {"succeeded", "failed", "unknown"}

(* The ids of the installs are reserved (config.ts:221).  A signal of the  *)
(* source is of one capability, and gaps are counted by outcome.           *)
ASSUME CallIsNoInstall == Call \notin ToSet(InstallIds)
ASSUME ContextsAssumption ==
  \A s \in InitialScopes : \A c \in Contexts[s] :
    /\ \A a, b \in DOMAIN c.signals : a # b => c.signals[a] \cap c.signals[b] = {}
    /\ \A x \in DOMAIN c.health : c.health[x].gaps \in [GapOutcomes -> Nat]
    /\ {Baseline, Call} \cup ToSet(InstallIds) \subseteq DOMAIN c.health

ReportInit == ObservedInit /\ context \in Contexts[config.initialization] /\ report = {}

Fold(f) == FoldFunction(LAMBDA a, b : a + b, 0, f)
Ids(P(_)) == {EventId(e) : e \in {d \in ToSet(observed) : P(d)}}
Count(experiment) == Cardinality(Ids(LAMBDA e : e.experiment = experiment))

-----------------------------------------------------------------------------
(* The comparison of one invocation with the operator's scope.             *)

KindOfExperiment(experiment) ==
  IF experiment = Baseline THEN "initialization" ELSE "tool"

SelectedEvent(e, experiment) ==
  IF experiment = Baseline
    THEN ActiveIn(e, Baseline, {"initialization", "cooldown"})
    ELSE \/ ActiveIn(e, experiment, {"tool"})
         \/ ActiveIn(e, experiment, {"cooldown"}) /\ FromTool(e)

TemporalOverlap(e, experiment) ==
  /\ experiment # Baseline /\ ActiveIn(e, experiment, {"tool"})
  /\ \/ "tool_phase_temporal_overlap_only" \in Of(e).reasons
     \/ Of(e).origin # Of(e).active

CapabilityForEvent(e) ==
  {c \in {"filesystem_access"} :
     (IsFile(e) \/ e.effect.kind = "file.open") /\ ~DirectoryRead(e) /\ Inside(e)}
  \cup {c \in {"network_access"} :
     e.effect.kind \in {"network.connect_attempt", "network.listen"}
     /\ ~Routine(e)}
  \cup {c \in {"process_execution"} :
     e.effect.kind = "process.exec" /\ IsChild(e)}

(* The bug of holding deletes against the reads.                           *)
DeletesAsReads(e, capability, scope) ==
  CASE capability = "filesystem_access" -> e.effect.path \in scope.reads
    [] capability = "network_access" ->
         /\ e.effect.kind = "network.connect_attempt"
         /\ e.effect.address \in scope.addresses
    [] OTHER -> e.effect.executable \in scope.programs

EventMatchesScope(e, capability, scope) ==
  CASE capability = "filesystem_access" ->
         CASE e.effect.kind = "file.read" -> e.effect.path \in scope.reads
           [] e.effect.kind = "file.open" ->
                e.effect.path \in scope.reads \cup scope.writes
           [] OTHER -> e.effect.path \in scope.writes
    [] capability = "network_access" ->
         /\ e.effect.kind = "network.connect_attempt"
         /\ e.effect.address \in scope.addresses
    [] OTHER -> e.effect.executable \in scope.programs

(* comparisonClaimsByExperiment(): {} when the configured tool was not     *)
(* assessed, else {capability -> references}.                              *)
Assessments(experiment) == context.catalogs[experiment].assessments
Assessed(experiment) ==
  {a \in Assessments(experiment) : a.tool = "tool"}

(* The bug of taking the first of two tools of that name.                  *)
FirstAssessed(experiment) ==
  IF Assessed(experiment) = {} THEN {}
  ELSE LET first == CHOOSE a \in Assessed(experiment) :
                      \A b \in Assessed(experiment) : a.index <= b.index
       IN {[c \in Compared |->
              UNION {a.evidence : a \in {b \in Assessed(experiment) :
                 b.capability = c /\ b.index = first.index}}]}

ClaimsFor(experiment) ==
  IF Assessed(experiment) = {} THEN {}
  ELSE {[c \in Compared |->
           UNION {a.evidence : a \in {b \in Assessed(experiment) : b.capability = c}}]}

AdvertisedState(experiment, references) ==
  CASE experiment = Baseline -> "not_applicable"
    [] experiment # Baseline /\ ClaimsFor(experiment) = {} -> "not_observed"
    [] experiment # Baseline /\ ClaimsFor(experiment) # {} /\ references # {} ->
         "claimed"
    [] OTHER -> "not_claimed"

Row(experiment, capability) ==
  LET Runtime(e) == /\ SelectedEvent(e, experiment)
                    /\ capability \in CapabilityForEvent(e)
      Within(e) == Runtime(e) /\ \E s \in ScopeOf(experiment) :
                     EventMatchesScope(e, capability, s)
      references == IF experiment = Baseline THEN {}
                    ELSE UNION {c[capability] : c \in ClaimsFor(experiment)}
      configured == ScopeOf(experiment) # {}
  IN [advertised |-> AdvertisedState(experiment, references),
      references |-> references,
      static |-> context.signals[capability],
      runtime |-> Ids(Runtime),
      overlap |-> Ids(LAMBDA e : Runtime(e) /\ TemporalOverlap(e, experiment)),
      configured |-> configured,
      within |-> Ids(Within),
      outside |-> IF configured THEN Ids(Runtime) \ Ids(Within) ELSE {},
      unclassified |-> IF configured THEN {} ELSE Ids(Runtime)]

Comparison ==
  [x \in ToSet(Experiments) |-> [c \in Compared |-> Row(x, c)]]

-----------------------------------------------------------------------------
(* The older aggregate over all experiments, which counts the              *)
(* initialization of the tool experiments and leaves out file.open.        *)

SelectedPhaseEvent(e) ==
  \E id \in Of(e).active :
    \/ KindOf(id) \in {"initialization", "tool"}
    \/ KindOf(id) = "cooldown" /\ (e.experiment = Baseline \/ FromTool(e))

StaticRuntime ==
  [c \in Capabilities |->
     [static |-> context.signals[c],
      runtime |-> Ids(LAMBDA e : /\ SelectedPhaseEvent(e)
                                 /\ e.effect.kind # "file.open"
                                 /\ c \in CapabilityForEvent(e))]]

(* summarizeRuntimeObservations(): how often each effect and each file     *)
(* operation occurred in the phases of an experiment, and what of it was   *)
(* expected.                                                               *)
EffectCounts(events) ==
  [k \in {e.effect.kind : e \in events} |->
     Cardinality({e \in events : e.effect.kind = k})]

FileOperationCounts(events) ==
  LET Key(e) == <<e.effect.kind, e.effect.operation>>
      counted == {e \in events : e.effect.kind \in {"file.read", "file.write"}}
  IN [k \in {Key(e) : e \in counted} |-> Cardinality({e \in counted : Key(e) = k})]

EventMatchesExpectedScope(e, scope) ==
  CASE e.effect.kind = "file.read" ->
         ~DirectoryRead(e) /\ e.effect.ok /\ e.effect.path \in scope.reads
    [] e.effect.kind \in {"file.write", "file.delete"} ->
         e.effect.ok /\ e.effect.path \in scope.writes
    [] e.effect.kind = "process.exec" ->
         e.effect.ok /\ e.effect.executable \in scope.programs
    [] e.effect.kind = "network.connect_attempt" ->
         e.effect.address \in scope.addresses
    [] OTHER -> FALSE

Observation(experiment) ==
  LET kinds == IF experiment = Baseline THEN {"initialization", "cooldown"}
                                        ELSE {"tool"}
      Observed(e) == ActiveIn(e, experiment, kinds)
      Counts(events) == [effects |-> EffectCounts(events),
                         operations |-> FileOperationCounts(events)]
      In(id) == Counts({e \in ToSet(observed) : Of(e).active = {id}})
      all == {e \in ToSet(observed) : Observed(e)}
  IN [effects |-> EffectCounts(all),
      operations |-> FileOperationCounts(all),
      breakdown |-> IF experiment = Baseline
                      THEN {In(IdOf(p)) : p \in {q \in ToSet(phases) :
                              q.experiment = Baseline /\ q.kind \in kinds}}
                      ELSE {},
      matches |-> Ids(LAMBDA e : experiment = Call /\ Observed(e)
                        /\ EventMatchesExpectedScope(e, config.expected))]

-----------------------------------------------------------------------------
(* The advertised interface, the observation health and the experiments.   *)

ReportedIds == (IF context.installs = {} THEN <<>> ELSE InstallIds) \o Experiments

Fingerprint(x) == context.catalogs[x].tools

InterfaceSummary ==
  LET source == Head(Experiments)
  IN [source |-> source,
      fingerprints |-> [x \in ToSet(Experiments) |-> Fingerprint(x)],
      differing |-> {x \in ToSet(Experiments) : Fingerprint(x) # Fingerprint(source)}]

(* collectObservationHealth(): gaps and degraded traces of each experiment *)
(* of the run, in the report's order.  A part of the ids in that order is  *)
(* given by their positions.                                               *)
HealthOf(ids) ==
  [ids |-> ids,
   degraded |-> {i \in DOMAIN ids : ~context.health[ids[i]].complete},
   gapped |-> {i \in DOMAIN ids : Fold(context.health[ids[i]].gaps) > 0},
   emitted |-> [x \in ToSet(ids) |-> Count(x)]]

(* The summary in the report, with the outcomes that occurred.             *)
HealthSummary(health) ==
  LET Total(o) == Fold([x \in ToSet(health.ids) |-> context.health[x].gaps[o]])
  IN [ids |-> health.ids, degraded |-> health.degraded, gapped |-> health.gapped,
      complete |-> health.degraded = {},
      gaps |-> Fold([x \in ToSet(health.ids) |-> Fold(context.health[x].gaps)]),
      outcomes |-> [o \in {p \in GapOutcomes : Total(p) > 0} |-> Total(o)]]

CoveragePartial(health) == health.degraded # {} \/ health.gapped # {}

ExperimentRow(x) ==
  [id |-> x, count |-> Count(x),
   kind |-> IF x \in ToSet(InstallIds) THEN "install" ELSE KindOfExperiment(x),
   expected |-> IF x \in ToSet(InstallIds) THEN {} ELSE ScopeOf(x)]

(* writeReport().  The health has to cover the experiments in their order. *)
Covers(health) ==
  /\ health.ids = ReportedIds
  /\ \A x \in ToSet(health.ids) : health.emitted[x] = Count(x)

NewReport(health) ==
  [experiments |-> [i \in DOMAIN ReportedIds |-> ExperimentRow(ReportedIds[i])],
   health |-> HealthSummary(health),
   partial |-> CoveragePartial(health),
   summary |-> InterfaceSummary,
   static |-> context.signals,
   staticRuntime |-> StaticRuntime,
   scopes |-> Comparison,
   observations |-> [x \in ToSet(Experiments) |-> Observation(x)],
   delta |-> context.installs = {"completed"},
   findings |-> CHOOSE f \in findings : TRUE]

WriteReport ==
  /\ findings # {} /\ report = {}
  /\ LET health == HealthOf(ReportedIds)
     IN Covers(health) /\ report' = {NewReport(health)}
  /\ UNCHANGED <<observedVars, context>>

-----------------------------------------------------------------------------
(* reportV1Schema: what it demands of the report's parts.                  *)

UniqueBy(s, Key(_)) ==
  \A i, j \in DOMAIN s : i # j => Key(s[i]) # Key(s[j])

HealthAgrees(r) ==
  LET h == r.health  ids == [i \in DOMAIN r.experiments |-> r.experiments[i].id]
  IN /\ h.ids = ids
     /\ h.degraded \cup h.gapped \subseteq DOMAIN ids
     /\ \A i, j \in h.degraded \cup h.gapped : i # j => ids[i] # ids[j]
     /\ h.complete <=> h.degraded = {}
     /\ (h.gaps = 0) <=> (h.gapped = {})
     /\ Fold(h.outcomes) = h.gaps
     /\ \A o \in DOMAIN h.outcomes : h.outcomes[o] > 0

InterfacesAgree(r) ==
  /\ r.summary.source = Head(Experiments)
  /\ r.summary.source \in DOMAIN r.summary.fingerprints
  /\ r.summary.differing =
       {x \in DOMAIN r.summary.fingerprints :
          r.summary.fingerprints[x] # r.summary.fingerprints[r.summary.source]}
  /\ DOMAIN r.summary.fingerprints \subseteq DOMAIN r.observations

RowAccepted(r, x, c) ==
  LET row == r.scopes[x][c]
      assessed == IF x = Baseline THEN {} ELSE Assessed(x)
      claimed == UNION {a.evidence : a \in {b \in assessed : b.capability = c}}
  IN /\ row.references = claimed
     /\ row.advertised = CASE x = Baseline -> "not_applicable"
                           [] x # Baseline /\ assessed = {} -> "not_observed"
                           [] x # Baseline /\ assessed # {} /\ claimed # {} -> "claimed"
                           [] OTHER -> "not_claimed"
     /\ row.static = r.static[c]
     /\ row.overlap \subseteq row.runtime
     /\ row.within \cup row.outside \cup row.unclassified = row.runtime
     /\ row.within \cap row.outside = {}
     /\ (row.within \cup row.outside) \cap row.unclassified = {}
     /\ row.configured => row.unclassified = {}
     /\ ~row.configured => row.within \cup row.outside = {}

(* The bounded operations of the files add up to the effects.              *)
OperationsAgree(o) ==
  \A k \in {"file.read", "file.write"} :
    (IF k \in DOMAIN o.effects THEN o.effects[k] ELSE 0)
      = Fold([key \in {q \in DOMAIN o.operations : q[1] = k} |-> o.operations[key]])

RuntimeAgrees(r) ==
  LET runtime == {e \in ToSet(r.experiments) : e.kind # "install"}
      ids == {e.id : e \in runtime}
  IN /\ UniqueBy(r.experiments, LAMBDA e : e.id)
     /\ ids = DOMAIN r.observations /\ ids = DOMAIN r.scopes
     /\ \A x \in ids : /\ OperationsAgree(r.observations[x])
                       /\ \A b \in r.observations[x].breakdown : OperationsAgree(b)
     /\ \A e \in runtime :
          /\ e.kind = KindOfExperiment(e.id)
          /\ e.kind = "tool" => e.expected # {}
          /\ \A c \in Compared : r.scopes[e.id][c].configured <=> e.expected # {}

StaticAgrees(r) ==
  /\ \A c, d \in Capabilities : c # d =>
       /\ r.static[c] \cap r.static[d] = {}
       /\ r.staticRuntime[c].runtime \cap r.staticRuntime[d].runtime = {}
  /\ \A c \in Capabilities :
       /\ r.staticRuntime[c].static = r.static[c]
       /\ c \notin Compared => r.staticRuntime[c].runtime = {}

FindingsUnique(r) == \A f, g \in r.findings : f.id = g.id => f = g

Accepts(r) ==
  /\ HealthAgrees(r) /\ InterfacesAgree(r) /\ StaticAgrees(r)
  /\ RuntimeAgrees(r) /\ FindingsUnique(r)
  /\ \A x \in DOMAIN r.scopes, c \in Compared : RowAccepted(r, x, c)

-----------------------------------------------------------------------------
ReportNext ==
  \/ /\ EvidenceStep \/ AttributeEvents \/ EvaluateRules
     /\ UNCHANGED <<context, report>>
  \/ WriteReport

ReportSpec == ReportInit /\ [][ReportNext]_reportVars

(* Every report the analysis writes passes its own schema: the writer's    *)
(* way of deriving rows, counts, states and ids never contradicts the      *)
(* schema's.  (report.ts:1245 parses it as the analysis's last step.)      *)
ReportAccepted == \A r \in report : Accepts(r)

(* "findings must have unique IDs" (v1.ts:2133): whatever the operator     *)
(* calls the tool experiment, no two findings of a report share their id.  *)
FindingIdsUnique == \A r \in report : FindingsUnique(r)

(* The rules and the comparison agree on what was outside the operator's   *)
(* scope.  Every event a scope finding cites is outside in the comparison, *)
(* but for the server's own exec, which the comparison leaves out; every   *)
(* event outside is cited by a finding of its experiment, but for opens,   *)
(* failed execs and listening during the call, which no rule covers.  What *)
(* only overlaps the call in time is never a finding of high confidence,   *)
(* and what the summary calls expected is not outside.                     *)
(* (rules.ts:354, behavior-comparison.ts:485, report.ts:236.)              *)
FindingsAgree ==
  \A r \in report :
    LET Side(f) == IF f.id[1] = Call THEN Call ELSE Baseline
        Outside(x) == UNION {r.scopes[x][c].outside : c \in Compared}
        Within(x) == UNION {r.scopes[x][c].within : c \in Compared}
        Overlap(x) == UNION {r.scopes[x][c].overlap : c \in Compared}
        Cited(x) == UNION {f.events : f \in {g \in r.findings : Side(g) = x}}
        Event(id) == CHOOSE e \in ToSet(observed) : EventId(e) = id
        Uncovered(e) == \/ e.effect.kind = "file.open"
                        \/ e.effect.kind = "process.exec" /\ ~e.effect.ok
                        \/ e.effect.kind = "network.listen"
                             /\ ~ActiveIn(e, Call, {"cooldown"})
    IN /\ \A f \in r.findings : \A id \in f.events :
              /\ f.rule \in {"file scope", "network", "exec"} =>
                   \/ id \in Outside(Side(f))
                   \/ f.rule = "exec" /\ ~IsChild(Event(id))
              /\ f.confidence = "high" => id \notin Overlap(Side(f))
       /\ \A x \in DOMAIN r.scopes :
            /\ \A id \in Outside(x) : id \in Cited(x) \/ Uncovered(Event(id))
            /\ r.observations[x].matches \cap Outside(x) = {}

=============================================================================
