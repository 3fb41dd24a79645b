--------------------------- MODULE ObservedBehavior ---------------------------
(***************************************************************************)
(* What an analysis concludes from the canonical events of its             *)
(* experiments: the attribution of every event to a phase (attribute.ts),  *)
(* the findings of the runtime rules (rules.ts) and the comparison with    *)
(* the operator's scope (behavior-comparison.ts).  The three read the same *)
(* events and decide independently what is outside the scope.              *)
(*                                                                         *)
(* The experiments run one after the other.  A phase is bounded by the     *)
(* host's clock in milliseconds, and so are the events by the time they    *)
(* reach these functions: a step may happen in the same millisecond as the *)
(* step before it.                                                         *)
(***************************************************************************)
EXTENDS Integers, Sequences, FiniteSets, SequencesExt

CONSTANTS
  Call,          (* the id of the configured tool experiment                 *)
  InitialScopes, (* the settings of experiments.initialization: whether it   *)
                 (* is enabled, and {} or {its expected scope}               *)
  CallScopes,    (* the expected scopes of the tool experiment               *)
  FirstEffects,  (* the effects the first action of a process may have,      *)
  LaterEffects,  (* and those of the later ones (bound)                      *)
  MaxActs,       (* for every setting of the initialization, the effects and *)
                 (* child processes in each experiment (bound)               *)
  MaxTies        (* steps in the same millisecond as the one before, in the  *)
                 (* experiments in which something happens (bound)           *)

(* The initialization has one scope or none, and the id of its experiment  *)
(* is reserved (only while it is enabled: a tool experiment that takes the *)
(* name where it is not is left out).  (config.ts:69, :207.)               *)
ASSUME OneScope == \A s \in InitialScopes : \A a, b \in s.expected : a = b
ASSUME CallNotReserved == Call # "baseline-initialization"

VARIABLES
  config,        (* [initialization, expected]                               *)
  running,       (* the experiments that still have to run, the first runs   *)
  open,          (* {} or {the phase inPhase() is in}                        *)
  phases,        (* phases.jsonl                                             *)
  processes,     (* the traced processes of the running experiment           *)
  observed,        (* events.jsonl, with the phase they really happened in     *)
  clock, ties,   (* Date.now(), and how often a step did not move it         *)
  attributions,  (* {} or {the attribution of every event}                   *)
  findings       (* {} or {findings.jsonl}                                   *)

evidenceVars == <<config, running, open, phases, processes, observed, clock, ties>>
observedVars == <<evidenceVars, attributions, findings>>

Baseline == "baseline-initialization"

Experiments ==
  IF config.initialization.enabled THEN <<Baseline, Call>> ELSE <<Call>>

(* initializationExpectedScope(): {} when no scope is configured.          *)
ScopeOf(experiment) ==
  IF experiment = Call THEN {config.expected}
  ELSE config.initialization.expected

(* The phases of one session, in their order.                              *)
Schedule(experiment) ==
  <<"initialization", "initialization">>
  \o (IF experiment = Baseline THEN <<>> ELSE <<"tool">>) \o <<"cooldown">>

(* The phases and the events of an experiment so far.                      *)
PhasesOf(experiment) == {i \in DOMAIN phases : phases[i].experiment = experiment}
EventsIn(experiment) ==
  {i \in DOMAIN observed : observed[i].experiment = experiment}

IdOf(p) == <<p.experiment, p.kind, p.number>>
EventId(e) == <<e.experiment, e.sequence>>

ObservedInit ==
  /\ config \in [initialization : InitialScopes, expected : CallScopes]
  /\ running = Experiments
  /\ open = {} /\ phases = <<>>
  /\ processes = {} /\ observed = <<>>
  /\ clock = 0 /\ ties = 0
  /\ attributions = {} /\ findings = {}

-----------------------------------------------------------------------------
Bound == MaxActs[config.initialization][Head(running)]

(* Every step takes some time, or none that the clock shows.               *)
Time(t) ==
  \/ t = clock + 1 /\ ties' = ties
  \/ t = clock /\ ties < MaxTies /\ ties' = ties + 1

PhaseStarts ==
  /\ running # <<>> /\ open = {}
  /\ LET experiment == Head(running)
         number == Cardinality(PhasesOf(experiment)) + 1
     IN /\ number <= Len(Schedule(experiment))
        /\ \E t \in {clock, clock + 1} :
             /\ Time(t) /\ clock' = t
             /\ open' = {[experiment |-> experiment, number |-> number,
                          kind |-> Schedule(experiment)[number], start |-> t]}
  /\ UNCHANGED <<config, running, phases, processes, observed, attributions,
                 findings>>

(* A tool call, a connection or a list comes back when the server runs.    *)
PhaseEnds ==
  /\ processes # {}
  /\ \E p \in open, t \in {clock, clock + 1} :
       /\ Time(t) /\ clock' = t
       /\ phases' = Append(phases,
            [experiment |-> p.experiment, kind |-> p.kind, number |-> p.number,
             start |-> p.start, end |-> t])
  /\ open' = {}
  /\ UNCHANGED <<config, running, processes, observed, attributions, findings>>

Observe(process, effect) ==
  LET experiment == Head(running)
  IN \E t \in {clock, clock + 1} :
       /\ Time(t) /\ clock' = t
       /\ observed' = Append(observed,
            [experiment |-> experiment, process |-> <<experiment, process>>,
             sequence |-> Cardinality(EventsIn(experiment)) + 1,
             time |-> t, effect |-> effect,
             during |-> {IdOf(p) : p \in open}])

(* The traced server starts while the client connects to it.               *)
ServerStarts ==
  /\ open # {} /\ processes = {}
  /\ Observe("root", [kind |-> "process.start", child |-> FALSE])
  /\ processes' = {"root"}
  /\ UNCHANGED <<config, running, open, phases, attributions, findings>>

(* What the processes did, but for the start of the servers (bound).       *)
Acts == SelectSeq(observed, LAMBDA e :
          /\ e.experiment = Head(running)
          /\ e.effect.kind = "process.start" => e.effect.child)
Effects == SelectSeq(observed, LAMBDA e : e.effect.kind # "process.start")

ChildSpawned ==
  /\ "root" \in processes /\ "child" \notin processes
  /\ Len(Acts) < Bound
  /\ Observe("child", [kind |-> "process.start", child |-> TRUE])
  /\ processes' = processes \cup {"child"}
  /\ UNCHANGED <<config, running, open, phases, attributions, findings>>

(* A process acts, in a phase, between two or after the last.              *)
ProcessActs ==
  /\ processes # {} /\ Len(Acts) < Bound
  /\ \E process \in processes,
        effect \in IF Effects = <<>> THEN FirstEffects ELSE LaterEffects :
       Observe(process, effect)
  /\ UNCHANGED <<config, running, open, phases, processes, attributions,
                 findings>>

(* The session is closed and its container removed.                        *)
ExperimentEnds ==
  /\ running # <<>> /\ open = {}
  /\ Cardinality(PhasesOf(Head(running))) = Len(Schedule(Head(running)))
  /\ running' = Tail(running)
  /\ processes' = {}
  /\ UNCHANGED <<config, open, phases, observed, clock, ties, attributions,
                 findings>>

-----------------------------------------------------------------------------
(* Attribution.                                                            *)

Around(p, e) ==
  p.experiment = e.experiment /\ p.start <= e.time /\ e.time <= p.end

(* activePhase(): {} or {the phase that started last of those around it}.  *)
ActivePhase(e) ==
  {phases[i] : i \in {j \in DOMAIN phases :
     /\ Around(phases[j], e)
     /\ \A k \in DOMAIN phases : Around(phases[k], e) =>
          \/ phases[k].start < phases[j].start
          \/ phases[k].start = phases[j].start /\ k <= j}}

Earlier(d, e) ==
  d.time < e.time \/ (d.time = e.time /\ d.sequence <= e.sequence)

(* The active phase of the first event of the event's process.             *)
OriginPhase(e) ==
  LET own == {observed[i] : i \in {j \in DOMAIN observed :
                                   observed[j].process = e.process}}
  IN UNION {ActivePhase(d) : d \in {c \in own : \A b \in own : Earlier(c, b)}}

Precedes(origin, active) == origin.end <= active.start

(* The bug of comparing kinds: any initialization phase would do.          *)
SameKind(origin, active) == {p.kind : p \in origin} = {p.kind : p \in active}

SamePhase(origin, active) ==
  {IdOf(p) : p \in origin} = {IdOf(p) : p \in active}

Confidence(active, origin) ==
  CASE active # {} /\ SamePhase(origin, active) -> "high"
    [] active # {} /\ ~SamePhase(origin, active) -> "medium"
    [] active = {} /\ origin # {} -> "low"
    [] OTHER -> "unattributed"

Reasons(e, active, origin) ==
  LET tool == \E p \in active : p.kind = "tool"
      same == SamePhase(origin, active)
  IN {r \in {"within_phase_bounds"} : active # {}}
     \cup {r \in {"isolated_tool_run"} : tool /\ e.experiment = Call}
     \cup {r \in {"process_origin_matches_active_phase"} : active # {} /\ same}
     \cup {r \in {"process_origin_outside_recorded_phases"} :
             active # {} /\ origin = {}}
     \cup {r \in {"process_origin_precedes_active_phase"} :
             ~same /\ \E p \in origin, q \in active : Precedes(p, q)}
     \cup {r \in {"process_origin_differs_from_active_phase"} :
             ~same /\ \E p \in origin, q \in active : ~Precedes(p, q)}
     \cup {r \in {"initialization_process_active_during_tool_phase"} :
             tool /\ ~same /\ \E p \in origin : p.kind = "initialization"}
     \cup {r \in {"tool_phase_temporal_overlap_only"} : tool /\ ~same}
     \cup {r \in {"process_origin_phase_only"} : active = {} /\ origin # {}}

Attribution(e) ==
  LET active == ActivePhase(e)  origin == OriginPhase(e)
  IN [active |-> {IdOf(p) : p \in active}, origin |-> {IdOf(p) : p \in origin},
      confidence |-> Confidence(active, origin),
      reasons |-> Reasons(e, active, origin)]

AttributeEvents ==
  /\ running = <<>> /\ attributions = {}
  /\ attributions' =
       {[id \in {EventId(e) : e \in ToSet(observed)} |->
           Attribution(CHOOSE e \in ToSet(observed) : EventId(e) = id)]}
  /\ UNCHANGED <<evidenceVars, findings>>

(* The attribution of an event that is attributed.                         *)
Of(e) == (CHOOSE a \in attributions : TRUE)[EventId(e)]

KindOf(id) == id[2]

ActiveIn(e, experiment, kinds) ==
  e.experiment = experiment
  /\ \E id \in Of(e).active : id[1] = experiment /\ KindOf(id) \in kinds

FromTool(e) ==
  \E id \in Of(e).origin : id[1] = e.experiment /\ KindOf(id) = "tool"

-----------------------------------------------------------------------------
(* The runtime rules.  Paths are <<root, name>>: root is "synthetic" below *)
(* the home or the workspace of the profile and "system" elsewhere.        *)

IsFile(e) == e.effect.kind \in {"file.read", "file.write", "file.delete"}
DirectoryRead(e) ==
  e.effect.kind = "file.read" /\ e.effect.operation = "directory_entries"
Inside(e) == e.effect.path[1] = "synthetic"
Routine(e) ==
  e.effect.kind = "network.connect_attempt" /\ e.effect.address = "nscd"
Credential == <<"synthetic", "credential">>

IsChild(e) ==
  \E i \in DOMAIN observed : /\ observed[i].process = e.process
                           /\ observed[i].effect.kind = "process.start"
                           /\ observed[i].effect.child

(* rules.ts: reads against the reads, writes and deletes against the       *)
(* writes.                                                                 *)
AllowedPath(e, scope) ==
  e.effect.path \in IF e.effect.kind = "file.read" THEN scope.reads
                                                   ELSE scope.writes
AllowedProgram(e, scope) == e.effect.executable \in scope.programs
AllowedAddress(e, scope) == e.effect.address \in scope.addresses

(* finding(): what it cites and how sure it is.                            *)
FindingConfidence(cited) ==
  LET levels == {Of(e).confidence : e \in cited}
  IN CASE levels \subseteq {"high"} -> "high"
       [] ~(levels \subseteq {"high"}) /\ "unattributed" \in levels -> "low"
       [] OTHER -> "medium"

Finding(id, rule, cited) ==
  [id |-> id, rule |-> rule, events |-> {EventId(e) : e \in cited},
   confidence |-> FindingConfidence(cited)]

(* Events are selected by their indices, and findings of a rule numbered    *)
(* in their order.                                                         *)
Select(P(_)) == {i \in DOMAIN observed : P(observed[i])}
Rank(i, S) == Cardinality({j \in S : j <= i})

Each(cited, id, rule) ==
  {Finding(Append(id, Rank(i, cited)), rule, {observed[i]}) : i \in cited}

(* One finding for every group of events with the same key, in the order   *)
(* in which the groups first occur.                                        *)
SameGroup(cited, keys, i) == {j \in cited : keys[j] = keys[i]}

Grouped(cited, keys, id, rule) ==
  LET firsts == {i \in cited : \A j \in SameGroup(cited, keys, i) : i <= j}
  IN {Finding(Append(id, Rank(i, firsts)), rule,
        {observed[j] : j \in SameGroup(cited, keys, i)}) : i \in firsts}

PathKeys(cited) ==
  [i \in cited |-> <<observed[i].effect.kind, observed[i].effect.path>>]
Paths(cited) == [i \in cited |-> observed[i].effect.path]

(* Initialization: its phases and its cooldown, of the baseline only.      *)
InInitialization(e) == ActiveIn(e, Baseline, {"initialization", "cooldown"})

SensitiveRead(e) ==
  InInitialization(e) /\ e.effect.kind = "file.read" /\ ~DirectoryRead(e)
  /\ e.effect.path = Credential

InitialFile(e, scope) ==
  /\ InInitialization(e) /\ IsFile(e) /\ ~DirectoryRead(e)
  /\ ~SensitiveRead(e) /\ Inside(e) /\ ~AllowedPath(e, scope)

InitialExec(e, scope) ==
  /\ InInitialization(e) /\ e.effect.kind = "process.exec" /\ e.effect.ok
  /\ IsChild(e) /\ ~AllowedProgram(e, scope)

InitialConnection(e, scope) ==
  /\ InInitialization(e) /\ e.effect.kind = "network.connect_attempt"
  /\ ~Routine(e) /\ ~AllowedAddress(e, scope)

InitializationActs(scope) ==
  Each(Select(LAMBDA e : InitialExec(e, scope)),
       <<"initialization", "unexpected-exec">>, "exec")
  \cup Each(Select(LAMBDA e : InitialConnection(e, scope)),
            <<"initialization", "network">>, "network")

InitializationFindings ==
  LET reads == Select(SensitiveRead) IN
  Grouped(reads, Paths(reads),
          <<"initialization", "sensitive-access">>, "sensitive access")
  \cup UNION {LET files == Select(LAMBDA e : InitialFile(e, scope))
              IN Grouped(files, PathKeys(files),
                         <<"initialization", "file-scope">>, "file scope")
                 \cup InitializationActs(scope) : scope \in ScopeOf(Baseline)}

(* The tool call, and what its processes still do afterwards.              *)
InTool(e) == ActiveIn(e, Call, {"tool"})

ToolFile(e, scope) ==
  /\ InTool(e) /\ IsFile(e) /\ ~DirectoryRead(e)
  /\ Inside(e) /\ ~AllowedPath(e, scope)

ToolExec(e, scope) ==
  /\ InTool(e) /\ e.effect.kind = "process.exec" /\ e.effect.ok
  /\ ~AllowedProgram(e, scope)

ToolConnection(e, scope) ==
  /\ InTool(e) /\ e.effect.kind = "network.connect_attempt"
  /\ ~Routine(e) /\ ~AllowedAddress(e, scope)

PostReturn(e) ==
  /\ ActiveIn(e, Call, {"cooldown"}) /\ FromTool(e)
  /\ \/ IsFile(e) /\ Inside(e)
     \/ e.effect.kind = "network.connect_attempt" /\ ~Routine(e)
     \/ e.effect.kind = "network.listen"
     \/ e.effect.kind = "process.exec" /\ e.effect.ok

PostReturnFinding ==
  LET late == Select(PostReturn)
  IN  {Finding(<<Call, "post-return-activity">>, "post return", cited) :
         cited \in {{observed[i] : i \in late}} \ {{}}}

ToolFindings ==
  LET scope == config.expected
      files == Select(LAMBDA e : ToolFile(e, scope))
  IN Grouped(files, PathKeys(files),
             <<Call, "file-scope">>, "file scope")
     \cup Each(Select(LAMBDA e : ToolExec(e, scope)),
               <<Call, "unexpected-exec">>, "exec")
     \cup Each(Select(LAMBDA e : ToolConnection(e, scope)),
               <<Call, "network">>, "network")
     \cup PostReturnFinding

EvaluateRules ==
  /\ attributions # {} /\ findings = {}
  /\ findings' = {InitializationFindings \cup ToolFindings}
  /\ UNCHANGED <<evidenceVars, attributions>>

-----------------------------------------------------------------------------
(* One phase, process or effect after the other, then the three readers.   *)
EvidenceStep ==
  \/ PhaseStarts \/ PhaseEnds \/ ServerStarts \/ ChildSpawned
  \/ ProcessActs \/ ExperimentEnds

(* The phase an event is said to have happened in is the one it did happen *)
(* in, or one that begins or ends in the same millisecond; and an event is *)
(* attributed with high confidence only to a phase its process came up in, *)
(* up to the same tolerance.  (attribute.ts:9, :83: the clock truncates.)  *)
(* Attributions do not change: they are looked at once.                    *)
AttributionSound ==
  attributions # {} /\ findings = {} =>
    \A i \in DOMAIN observed :
      LET e == observed[i]
          At(p, t) == t \in {p.start, p.end}
          Happened(d, p) == d.during = {IdOf(p)} \/ At(p, d.time)
          own == {observed[j] : j \in {k \in DOMAIN observed :
                                      observed[k].process = e.process}}
          first == CHOOSE d \in own : \A b \in own : d.sequence <= b.sequence
      IN /\ \A p \in ToSet(phases) :
              /\ IdOf(p) \in Of(e).active => Happened(e, p)
              /\ IdOf(p) \in Of(e).active /\ Of(e).confidence = "high"
                   => Happened(first, p)
              /\ e.during = {IdOf(p)} =>
                   \/ Of(e).active = {IdOf(p)}
                   \/ \E q \in ToSet(phases) :
                        Of(e).active = {IdOf(q)} /\ q.start = e.time
         /\ "tool_phase_temporal_overlap_only" \in Of(e).reasons =>
              Of(e).confidence # "high"

=============================================================================
