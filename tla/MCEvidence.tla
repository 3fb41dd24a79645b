------------------------------ MODULE MCEvidence ------------------------------
(***************************************************************************)
(* The two halves of an analysis's evidence.  From the kernel to the       *)
(* canonical events of a trace, and from the events of all experiments to  *)
(* report.json.  A behaviour is one of the one or of the other: the second *)
(* starts from any events, with the clock of the canonical form.           *)
(*                                                                         *)
(* The profile has a file in the operator's scope (notes), one outside it  *)
(* that is a synthetic credential, and a path elsewhere in the system.     *)
(***************************************************************************)
EXTENDS TraceObservation, AnalysisReport

VARIABLE half   (* "trace" or "report"                                       *)

Notes == <<"synthetic", "notes">>
Hosts == <<"system", "hosts">>

File(kind, path, operation) ==
  [kind |-> kind, path |-> path, operation |-> operation, ok |-> TRUE]
Failed(effect) == [effect EXCEPT !.ok = FALSE]
Connect(address) ==
  [kind |-> "network.connect_attempt", address |-> address, ok |-> TRUE]
Exec(program) == [kind |-> "process.exec", executable |-> program, ok |-> TRUE]

(* A second effect repeats the write of the first kind, outside the scope. *)
MCLaterEffects == {File("file.write", Notes, "content")}
MCFirstEffects ==
  {File("file.open", Notes, "content"), File("file.write", Notes, "content"),
   File("file.read", Credential, "content"), File("file.read", Hosts, "content"),
   File("file.read", Credential, "directory_entries"),
   Failed(File("file.write", Credential, "content")),
   File("file.delete", Notes, "content"),
   Connect("host"), Connect("nscd"), Failed(Connect("other")),
   [kind |-> "network.listen", address |-> "other", ok |-> TRUE],
   Exec("other")}

Scope == [reads |-> {Notes}, writes |-> {Credential}, addresses |-> {"host"},
          programs |-> {"shell"}]
Skipped == [enabled |-> FALSE, expected |-> {}]
Unscoped == [enabled |-> TRUE, expected |-> {}]
Scoped == [enabled |-> TRUE, expected |-> {Scope}]
MCInitialScopes == {Skipped, Unscoped, Scoped}
MCCallScopes == {Scope}

(* Without an initialization experiment the call is looked at, with one    *)
(* the initialization.                                                     *)
MCMaxActs ==
  [s \in MCInitialScopes |->
     [x \in {Baseline, Call} |-> CASE x = Call -> IF s = Skipped THEN 2 ELSE 0
                                   [] s = Scoped -> 2
                                   [] OTHER -> 1]]

(* One act in each experiment.                                             *)
MCBothActs == [s \in MCInitialScopes |-> [x \in {Baseline, Call} |-> 1]]

(* The rest of the report, in three variants.                              *)
Ids4 == ToSet(InstallIds) \cup {Baseline, Call}
NoGaps == [o \in GapOutcomes |-> 0]
Healthy == [complete |-> TRUE, gaps |-> NoGaps]
Degraded == [complete |-> FALSE, gaps |-> [NoGaps EXCEPT !["failed"] = 2]]
Gapped == [complete |-> TRUE, gaps |-> [NoGaps EXCEPT !["unknown"] = 1]]

Assessment(index, tool, capability, evidence) ==
  [index |-> index, tool |-> tool, capability |-> capability,
   evidence |-> evidence]
Quiet == [tools |-> <<"tool">>,
          assessments |-> {Assessment(1, "tool", c, {}) : c \in Compared}]
Twice == [tools |-> <<"tool", "tool">>,
          assessments |-> {Assessment(i, "tool", c,
              IF c = "network_access" THEN {<<i, 1>>} ELSE {}) :
                i \in 1..2, c \in Compared}]
Others == [tools |-> <<"other">>,
           assessments |-> {Assessment(1, "other", c, {<<1, 1>>}) : c \in Compared}]

Signals(files, environment) ==
  [c \in Compared \cup {"environment_access"} |->
     CASE c = "filesystem_access" -> files
       [] c = "environment_access" -> environment
       [] OTHER -> {}]

Plain == [installs |-> {}, catalogs |-> [x \in Ids4 |-> Quiet],
          signals |-> Signals({}, {}), health |-> [x \in Ids4 |-> Healthy]]
Installed == [installs |-> {"completed"},
              catalogs |-> [x \in Ids4 |-> IF x = Baseline THEN Quiet ELSE Twice],
              signals |-> Signals({1, 2}, {3}),
              health |-> [x \in Ids4 |-> IF x = Call THEN Degraded ELSE Gapped]]
HalfInstalled == [installs |-> {"completed", "failed"},
                  catalogs |-> [x \in Ids4 |-> Others],
                  signals |-> Signals({}, {3}),
                  health |-> [x \in Ids4 |->
                                IF x = Baseline THEN Degraded ELSE Healthy]]
MCContexts == [s \in MCInitialScopes |->
                 IF s = Unscoped THEN {Plain, HalfInstalled} ELSE {Installed}]

MCvars == <<traceVars, reportVars, half>>

(* The settings of the report's half do not matter to the other.           *)
MCInit ==
  /\ TraceInit /\ ReportInit /\ half \in {"trace", "report"}
  /\ half = "trace" => config.initialization = Skipped

MCNext ==
  \/ half = "trace" /\ TraceNext /\ UNCHANGED <<reportVars, half>>
  \/ half = "report" /\ ReportNext /\ UNCHANGED <<traceVars, half>>

MCSpec == MCInit /\ [][MCNext]_MCvars

=============================================================================
