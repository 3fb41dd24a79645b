----------------------------- MODULE ReportProofs -----------------------------
(***************************************************************************)
(* Theorems about what a trace tells of the process tree it was taken of,  *)
(* about the attribution of the events of an analysis, about what its      *)
(* rules and its comparison make of them, and about the report's schema:   *)
(* for any trace, any configuration, any effects, and any number of steps  *)
(* in the same millisecond.                                                *)
(*                                                                         *)
(* The attribution: the clock never goes back, so the events and the       *)
(* phases stand in the order of their times, and an event that lies        *)
(* strictly between the bounds of a phase happened in it.  Sequence and    *)
(* phase numbers count, so they tell events and phases of an experiment    *)
(* apart.                                                                  *)
(*                                                                         *)
(* The report: what the rules cite and what the comparison puts outside    *)
(* the scope come from the same events, and the counts are sums of the     *)
(* same numbers in another order.                                          *)
(*                                                                         *)
(* The traces: each kind of call either is told by an event or is counted  *)
(* as a gap, and a call that no line tells of leaves a thread without its  *)
(* end (TraceInv).  The normalizer's tables of descriptors follow the      *)
(* kernel's for as long as the trace gives it no cause to call them        *)
(* unclear (FollowOK), and the lines say who started whom, once for each   *)
(* process (RecordsOK); together these are TreeInv.                        *)
(***************************************************************************)
EXTENDS TraceObservation, AnalysisReport, SequenceTheorems, FiniteSetTheorems,
        WellFoundedInduction, TLAPS

Names == {Baseline, Call}
Kinds == {"initialization", "tool", "cooldown"}
Starts == {[kind |-> "process.start", child |-> c] : c \in BOOLEAN}
EffectsPossible == FirstEffects \cup LaterEffects \cup Starts

OpenPhases == [experiment : Names, number : Nat, kind : Kinds, start : Nat]
EndedPhases == [experiment : Names, kind : Kinds, number : Nat, start : Nat,
                end : Nat]
Events ==
  [experiment : Names, process : Names \X {"root", "child"}, sequence : Nat,
   time : Nat, effect : EffectsPossible, during : SUBSET (Names \X Kinds \X Nat)]

EvidenceTypes ==
  /\ config \in [initialization : InitialScopes, expected : CallScopes]
  /\ running \in Seq(Names)
  /\ open \subseteq OpenPhases /\ \A p, q \in open : p = q
  /\ phases \in Seq(EndedPhases)
  /\ processes \subseteq {"root", "child"}
  /\ observed \in Seq(Events)
  /\ clock \in Nat

(* A phase is open, and processes run, only in the running experiment.     *)
RunningInv ==
  /\ processes # {} => running # <<>>
  /\ \A p \in open : running # <<>> /\ p.experiment = Head(running)

(* Phases follow one another, and their numbers count.                     *)
PhasesInv ==
  /\ \A i \in DOMAIN phases :
       /\ phases[i].start <= phases[i].end /\ phases[i].end <= clock
       /\ phases[i].number <= Cardinality(PhasesOf(phases[i].experiment))
  /\ \A i, j \in DOMAIN phases : i < j =>
       /\ phases[i].end <= phases[j].start
       /\ phases[i].experiment = phases[j].experiment =>
            phases[i].number < phases[j].number
  /\ \A p \in open :
       /\ p.start <= clock
       /\ p.number = Cardinality(PhasesOf(p.experiment)) + 1
       /\ \A i \in DOMAIN phases : phases[i].end <= p.start

(* So do the events.                                                       *)
EventsInv ==
  /\ \A i \in DOMAIN observed :
       /\ observed[i].time <= clock
       /\ observed[i].sequence <= Cardinality(EventsIn(observed[i].experiment))
       /\ observed[i].process[1] = observed[i].experiment
  /\ \A i, j \in DOMAIN observed : i < j =>
       /\ observed[i].time <= observed[j].time
       /\ observed[i].experiment = observed[j].experiment =>
            observed[i].sequence < observed[j].sequence

(* An event lies within the bounds of the phase it happened in, and it     *)
(* happened in the phase whose bounds it lies strictly between.            *)
DuringInv ==
  \A i \in DOMAIN observed :
    LET e == observed[i] IN
    /\ \A id \in e.during : \/ \E j \in DOMAIN phases : id = IdOf(phases[j])
                            \/ \E p \in open : id = IdOf(p)
    /\ \A j \in DOMAIN phases :
         /\ IdOf(phases[j]) \in e.during => Around(phases[j], e)
         /\ phases[j].start < e.time /\ e.time < phases[j].end =>
              e.during = {IdOf(phases[j])}
    /\ \A p \in open :
         /\ IdOf(p) \in e.during =>
              p.start <= e.time /\ p.experiment = e.experiment
         /\ p.start < e.time => e.during = {IdOf(p)}

EvidenceInv ==
  EvidenceTypes /\ RunningInv /\ PhasesInv /\ EventsInv /\ DuringInv

(* The attributions are those of the evidence, which is then complete.     *)
Attributed ==
  [id \in {EventId(e) : e \in ToSet(observed)} |->
     Attribution(CHOOSE e \in ToSet(observed) : EventId(e) = id)]

AttributionInv ==
  attributions # {} => running = <<>> /\ attributions = {Attributed}

-----------------------------------------------------------------------------
(* A sequence with one element more.                                       *)
LEMMA AppendIs ==
  ASSUME NEW S, NEW s \in Seq(S), NEW x \in S
  PROVE  /\ Append(s, x) \in Seq(S)
         /\ Len(s) \in Nat /\ DOMAIN s = 1..Len(s)
         /\ DOMAIN Append(s, x) = 1..(Len(s) + 1)
         /\ Append(s, x)[Len(s) + 1] = x
         /\ \A i \in DOMAIN s : Append(s, x)[i] = s[i] /\ s[i] \in S
<1>1. Len(s) \in Nat /\ DOMAIN s = 1..Len(s)
  BY LenProperties
<1>2. /\ Append(s, x) \in Seq(S) /\ Len(Append(s, x)) = Len(s) + 1
      /\ Append(s, x)[Len(s) + 1] = x
      /\ \A i \in 1..Len(s) : Append(s, x)[i] = s[i]
  BY AppendProperties
<1>3. DOMAIN Append(s, x) = 1..(Len(s) + 1)
  BY <1>2, LenProperties
<1>4. \A i \in DOMAIN s : s[i] \in S
  BY <1>1, ElementOfSeq
<1> QED
  BY <1>1, <1>2, <1>3, <1>4

(* The phases or the events of an experiment, counted.                     *)
In(s, name) == {i \in DOMAIN s : s[i].experiment = name}

LEMMA InIsFinite ==
  ASSUME NEW S, NEW s \in Seq(S), NEW name
  PROVE  IsFiniteSet(In(s, name)) /\ Cardinality(In(s, name)) \in Nat
<1>1. Len(s) \in Nat /\ DOMAIN s = 1..Len(s)
  BY LenProperties
<1>2. IsFiniteSet(1..Len(s))
  BY <1>1, FS_Interval
<1>3. In(s, name) \subseteq 1..Len(s)
  BY <1>1 DEF In
<1>4. IsFiniteSet(In(s, name))
  BY <1>2, <1>3, FS_Subset
<1> QED
  BY <1>4, FS_CardinalityType

LEMMA Counted ==
  ASSUME NEW S, NEW s \in Seq(S), NEW x \in S, NEW name
  PROVE  Cardinality(In(Append(s, x), name)) =
           IF x.experiment = name THEN Cardinality(In(s, name)) + 1
                                  ELSE Cardinality(In(s, name))
<1> DEFINE m == Len(s) + 1
<1>1. /\ Len(s) \in Nat /\ DOMAIN s = 1..Len(s)
      /\ DOMAIN Append(s, x) = 1..m
      /\ Append(s, x)[m] = x
      /\ \A i \in DOMAIN s : Append(s, x)[i] = s[i] /\ s[i] \in S
  BY AppendIs
<1>2. IsFiniteSet(In(s, name)) /\ m \notin In(s, name)
  <2>1. IsFiniteSet(In(s, name))
    BY InIsFinite
  <2> QED BY <1>1, <2>1 DEF In
<1>3. CASE x.experiment = name
  <2>1. In(Append(s, x), name) = In(s, name) \cup {m}
    BY <1>1, <1>3 DEF In
  <2>2. Cardinality(In(s, name) \cup {m}) = Cardinality(In(s, name)) + 1
    <3> HIDE DEF m
    <3> QED BY <1>2, FS_AddElement
  <2> QED BY <1>3, <2>1, <2>2
<1>4. CASE x.experiment # name
  <2>1. In(Append(s, x), name) = In(s, name)
    BY <1>1, <1>4 DEF In
  <2> QED BY <1>4, <2>1
<1> QED
  BY <1>3, <1>4

(* Short sequences.                                                        *)
LEMMA ShortSeq ==
  ASSUME NEW S, NEW x \in S, NEW y \in S
  PROVE  <<x>> \in Seq(S) /\ <<x, y>> \in Seq(S)
OBVIOUS

(* The kinds of the phases of a session.                                   *)
LEMMA ScheduleKinds ==
  ASSUME NEW name, NEW n \in Nat \ {0}, n <= Len(Schedule(name))
  PROVE  Schedule(name)[n] \in Kinds
<1> DEFINE first == <<"initialization", "initialization">>
           last == <<"cooldown">>
           middle == IF name = Baseline THEN <<>> ELSE <<"tool">>
<1>1. /\ first \in Seq(Kinds) /\ middle \in Seq(Kinds)
      /\ last \in Seq(Kinds)
  <2>1. Kinds # {} /\ {"initialization", "tool", "cooldown"} \subseteq Kinds
    BY DEF Kinds
  <2> HIDE DEF Kinds
  <2>2. first \in Seq(Kinds)
    BY <2>1, ShortSeq
  <2>3. middle \in Seq(Kinds)
    BY <2>1, ShortSeq, EmptySeq
  <2>4. last \in Seq(Kinds)
    BY <2>1, ShortSeq
  <2> QED BY <2>2, <2>3, <2>4
<1>2. Schedule(name) = (first \o middle) \o last
  BY DEF Schedule
<1> HIDE DEF first, last, middle
<1>3. Schedule(name) \in Seq(Kinds)
  <2>1. first \o middle \in Seq(Kinds)
    BY <1>1, ConcatProperties
  <2> QED BY <1>1, <1>2, <2>1, ConcatProperties
<1>4. n \in 1..Len(Schedule(name))
  BY <1>3, LenProperties
<1> QED
  BY <1>3, <1>4, ElementOfSeq

(* The time of a step.                                                     *)
LEMMA TimeGoesOn ==
  ASSUME clock \in Nat, NEW t \in {clock, clock + 1}
  PROVE  t \in Nat /\ clock <= t
OBVIOUS

-----------------------------------------------------------------------------
LEMMA EvidenceInitially ==
  ASSUME ObservedInit
  PROVE  EvidenceInv /\ AttributionInv
<1>1. running \in Seq(Names)
  <2>1. Baseline \in Names /\ Call \in Names
    BY DEF Names
  <2> QED BY <2>1, ShortSeq DEF ObservedInit, Experiments
<1>2. phases = <<>> /\ observed = <<>> /\ open = {} /\ processes = {} /\ clock = 0
  BY DEF ObservedInit
<1>3. EvidenceTypes
  BY <1>1, <1>2, EmptySeq DEF EvidenceTypes, ObservedInit
<1>4. DOMAIN phases = {} /\ DOMAIN observed = {}
  BY <1>2
<1>5. RunningInv /\ PhasesInv /\ EventsInv /\ DuringInv
  BY <1>2, <1>4 DEF RunningInv, PhasesInv, EventsInv, DuringInv
<1> QED
  BY <1>3, <1>5 DEF EvidenceInv, AttributionInv, ObservedInit

LEMMA PhaseStartsKeeps ==
  ASSUME EvidenceInv, PhaseStarts
  PROVE  EvidenceInv'
<1> DEFINE name == Head(running)
<1>1. PICK t \in {clock, clock + 1} :
        /\ clock' = t
        /\ open' = {[experiment |-> name,
                     number |-> Cardinality(PhasesOf(name)) + 1,
                     kind |-> Schedule(name)[Cardinality(PhasesOf(name)) + 1],
                     start |-> t]}
  BY DEF PhaseStarts
<1> DEFINE n == Cardinality(PhasesOf(name)) + 1
           kind == Schedule(name)[n]
           p == [experiment |-> name, number |-> n, kind |-> kind, start |-> t]
<1>2. name \in Names /\ running # <<>>
  BY HeadTailProperties DEF PhaseStarts, EvidenceInv, EvidenceTypes
<1>3. Cardinality(PhasesOf(name)) \in Nat
  BY InIsFinite DEF EvidenceInv, EvidenceTypes, In, PhasesOf
<1>4. kind \in Kinds
  BY <1>3, ScheduleKinds DEF PhaseStarts
<1>5. t \in Nat /\ clock <= t
  BY TimeGoesOn DEF EvidenceInv, EvidenceTypes
<1>6. UNCHANGED <<config, running, phases, processes, observed>>
  BY DEF PhaseStarts
<1>7. open = {} /\ open' = {p}
  BY <1>1 DEF PhaseStarts
<1>8. p \in OpenPhases
  BY <1>2, <1>3, <1>4, <1>5 DEF OpenPhases
<1>9. p.experiment = name /\ p.number = n /\ p.start = t
  OBVIOUS
<1> HIDE DEF p, kind
<1>10. EvidenceTypes'
  BY <1>1, <1>5, <1>6, <1>7, <1>8 DEF EvidenceInv, EvidenceTypes
<1>11. RunningInv'
  BY <1>2, <1>6, <1>7, <1>9 DEF EvidenceInv, RunningInv
<1>12. \A i \in DOMAIN phases : phases[i] \in EndedPhases
  BY ElementOfSeq, LenProperties DEF EvidenceInv, EvidenceTypes
<1>13. \A i \in DOMAIN observed : observed[i] \in Events
  BY ElementOfSeq, LenProperties DEF EvidenceInv, EvidenceTypes
<1>14. PhasesInv'
  <2>1. \A i \in DOMAIN phases : phases[i].end \in Nat
    BY <1>12 DEF EndedPhases
  <2>2. \A i \in DOMAIN phases : phases[i].end <= t
    BY <1>5, <2>1 DEF EvidenceInv, EvidenceTypes, PhasesInv
  <2>3. \A i \in DOMAIN phases :
          /\ phases[i].start <= phases[i].end /\ phases[i].end <= clock'
          /\ phases[i].number <= Cardinality(PhasesOf(phases[i].experiment))
    BY <1>1, <2>2 DEF EvidenceInv, PhasesInv
  <2>4. \A q \in {p} :
          /\ q.start <= clock'
          /\ q.number = Cardinality(PhasesOf(q.experiment)) + 1
          /\ \A i \in DOMAIN phases : phases[i].end <= q.start
    BY <1>1, <1>5, <1>9, <2>2
  <2>5. phases' = phases /\ open' = {p}
    BY <1>6, <1>7
  <2>6. \A x : PhasesOf(x)' = PhasesOf(x)
    BY <2>5 DEF PhasesOf
  <2> QED BY <2>3, <2>4, <2>5, <2>6 DEF EvidenceInv, PhasesInv
<1>15. EventsInv'
  <2>1. \A i \in DOMAIN observed : observed[i].time \in Nat
    BY <1>13 DEF Events
  <2>2. \A x : EventsIn(x)' = EventsIn(x)
    BY <1>6 DEF EventsIn
  <2> QED BY <1>1, <1>5, <1>6, <2>1, <2>2
    DEF EvidenceInv, EvidenceTypes, EventsInv
<1>16. DuringInv'
  <2> SUFFICES ASSUME NEW i \in DOMAIN observed
               PROVE  LET e == observed[i] IN
         /\ \A id \in e.during : \/ \E j \in DOMAIN phases : id = IdOf(phases[j])
                                 \/ \E q \in {p} : id = IdOf(q)
         /\ \A j \in DOMAIN phases :
              /\ IdOf(phases[j]) \in e.during => Around(phases[j], e)
              /\ phases[j].start < e.time /\ e.time < phases[j].end =>
                   e.during = {IdOf(phases[j])}
         /\ \A q \in {p} :
              /\ IdOf(q) \in e.during =>
                   q.start <= e.time /\ q.experiment = e.experiment
              /\ q.start < e.time => e.during = {IdOf(q)}
    BY <1>6, <1>7 DEF DuringInv, IdOf, Around
  <2>1. /\ \A id \in observed[i].during :
             \E j \in DOMAIN phases : id = IdOf(phases[j])
        /\ \A j \in DOMAIN phases :
             /\ IdOf(phases[j]) \in observed[i].during =>
                  Around(phases[j], observed[i])
             /\ phases[j].start < observed[i].time
                  /\ observed[i].time < phases[j].end =>
                  observed[i].during = {IdOf(phases[j])}
    BY <1>7 DEF EvidenceInv, DuringInv
  <2>2. observed[i].time <= t /\ observed[i].time \in Nat
    BY <1>5, <1>13 DEF EvidenceInv, EventsInv, EvidenceTypes, Events
  <2>3. \A j \in DOMAIN phases : IdOf(phases[j]) # IdOf(p)
    <3> SUFFICES ASSUME NEW j \in DOMAIN phases, IdOf(phases[j]) = IdOf(p)
                 PROVE  FALSE
      OBVIOUS
    <3>1. phases[j].experiment = name /\ phases[j].number = n
      BY <1>9 DEF IdOf
    <3>2. phases[j].number <= n - 1
      BY <3>1, <1>3 DEF EvidenceInv, PhasesInv
    <3> QED BY <3>1, <3>2, <1>3
  <2>4. IdOf(p) \notin observed[i].during
    BY <2>1, <2>3
  <2> QED BY <1>5, <1>9, <2>1, <2>2, <2>4
<1> QED
  BY <1>10, <1>11, <1>14, <1>15, <1>16 DEF EvidenceInv

LEMMA PhaseEndsKeeps ==
  ASSUME EvidenceInv, PhaseEnds
  PROVE  EvidenceInv'
<1>1. PICK p \in open, t \in {clock, clock + 1} :
        /\ clock' = t
        /\ phases' = Append(phases,
             [experiment |-> p.experiment, kind |-> p.kind, number |-> p.number,
              start |-> p.start, end |-> t])
  BY DEF PhaseEnds
<1> DEFINE r == [experiment |-> p.experiment, kind |-> p.kind,
                 number |-> p.number, start |-> p.start, end |-> t]
           m == Len(phases) + 1
<1>2. t \in Nat /\ clock <= t
  BY TimeGoesOn DEF EvidenceInv, EvidenceTypes
<1>3. open = {p} /\ p \in OpenPhases
  BY DEF EvidenceInv, EvidenceTypes
<1>4. r \in EndedPhases
  BY <1>2, <1>3 DEF OpenPhases, EndedPhases
<1>5. /\ r.experiment = p.experiment /\ r.number = p.number
      /\ r.start = p.start /\ r.end = t /\ IdOf(r) = IdOf(p)
  BY DEF IdOf
<1>6. UNCHANGED <<config, running, processes, observed>> /\ open' = {}
  BY DEF PhaseEnds
<1>7. phases' = Append(phases, r) /\ phases \in Seq(EndedPhases)
  BY <1>1 DEF EvidenceInv, EvidenceTypes
<1> HIDE DEF r
<1>8. /\ phases' \in Seq(EndedPhases)
      /\ Len(phases) \in Nat /\ DOMAIN phases = 1..Len(phases)
      /\ DOMAIN phases' = 1..m /\ phases'[m] = r
      /\ \A i \in DOMAIN phases : phases'[i] = phases[i] /\ phases[i] \in EndedPhases
  BY <1>4, <1>7, AppendIs
<1>9. /\ m \notin DOMAIN phases /\ DOMAIN phases' = DOMAIN phases \cup {m}
      /\ \A i \in DOMAIN phases : i < m
  BY <1>8
<1>10. \A x : Cardinality(In(phases', x)) =
          IF r.experiment = x THEN Cardinality(In(phases, x)) + 1
                              ELSE Cardinality(In(phases, x))
  BY <1>4, <1>7, Counted
<1>11. \A x : Cardinality(In(phases, x)) \in Nat
  BY <1>7, InIsFinite
<1>12. \A i \in DOMAIN phases :
         /\ phases[i].start \in Nat /\ phases[i].end \in Nat
         /\ phases[i].number \in Nat /\ phases[i].end <= clock
  BY <1>8 DEF EndedPhases, EvidenceInv, PhasesInv
<1>13. p.start \in Nat /\ p.number \in Nat /\ p.start <= clock
  BY <1>3 DEF OpenPhases, EvidenceInv, PhasesInv
<1>14. EvidenceTypes'
  BY <1>1, <1>2, <1>6, <1>8 DEF EvidenceInv, EvidenceTypes
<1>15. RunningInv'
  BY <1>6 DEF EvidenceInv, RunningInv
<1>16. PhasesInv'
  <2>1. \A i \in DOMAIN phases' :
        /\ phases'[i].start <= phases'[i].end /\ phases'[i].end <= clock'
        /\ phases'[i].number <= Cardinality(In(phases', phases'[i].experiment))
    <3> SUFFICES ASSUME NEW i \in DOMAIN phases'
                 PROVE  /\ phases'[i].start <= phases'[i].end
                        /\ phases'[i].end <= t
                        /\ phases'[i].number <=
                             Cardinality(In(phases', phases'[i].experiment))
      BY <1>1
    <3>1. CASE i \in DOMAIN phases
      <4>1. phases[i].number <= Cardinality(In(phases, phases[i].experiment))
        BY <3>1 DEF EvidenceInv, PhasesInv, PhasesOf, In
      <4>2. phases[i].start <= phases[i].end
        BY <3>1 DEF EvidenceInv, PhasesInv
      <4>3. Cardinality(In(phases, phases[i].experiment))
              <= Cardinality(In(phases', phases[i].experiment))
        BY <1>10, <1>11
      <4>4. Cardinality(In(phases', phases[i].experiment)) \in Nat
        BY <1>10, <1>11
      <4>5. phases'[i] = phases[i] /\ clock \in Nat
        BY <1>8, <3>1 DEF EvidenceInv, EvidenceTypes
      <4> QED BY <1>2, <1>11, <1>12, <3>1, <4>1, <4>2, <4>3, <4>4, <4>5
    <3>2. CASE i = m
      <4>1. p.number = Cardinality(In(phases, p.experiment)) + 1
        BY DEF EvidenceInv, PhasesInv, PhasesOf, In
      <4>2. Cardinality(In(phases', p.experiment)) = p.number
        BY <1>5, <1>10, <4>1
      <4>3. phases'[i] = r /\ clock \in Nat
        BY <1>8, <3>2 DEF EvidenceInv, EvidenceTypes
      <4> QED BY <1>2, <1>5, <1>13, <4>2, <4>3
    <3> QED BY <1>9, <3>1, <3>2
  <2>2. \A i, j \in DOMAIN phases' : i < j =>
          /\ phases'[i].end <= phases'[j].start
          /\ phases'[i].experiment = phases'[j].experiment =>
               phases'[i].number < phases'[j].number
    <3> SUFFICES ASSUME NEW i \in DOMAIN phases', NEW j \in DOMAIN phases', i < j
                 PROVE  /\ phases'[i].end <= phases'[j].start
                        /\ phases'[i].experiment = phases'[j].experiment =>
                             phases'[i].number < phases'[j].number
      OBVIOUS
    <3>1. i \in DOMAIN phases /\ phases'[i] = phases[i]
      BY <1>8
    <3>2. CASE j \in DOMAIN phases
      BY <1>8, <3>1, <3>2 DEF EvidenceInv, PhasesInv
    <3>3. CASE j = m
      <4>1. phases[i].end <= p.start
        BY <3>1 DEF EvidenceInv, PhasesInv
      <4>2. p.number = Cardinality(In(phases, p.experiment)) + 1
        BY DEF EvidenceInv, PhasesInv, PhasesOf, In
      <4>3. phases[i].number <= Cardinality(In(phases, phases[i].experiment))
        BY <3>1 DEF EvidenceInv, PhasesInv, PhasesOf, In
      <4>4. phases'[j] = r
        BY <1>8, <3>3
      <4> QED BY <1>5, <1>11, <1>12, <3>1, <4>1, <4>2, <4>3, <4>4
    <3> QED BY <1>9, <3>2, <3>3
  <2> QED BY <1>6, <2>1, <2>2 DEF PhasesInv, PhasesOf, In
<1>17. \A i \in DOMAIN observed : observed[i] \in Events
  BY ElementOfSeq, LenProperties DEF EvidenceInv, EvidenceTypes
<1>18. EventsInv'
  <2>1. \A i \in DOMAIN observed : observed[i].time \in Nat
    BY <1>17 DEF Events
  <2>2. \A x : EventsIn(x)' = EventsIn(x)
    BY <1>6 DEF EventsIn
  <2> QED BY <1>1, <1>2, <1>6, <2>1, <2>2
    DEF EvidenceInv, EvidenceTypes, EventsInv
<1>19. DuringInv'
  <2> SUFFICES ASSUME NEW i \in DOMAIN observed
               PROVE  LET e == observed[i] IN
         /\ \A id \in e.during : \E j \in DOMAIN phases' : id = IdOf(phases'[j])
         /\ \A j \in DOMAIN phases' :
              /\ IdOf(phases'[j]) \in e.during => Around(phases'[j], e)
              /\ phases'[j].start < e.time /\ e.time < phases'[j].end =>
                   e.during = {IdOf(phases'[j])}
    BY <1>6 DEF DuringInv, IdOf, Around
  <2>1. /\ \A id \in observed[i].during :
             \/ \E j \in DOMAIN phases : id = IdOf(phases[j])
             \/ id = IdOf(p)
        /\ \A j \in DOMAIN phases :
             /\ IdOf(phases[j]) \in observed[i].during =>
                  Around(phases[j], observed[i])
             /\ phases[j].start < observed[i].time
                  /\ observed[i].time < phases[j].end =>
                  observed[i].during = {IdOf(phases[j])}
        /\ IdOf(p) \in observed[i].during =>
             p.start <= observed[i].time /\ p.experiment = observed[i].experiment
        /\ p.start < observed[i].time => observed[i].during = {IdOf(p)}
    BY <1>3 DEF EvidenceInv, DuringInv
  <2>2. observed[i].time <= t /\ observed[i].time \in Nat
    BY <1>2, <1>17 DEF EvidenceInv, EventsInv, EvidenceTypes, Events
  <2>3. \A id \in observed[i].during :
          \E j \in DOMAIN phases' : id = IdOf(phases'[j])
    BY <1>5, <1>8, <1>9, <2>1
  <2>4. \A j \in DOMAIN phases' :
          /\ IdOf(phases'[j]) \in observed[i].during =>
               Around(phases'[j], observed[i])
          /\ phases'[j].start < observed[i].time
               /\ observed[i].time < phases'[j].end =>
               observed[i].during = {IdOf(phases'[j])}
    <3> SUFFICES ASSUME NEW j \in DOMAIN phases'
                 PROVE  /\ IdOf(phases'[j]) \in observed[i].during =>
                             Around(phases'[j], observed[i])
                        /\ phases'[j].start < observed[i].time
                             /\ observed[i].time < phases'[j].end =>
                             observed[i].during = {IdOf(phases'[j])}
      OBVIOUS
    <3>1. CASE j \in DOMAIN phases
      BY <1>8, <2>1, <3>1
    <3>2. CASE j = m
      <4>1. phases'[j] = r
        BY <1>8, <3>2
      <4> QED BY <1>5, <2>1, <2>2, <4>1 DEF Around
    <3> QED BY <1>9, <3>1, <3>2
  <2> QED BY <2>3, <2>4
<1> QED
  BY <1>14, <1>15, <1>16, <1>18, <1>19 DEF EvidenceInv

LEMMA ObserveKeeps ==
  ASSUME EvidenceInv, running # <<>>,
         NEW process \in {"root", "child"}, NEW effect \in EffectsPossible,
         Observe(process, effect), processes' \subseteq {"root", "child"},
         UNCHANGED <<config, running, open, phases>>
  PROVE  EvidenceInv'
<1> DEFINE name == Head(running)
           count == Cardinality(EventsIn(name))
           m == Len(observed) + 1
<1>1. PICK t \in {clock, clock + 1} :
        /\ clock' = t
        /\ observed' = Append(observed,
             [experiment |-> name, process |-> <<name, process>>,
              sequence |-> count + 1, time |-> t, effect |-> effect,
              during |-> {IdOf(p) : p \in open}])
  BY DEF Observe
<1> DEFINE r == [experiment |-> name, process |-> <<name, process>>,
                 sequence |-> count + 1, time |-> t, effect |-> effect,
                 during |-> {IdOf(p) : p \in open}]
<1>2. t \in Nat /\ clock <= t /\ clock \in Nat
  BY TimeGoesOn DEF EvidenceInv, EvidenceTypes
<1>3. name \in Names
  BY HeadTailProperties DEF EvidenceInv, EvidenceTypes
<1>4. observed \in Seq(Events) /\ observed' = Append(observed, r)
  BY <1>1 DEF EvidenceInv, EvidenceTypes
<1>5. \A x : EventsIn(x) = In(observed, x) /\ Cardinality(In(observed, x)) \in Nat
  BY <1>4, InIsFinite DEF EventsIn, In
<1>6. \A p \in open : IdOf(p) \in Names \X Kinds \X Nat
  BY DEF IdOf, EvidenceInv, EvidenceTypes, OpenPhases
<1>7. r \in Events
  BY <1>2, <1>3, <1>5, <1>6 DEF Events
<1>8. /\ r.experiment = name /\ r.process[1] = name
      /\ r.sequence = Cardinality(In(observed, name)) + 1
      /\ r.time = t /\ r.during = {IdOf(p) : p \in open}
  BY <1>5
<1> HIDE DEF r, name
<1>9. /\ observed' \in Seq(Events)
      /\ Len(observed) \in Nat /\ DOMAIN observed = 1..Len(observed)
      /\ DOMAIN observed' = 1..m /\ observed'[m] = r
      /\ \A i \in DOMAIN observed :
           observed'[i] = observed[i] /\ observed[i] \in Events
  BY <1>4, <1>7, AppendIs
<1>10. /\ m \notin DOMAIN observed /\ DOMAIN observed' = DOMAIN observed \cup {m}
       /\ \A i \in DOMAIN observed : i < m
  BY <1>9
<1>11. \A x : Cardinality(In(observed', x)) =
          IF r.experiment = x THEN Cardinality(In(observed, x)) + 1
                              ELSE Cardinality(In(observed, x))
  BY <1>4, <1>7, Counted
<1>12. \A i \in DOMAIN observed :
         /\ observed[i].time \in Nat /\ observed[i].sequence \in Nat
         /\ observed[i].time <= clock
         /\ observed[i].sequence
              <= Cardinality(In(observed, observed[i].experiment))
         /\ observed[i].process[1] = observed[i].experiment
  BY <1>5, <1>9 DEF Events, EvidenceInv, EventsInv
<1>13. EvidenceTypes'
  BY <1>1, <1>2, <1>9 DEF EvidenceInv, EvidenceTypes
<1>14. RunningInv'
  BY DEF EvidenceInv, RunningInv
<1>15. \A i \in DOMAIN phases :
         /\ phases[i].start \in Nat /\ phases[i].end \in Nat
         /\ phases[i].end <= clock
  <2>1. \A i \in DOMAIN phases : phases[i] \in EndedPhases
    BY ElementOfSeq, LenProperties DEF EvidenceInv, EvidenceTypes
  <2> QED BY <2>1 DEF EndedPhases, EvidenceInv, PhasesInv
<1>16. \A p \in open : p.start \in Nat /\ p.start <= clock
  BY DEF OpenPhases, EvidenceInv, EvidenceTypes, PhasesInv
<1>17. PhasesInv'
  <2>1. \A x : PhasesOf(x)' = PhasesOf(x)
    BY DEF PhasesOf
  <2>2. \A i \in DOMAIN phases : phases[i].end <= clock'
    BY <1>1, <1>2, <1>15
  <2>3. \A p \in open : p.start <= clock'
    BY <1>1, <1>2, <1>16
  <2> QED BY <2>1, <2>2, <2>3 DEF EvidenceInv, PhasesInv
<1>18. EventsInv'
  <2>1. \A i \in DOMAIN observed' :
          /\ observed'[i].time <= clock'
          /\ observed'[i].sequence
               <= Cardinality(In(observed', observed'[i].experiment))
          /\ observed'[i].process[1] = observed'[i].experiment
    <3> SUFFICES ASSUME NEW i \in DOMAIN observed'
                 PROVE  /\ observed'[i].time <= t
                        /\ observed'[i].sequence
                             <= Cardinality(In(observed', observed'[i].experiment))
                        /\ observed'[i].process[1] = observed'[i].experiment
      BY <1>1
    <3>1. CASE i \in DOMAIN observed
      <4>1. Cardinality(In(observed, observed[i].experiment))
              <= Cardinality(In(observed', observed[i].experiment))
        BY <1>5, <1>11
      <4>2. Cardinality(In(observed', observed[i].experiment)) \in Nat
        BY <1>5, <1>11
      <4>3. observed'[i] = observed[i]
        BY <1>9, <3>1
      <4> QED BY <1>2, <1>5, <1>12, <3>1, <4>1, <4>2, <4>3
    <3>2. CASE i = m
      <4>1. observed'[i] = r
        BY <1>9, <3>2
      <4>2. Cardinality(In(observed', name)) = r.sequence
        BY <1>8, <1>11
      <4>3. r.sequence \in Nat
        BY <1>5, <1>8
      <4> QED BY <1>2, <1>8, <4>1, <4>2, <4>3
    <3> QED BY <1>10, <3>1, <3>2
  <2>2. \A i, j \in DOMAIN observed' : i < j =>
          /\ observed'[i].time <= observed'[j].time
          /\ observed'[i].experiment = observed'[j].experiment =>
               observed'[i].sequence < observed'[j].sequence
    <3> SUFFICES ASSUME NEW i \in DOMAIN observed', NEW j \in DOMAIN observed', i < j
                 PROVE  /\ observed'[i].time <= observed'[j].time
                        /\ observed'[i].experiment = observed'[j].experiment =>
                             observed'[i].sequence < observed'[j].sequence
      OBVIOUS
    <3>1. i \in DOMAIN observed /\ observed'[i] = observed[i]
      BY <1>9
    <3>2. CASE j \in DOMAIN observed
      BY <1>9, <3>1, <3>2 DEF EvidenceInv, EventsInv
    <3>3. CASE j = m
      <4>1. observed'[j] = r
        BY <1>9, <3>3
      <4> QED BY <1>2, <1>5, <1>8, <1>12, <3>1, <4>1
    <3> QED BY <1>10, <3>2, <3>3
  <2> QED BY <2>1, <2>2 DEF EventsInv, EventsIn, In
<1>19. DuringInv'
  <2>1. \A e : (\A i \in DOMAIN observed : e = observed[i] =>
          /\ \A id \in e.during : \/ \E j \in DOMAIN phases : id = IdOf(phases[j])
                                  \/ \E p \in open : id = IdOf(p)
          /\ \A j \in DOMAIN phases :
               /\ IdOf(phases[j]) \in e.during => Around(phases[j], e)
               /\ phases[j].start < e.time /\ e.time < phases[j].end =>
                    e.during = {IdOf(phases[j])}
          /\ \A p \in open :
               /\ IdOf(p) \in e.during =>
                    p.start <= e.time /\ p.experiment = e.experiment
               /\ p.start < e.time => e.during = {IdOf(p)})
    BY DEF EvidenceInv, DuringInv
  <2>2. /\ \A id \in r.during : \E p \in open : id = IdOf(p)
        /\ \A j \in DOMAIN phases :
             /\ IdOf(phases[j]) \in r.during => Around(phases[j], r)
             /\ phases[j].start < r.time /\ r.time < phases[j].end =>
                  r.during = {IdOf(phases[j])}
        /\ \A p \in open :
             /\ IdOf(p) \in r.during =>
                  p.start <= r.time /\ p.experiment = r.experiment
             /\ p.start < r.time => r.during = {IdOf(p)}
    <3>1. \A id \in r.during : \E p \in open : id = IdOf(p)
      BY <1>8
    <3>2. \A j \in DOMAIN phases : ~ (r.time < phases[j].end)
      BY <1>2, <1>8, <1>15
    <3>3. \A j \in DOMAIN phases : IdOf(phases[j]) \notin r.during
      <4> SUFFICES ASSUME NEW j \in DOMAIN phases, NEW p \in open,
                          IdOf(phases[j]) = IdOf(p)
                   PROVE  FALSE
        BY <1>8
      <4>1. /\ phases[j].experiment = p.experiment
            /\ phases[j].number = p.number
        BY DEF IdOf
      <4>2. /\ p.number = Cardinality(PhasesOf(p.experiment)) + 1
            /\ phases[j].number <= Cardinality(PhasesOf(phases[j].experiment))
        BY DEF EvidenceInv, PhasesInv
      <4>3. Cardinality(PhasesOf(p.experiment)) \in Nat
        BY InIsFinite DEF EvidenceInv, EvidenceTypes, In, PhasesOf
      <4> QED BY <4>1, <4>2, <4>3
    <3>4. \A p \in open : /\ r.during = {IdOf(p)} /\ p.start <= r.time
                          /\ p.experiment = r.experiment
      <4>1. \A p, q \in open : p = q
        BY DEF EvidenceInv, EvidenceTypes
      <4>2. \A p \in open : p.experiment = name
        BY DEF EvidenceInv, RunningInv, name
      <4>3. \A p \in open : p.start <= t
        BY <1>2, <1>16
      <4> QED BY <1>8, <4>1, <4>2, <4>3
    <3> QED BY <3>1, <3>2, <3>3, <3>4
  <2>3. \A i \in DOMAIN observed' :
          observed'[i] = r \/ (i \in DOMAIN observed /\ observed'[i] = observed[i])
    BY <1>9, <1>10
  <2> SUFFICES ASSUME NEW i \in DOMAIN observed'
               PROVE  LET e == observed'[i] IN
         /\ \A id \in e.during : \/ \E j \in DOMAIN phases : id = IdOf(phases[j])
                                 \/ \E p \in open : id = IdOf(p)
         /\ \A j \in DOMAIN phases :
              /\ IdOf(phases[j]) \in e.during => Around(phases[j], e)
              /\ phases[j].start < e.time /\ e.time < phases[j].end =>
                   e.during = {IdOf(phases[j])}
         /\ \A p \in open :
              /\ IdOf(p) \in e.during =>
                   p.start <= e.time /\ p.experiment = e.experiment
              /\ p.start < e.time => e.during = {IdOf(p)}
    BY DEF DuringInv, IdOf, Around
  <2>4. CASE observed'[i] = r
    BY <2>2, <2>4
  <2>5. CASE i \in DOMAIN observed /\ observed'[i] = observed[i]
    BY <2>1, <2>5
  <2> QED BY <2>3, <2>4, <2>5
<1> QED
  BY <1>13, <1>14, <1>17, <1>18, <1>19 DEF EvidenceInv

LEMMA EvidenceKept ==
  ASSUME EvidenceInv, UNCHANGED evidenceVars
  PROVE  EvidenceInv'
<1> USE DEF evidenceVars
<1>1. EvidenceTypes'
  BY DEF EvidenceInv, EvidenceTypes
<1>2. RunningInv'
  BY DEF EvidenceInv, RunningInv
<1>3. PhasesInv'
  BY DEF EvidenceInv, PhasesInv, PhasesOf
<1>4. EventsInv'
  BY DEF EvidenceInv, EventsInv, EventsIn
<1>5. DuringInv'
  BY DEF EvidenceInv, DuringInv, IdOf, Around
<1> QED
  BY <1>1, <1>2, <1>3, <1>4, <1>5 DEF EvidenceInv

(* The session's end changes nothing the events are looked up in.          *)
LEMMA ExperimentEndsKeeps ==
  ASSUME EvidenceInv, ExperimentEnds
  PROVE  EvidenceInv'
<1>1. running # <<>> /\ running' = Tail(running) /\ processes' = {} /\ open = {}
  BY DEF ExperimentEnds
<1>2. UNCHANGED <<config, open, phases, observed, clock>>
  BY DEF ExperimentEnds
<1>3. running' \in Seq(Names)
  BY <1>1, HeadTailProperties DEF EvidenceInv, EvidenceTypes
<1>4. EvidenceTypes'
  BY <1>1, <1>2, <1>3 DEF EvidenceInv, EvidenceTypes
<1>5. RunningInv'
  BY <1>1, <1>2 DEF RunningInv
<1>6. PhasesInv'
  BY <1>2 DEF EvidenceInv, PhasesInv, PhasesOf
<1>7. EventsInv'
  BY <1>2 DEF EvidenceInv, EventsInv, EventsIn
<1>8. DuringInv'
  BY <1>2 DEF EvidenceInv, DuringInv, IdOf, Around
<1> QED
  BY <1>4, <1>5, <1>6, <1>7, <1>8 DEF EvidenceInv

LEMMA EvidenceStepKeeps ==
  ASSUME EvidenceInv, EvidenceStep
  PROVE  EvidenceInv' /\ running # <<>> /\ UNCHANGED <<attributions, findings>>
<1>1. CASE PhaseStarts
  BY <1>1, PhaseStartsKeeps DEF PhaseStarts
<1>2. CASE PhaseEnds
  BY <1>2, PhaseEndsKeeps DEF PhaseEnds, EvidenceInv, RunningInv
<1>3. CASE ServerStarts
  <2>1. [kind |-> "process.start", child |-> FALSE] \in EffectsPossible
    BY DEF EffectsPossible, Starts
  <2>2. running # <<>>
    BY <1>3 DEF ServerStarts, EvidenceInv, RunningInv
  <2> QED BY <1>3, <2>1, <2>2, ObserveKeeps DEF ServerStarts
<1>4. CASE ChildSpawned
  <2>1. [kind |-> "process.start", child |-> TRUE] \in EffectsPossible
    BY DEF EffectsPossible, Starts
  <2>2. running # <<>>
    BY <1>4 DEF ChildSpawned, EvidenceInv, RunningInv
  <2>3. processes' \subseteq {"root", "child"}
    BY <1>4 DEF ChildSpawned, EvidenceInv, EvidenceTypes
  <2> QED BY <1>4, <2>1, <2>2, <2>3, ObserveKeeps DEF ChildSpawned
<1>5. CASE ProcessActs
  <2>1. running # <<>>
    BY <1>5 DEF ProcessActs, EvidenceInv, RunningInv
  <2>2. PICK process \in processes,
             effect \in IF Effects = <<>> THEN FirstEffects ELSE LaterEffects :
          Observe(process, effect)
    BY <1>5 DEF ProcessActs
  <2>3. process \in {"root", "child"} /\ effect \in EffectsPossible
    BY DEF EffectsPossible, EvidenceInv, EvidenceTypes
  <2>4. UNCHANGED <<config, running, open, phases, processes, attributions, findings>>
    BY <1>5 DEF ProcessActs
  <2>5. processes' \subseteq {"root", "child"}
    BY <2>4 DEF EvidenceInv, EvidenceTypes
  <2> QED BY <2>1, <2>2, <2>3, <2>4, <2>5, ObserveKeeps
<1>6. CASE ExperimentEnds
  BY <1>6, ExperimentEndsKeeps DEF ExperimentEnds
<1> QED
  BY <1>1, <1>2, <1>3, <1>4, <1>5, <1>6 DEF EvidenceStep

(* The attributions of an evidence that does not change.                   *)
LEMMA AttributedKept ==
  ASSUME UNCHANGED <<phases, observed>>
  PROVE  Attributed' = Attributed
<1>1. \A e : ActivePhase(e)' = ActivePhase(e)
  BY DEF ActivePhase, Around
<1>2. \A e : OriginPhase(e)' = OriginPhase(e)
  BY DEF OriginPhase, ActivePhase, Around, Earlier
<1>3. \A e : Attribution(e)' = Attribution(e)
  BY <1>1, <1>2 DEF Attribution
<1> QED
  BY <1>3 DEF Attributed, EventId

LEMMA ReportStepKeeps ==
  ASSUME EvidenceInv, AttributionInv, [ReportNext]_reportVars
  PROVE  EvidenceInv' /\ AttributionInv'
<1>1. CASE EvidenceStep
  BY <1>1, EvidenceStepKeeps DEF AttributionInv
<1>2. CASE AttributeEvents
  <2>1. UNCHANGED evidenceVars /\ running = <<>> /\ attributions' = {Attributed}
    BY <1>2 DEF AttributeEvents, Attributed
  <2>2. Attributed' = Attributed
    BY <2>1, AttributedKept DEF evidenceVars
  <2>3. running' = running
    BY <2>1 DEF evidenceVars
  <2> QED BY <2>1, <2>2, <2>3, EvidenceKept DEF AttributionInv
<1>3. CASE UNCHANGED <<evidenceVars, attributions>>
  <2>1. Attributed' = Attributed
    BY <1>3, AttributedKept DEF evidenceVars
  <2>2. running' = running
    BY <1>3 DEF evidenceVars
  <2> QED BY <1>3, <2>1, <2>2, EvidenceKept DEF AttributionInv
<1>4. CASE EvaluateRules
  BY <1>3, <1>4 DEF EvaluateRules
<1>5. CASE WriteReport
  BY <1>3, <1>5 DEF WriteReport, observedVars
<1>6. CASE UNCHANGED reportVars
  BY <1>3, <1>6 DEF reportVars, observedVars
<1> QED
  BY <1>1, <1>2, <1>4, <1>5, <1>6 DEF ReportNext

(* The evidence is in order, and the attributions are made from all of it. *)
(* (attribute.ts:51, stdio.ts:638.)                                        *)
THEOREM EvidenceInvariant == ReportSpec => [](EvidenceInv /\ AttributionInv)
<1>1. ReportInit => EvidenceInv /\ AttributionInv
  BY EvidenceInitially DEF ReportInit
<1>2. (EvidenceInv /\ AttributionInv) /\ [ReportNext]_reportVars
        => (EvidenceInv /\ AttributionInv)'
  BY ReportStepKeeps
<1> QED
  BY <1>1, <1>2, PTL DEF ReportSpec

-----------------------------------------------------------------------------
(* A set of numbers has a least member, and one of indices a greatest.     *)
LEMMA LeastIndex ==
  ASSUME NEW S \in SUBSET Nat, S # {}
  PROVE  \E n \in S : \A m \in S : n <= m
<1>1. IsWellFoundedOn(OpToRel(<, Nat), Nat)
  BY NatLessThanWellFounded
<1>2. PICK n \in S : \A m \in S : ~ (<<m, n>> \in OpToRel(<, Nat))
  BY <1>1, WFMin
<1>3. \A m \in S : ~ (m < n)
  BY <1>2 DEF OpToRel
<1> QED
  BY <1>3

LEMMA GreatestIndex ==
  ASSUME NEW n \in Nat, NEW S \in SUBSET (1..n), S # {}
  PROVE  \E k \in S : \A m \in S : m <= k
<1> DEFINE T == {n - m : m \in S}
<1>1. T \in SUBSET Nat /\ T # {}
  <2>1. \A m \in S : m \in 1..n /\ n - m \in Nat
    OBVIOUS
  <2> QED BY <2>1
<1>2. PICK t \in T : \A u \in T : t <= u
  <2> HIDE DEF T
  <2> QED BY <1>1, LeastIndex
<1>3. PICK k \in S : t = n - k
  BY <1>2
<1>4. \A m \in S : n - k <= n - m
  BY <1>2, <1>3
<1> QED
  BY <1>4

(* The phases and the events, one by one.                                  *)
LEMMA PhaseIs ==
  ASSUME EvidenceInv, NEW i \in DOMAIN phases
  PROVE  /\ i \in Nat /\ phases[i].start \in Nat /\ phases[i].end \in Nat
         /\ phases[i].number \in Nat /\ phases[i].start <= phases[i].end
<1>1. phases \in Seq(EndedPhases)
  BY DEF EvidenceInv, EvidenceTypes
<1>2. i \in Nat /\ i \in 1..Len(phases)
  BY <1>1, LenProperties
<1>3. phases[i] \in EndedPhases
  BY <1>1, <1>2, ElementOfSeq
<1>4. phases[i].start <= phases[i].end
  BY DEF EvidenceInv, PhasesInv
<1> QED
  BY <1>2, <1>3, <1>4 DEF EndedPhases

LEMMA EventIs ==
  ASSUME EvidenceInv, NEW i \in DOMAIN observed
  PROVE  /\ i \in Nat /\ observed[i].time \in Nat
         /\ observed[i].sequence \in Nat /\ observed[i].effect \in EffectsPossible
         /\ observed[i].process[1] = observed[i].experiment
         /\ observed[i].experiment \in Names
<1>1. observed \in Seq(Events)
  BY DEF EvidenceInv, EvidenceTypes
<1>2. i \in Nat /\ i \in 1..Len(observed)
  BY <1>1, LenProperties
<1>3. observed[i] \in Events
  BY <1>1, <1>2, ElementOfSeq
<1>4. observed[i].process[1] = observed[i].experiment
  BY DEF EvidenceInv, EventsInv
<1> QED
  BY <1>2, <1>3, <1>4 DEF Events

(* Numbers tell the phases and the events of an experiment apart.          *)
LEMMA PhasesApart ==
  ASSUME EvidenceInv, NEW i \in DOMAIN phases, NEW j \in DOMAIN phases,
         IdOf(phases[i]) = IdOf(phases[j])
  PROVE  i = j
<1>1. /\ phases[i].experiment = phases[j].experiment
      /\ phases[i].number = phases[j].number
  BY DEF IdOf
<1>2. phases[i].number \in Nat /\ i \in Nat /\ j \in Nat
  BY PhaseIs
<1>3. ~ (i < j) /\ ~ (j < i)
  BY <1>1, <1>2 DEF EvidenceInv, PhasesInv
<1> QED
  BY <1>2, <1>3

LEMMA EventsApart ==
  ASSUME EvidenceInv, NEW i \in DOMAIN observed, NEW j \in DOMAIN observed,
         EventId(observed[i]) = EventId(observed[j])
  PROVE  i = j
<1>1. /\ observed[i].experiment = observed[j].experiment
      /\ observed[i].sequence = observed[j].sequence
  BY DEF EventId
<1>2. observed[i].sequence \in Nat /\ i \in Nat /\ j \in Nat
  BY EventIs
<1>3. ~ (i < j) /\ ~ (j < i)
  BY <1>1, <1>2 DEF EvidenceInv, EventsInv
<1> QED
  BY <1>2, <1>3

LEMMA InSequence ==
  ASSUME NEW s, NEW x
  PROVE  x \in ToSet(s) <=> \E i \in DOMAIN s : x = s[i]
BY DEF ToSet

LEMMA EventNamed ==
  ASSUME EvidenceInv, NEW e \in ToSet(observed)
  PROVE  (CHOOSE d \in ToSet(observed) : EventId(d) = EventId(e)) = e
<1> DEFINE c == CHOOSE d \in ToSet(observed) : EventId(d) = EventId(e)
<1>1. c \in ToSet(observed) /\ EventId(c) = EventId(e)
  OBVIOUS
<1> HIDE DEF c
<1>2. PICK i \in DOMAIN observed, j \in DOMAIN observed :
        c = observed[i] /\ e = observed[j]
  BY <1>1, InSequence
<1> QED
  BY <1>1, <1>2, EventsApart DEF c

LEMMA OfIs ==
  ASSUME EvidenceInv, attributions = {Attributed}, NEW e \in ToSet(observed)
  PROVE  Of(e) = Attribution(e)
<1>1. (CHOOSE a \in attributions : TRUE) = Attributed
  OBVIOUS
<1>2. Attributed[EventId(e)] = Attribution(e)
  BY EventNamed DEF Attributed
<1> QED
  BY <1>1, <1>2 DEF Of

(* At most one phase is active, and one is as soon as one is around.       *)
LEMMA ActiveIs ==
  ASSUME EvidenceInv, NEW e \in ToSet(observed)
  PROVE  /\ \A p \in ActivePhase(e) :
              \E j \in DOMAIN phases : p = phases[j] /\ Around(p, e)
         /\ \A p, q \in ActivePhase(e) : p = q
         /\ \A i \in DOMAIN phases : Around(phases[i], e) =>
              \E j \in DOMAIN phases :
                /\ i <= j /\ Around(phases[j], e)
                /\ ActivePhase(e) = {phases[j]}
<1>1. /\ \A i \in DOMAIN phases :
           /\ i \in Nat /\ phases[i].start \in Nat /\ phases[i].end \in Nat
           /\ phases[i].start <= phases[i].end
      /\ \A i, j \in DOMAIN phases : i < j => phases[i].end <= phases[j].start
      /\ Len(phases) \in Nat /\ DOMAIN phases = 1..Len(phases)
  <2>1. \A i \in DOMAIN phases :
          /\ i \in Nat /\ phases[i].start \in Nat /\ phases[i].end \in Nat
          /\ phases[i].start <= phases[i].end
    BY PhaseIs
  <2>2. \A i, j \in DOMAIN phases : i < j => phases[i].end <= phases[j].start
    BY DEF EvidenceInv, PhasesInv
  <2>3. phases \in Seq(EndedPhases)
    BY DEF EvidenceInv, EvidenceTypes
  <2> QED BY <2>1, <2>2, <2>3, LenProperties
<1> DEFINE around == {j \in DOMAIN phases : Around(phases[j], e)}
           active == {j \in around : \A k \in around : k <= j}
<1>2. \A j, k \in DOMAIN phases : k <= j <=>
        \/ phases[k].start < phases[j].start
        \/ phases[k].start = phases[j].start /\ k <= j
  BY <1>1
<1>3. ActivePhase(e) = {phases[j] : j \in active}
  BY <1>2 DEF ActivePhase
<1>4. \A j, k \in active : j = k
  BY <1>1
<1>5. ASSUME NEW i \in around
      PROVE  \E j \in active : i <= j
  <2>1. around \in SUBSET (1..Len(phases)) /\ Len(phases) \in Nat
    BY <1>1
  <2>2. PICK j \in around : \A k \in around : k <= j
    <3> HIDE DEF around
    <3> QED BY <1>5, <2>1, GreatestIndex
  <2> QED BY <2>2
<1> QED
  BY <1>3, <1>4, <1>5

(* The first event of a process is the earliest, and it is named.          *)
FirstOf(own) == CHOOSE d \in own : \A b \in own : d.sequence <= b.sequence
OwnOf(e) ==
  {observed[j] : j \in {k \in DOMAIN observed : observed[k].process = e.process}}

LEMMA FirstIs ==
  ASSUME EvidenceInv, NEW e \in ToSet(observed),
         NEW d \in OwnOf(e), \A b \in OwnOf(e) : Earlier(d, b)
  PROVE  FirstOf(OwnOf(e)) = d
<1> DEFINE own == OwnOf(e)
           first == FirstOf(own)
<1>1. /\ \A i \in DOMAIN observed :
           /\ i \in Nat /\ observed[i].time \in Nat
           /\ observed[i].sequence \in Nat
           /\ observed[i].process[1] = observed[i].experiment
      /\ \A i, j \in DOMAIN observed : i < j =>
           /\ observed[i].time <= observed[j].time
           /\ observed[i].experiment = observed[j].experiment =>
                observed[i].sequence < observed[j].sequence
  <2>1. \A i, j \in DOMAIN observed : i < j =>
          /\ observed[i].time <= observed[j].time
          /\ observed[i].experiment = observed[j].experiment =>
               observed[i].sequence < observed[j].sequence
    BY DEF EvidenceInv, EventsInv
  <2> QED BY <2>1, EventIs
<1>2. PICK k \in DOMAIN observed :
        d = observed[k] /\ observed[k].process = e.process
  BY DEF OwnOf
<1>3. \A b \in own : b.sequence \in Nat
  BY <1>1 DEF OwnOf
<1>4. PICK n \in {b.sequence : b \in own} : \A m \in {b.sequence : b \in own} : n <= m
  <2>1. {b.sequence : b \in own} \in SUBSET Nat /\ {b.sequence : b \in own} # {}
    BY <1>3
  <2> QED BY <2>1, LeastIndex
<1>5. \E b \in own : \A c \in own : b.sequence <= c.sequence
  BY <1>4
<1>6. first \in own /\ \A b \in own : first.sequence <= b.sequence
  BY <1>5 DEF FirstOf
<1> HIDE DEF first
<1>7. PICK i \in DOMAIN observed :
        first = observed[i] /\ observed[i].process = e.process
  BY <1>6 DEF OwnOf
<1>8. observed[i].experiment = observed[k].experiment
  BY <1>1, <1>2, <1>7
<1>9. observed[i].sequence <= observed[k].sequence
  BY <1>2, <1>6, <1>7
<1>10. i <= k
  BY <1>1, <1>8, <1>9
<1>11. observed[i].time <= observed[k].time
  BY <1>1, <1>10
<1>12. Earlier(observed[k], observed[i])
  BY <1>2, <1>6, <1>7
<1>13. observed[k].sequence <= observed[i].sequence
  BY <1>1, <1>11, <1>12 DEF Earlier
<1>14. i = k
  BY <1>1, <1>8, <1>9, <1>13
<1> QED
  BY <1>2, <1>7, <1>14 DEF first

(* What an attribution says of the phases of an event.                     *)
HappenedIn(d, p) == d.during = {IdOf(p)} \/ d.time \in {p.start, p.end}

LEMMA ActiveHappened ==
  ASSUME EvidenceInv, NEW e \in ToSet(observed), NEW q \in ActivePhase(e),
         NEW p \in ToSet(phases), IdOf(p) = IdOf(q)
  PROVE  p = q /\ HappenedIn(e, p)
<1>1. PICK j \in DOMAIN phases : q = phases[j] /\ Around(q, e)
  BY ActiveIs
<1>2. PICK i \in DOMAIN phases : p = phases[i]
  BY InSequence
<1>3. p = q
  BY <1>1, <1>2, PhasesApart
<1>4. PICK k \in DOMAIN observed : e = observed[k]
  BY InSequence
<1>5. q.start < e.time /\ e.time < q.end => e.during = {IdOf(q)}
  BY <1>1, <1>4 DEF EvidenceInv, DuringInv
<1>6. q.start <= e.time /\ e.time <= q.end
  BY <1>1 DEF Around
<1>7. q.start \in Nat /\ q.end \in Nat /\ e.time \in Nat
  BY <1>1, <1>4, PhaseIs, EventIs
<1> QED
  BY <1>3, <1>5, <1>6, <1>7 DEF HappenedIn

LEMMA HighIs ==
  ASSUME NEW active, NEW origin, Confidence(active, origin) = "high"
  PROVE  active # {} /\ SamePhase(origin, active)
<1>1. CASE active # {} /\ SamePhase(origin, active)
  BY <1>1
<1>2. CASE active # {} /\ ~SamePhase(origin, active)
  BY <1>2 DEF Confidence
<1>3. CASE active = {} /\ origin # {}
  BY <1>3 DEF Confidence
<1>4. CASE active = {} /\ origin = {}
  BY <1>4 DEF Confidence
<1> QED
  BY <1>1, <1>2, <1>3, <1>4

LEMMA OverlapIs ==
  ASSUME NEW e, NEW active, NEW origin,
         "tool_phase_temporal_overlap_only" \in Reasons(e, active, origin)
  PROVE  ~ SamePhase(origin, active)
BY DEF Reasons

LEMMA AttributionIs ==
  ASSUME EvidenceInv, AttributionInv
  PROVE  AttributionSound
<1> SUFFICES ASSUME attributions # {}, NEW i \in DOMAIN observed
             PROVE  LET e == observed[i] IN
                    /\ \A p \in ToSet(phases) :
                         /\ IdOf(p) \in Of(e).active => HappenedIn(e, p)
                         /\ IdOf(p) \in Of(e).active /\ Of(e).confidence = "high"
                              => HappenedIn(FirstOf(OwnOf(e)), p)
                         /\ e.during = {IdOf(p)} =>
                              \/ Of(e).active = {IdOf(p)}
                              \/ \E q \in ToSet(phases) :
                                   Of(e).active = {IdOf(q)} /\ q.start = e.time
                    /\ "tool_phase_temporal_overlap_only" \in Of(e).reasons =>
                         Of(e).confidence # "high"
  BY DEF AttributionSound, HappenedIn, FirstOf, OwnOf
<1> DEFINE e == observed[i]
           active == ActivePhase(e)
           origin == OriginPhase(e)
<1>1. e \in ToSet(observed)
  BY InSequence
<1>2. Of(e) = Attribution(e)
  BY <1>1, OfIs DEF AttributionInv
<1>3. /\ Of(e).active = {IdOf(q) : q \in active}
      /\ Of(e).confidence = Confidence(active, origin)
      /\ Of(e).reasons = Reasons(e, active, origin)
  BY <1>2 DEF Attribution
<1>4. "tool_phase_temporal_overlap_only" \in Of(e).reasons =>
        Of(e).confidence # "high"
  BY <1>3, HighIs, OverlapIs
<1>5. ASSUME NEW p \in ToSet(phases), IdOf(p) \in Of(e).active
      PROVE  HappenedIn(e, p)
  BY <1>1, <1>3, <1>5, ActiveHappened
<1>6. ASSUME NEW p \in ToSet(phases), IdOf(p) \in Of(e).active,
             Of(e).confidence = "high"
      PROVE  HappenedIn(FirstOf(OwnOf(e)), p)
  <2>1. IdOf(p) \in {IdOf(q) : q \in origin}
    BY <1>3, <1>6, HighIs DEF SamePhase
  <2>2. PICK q \in origin : IdOf(p) = IdOf(q)
    BY <2>1
  <2>3. PICK d \in OwnOf(e) : (\A b \in OwnOf(e) : Earlier(d, b))
                              /\ q \in ActivePhase(d)
    BY <2>2 DEF OriginPhase, OwnOf
  <2>4. d \in ToSet(observed)
    BY InSequence DEF OwnOf
  <2>5. FirstOf(OwnOf(e)) = d
    BY <1>1, <2>3, FirstIs
  <2> QED BY <2>2, <2>3, <2>4, <2>5, ActiveHappened
<1>7. ASSUME NEW p \in ToSet(phases), e.during = {IdOf(p)}
      PROVE  \/ Of(e).active = {IdOf(p)}
             \/ \E q \in ToSet(phases) :
                  Of(e).active = {IdOf(q)} /\ q.start = e.time
  <2>1. PICK j \in DOMAIN phases : p = phases[j]
    BY InSequence
  <2>2. Around(phases[j], e)
    BY <1>7, <2>1 DEF EvidenceInv, DuringInv
  <2>3. PICK k \in DOMAIN phases : /\ j <= k /\ Around(phases[k], e)
                                   /\ active = {phases[k]}
    BY <1>1, <2>2, ActiveIs
  <2>4. Of(e).active = {IdOf(phases[k])}
    BY <1>3, <2>3
  <2>5. CASE k = j
    BY <2>1, <2>4, <2>5
  <2>6. CASE k # j
    <3>1. phases[j].end <= phases[k].start /\ j \in Nat /\ k \in Nat
      BY <2>3, <2>6, PhaseIs DEF EvidenceInv, PhasesInv
    <3>2. e.time <= phases[j].end /\ phases[k].start <= e.time
      BY <2>2, <2>3 DEF Around
    <3>3. phases[j].end \in Nat /\ phases[k].start \in Nat /\ e.time \in Nat
      BY PhaseIs, EventIs
    <3>4. phases[k].start = e.time
      BY <3>1, <3>2, <3>3
    <3> QED BY <2>4, <3>4, InSequence
  <2> QED BY <2>5, <2>6
<1> QED
  BY <1>4, <1>5, <1>6, <1>7

(* Attributions are sound, whatever happens and however often two steps    *)
(* share a millisecond.  (attribute.ts:9, :83.)                            *)
THEOREM AttributionHolds == ReportSpec => []AttributionSound
BY EvidenceInvariant, AttributionIs, PTL

-----------------------------------------------------------------------------
(* Only the configured experiments run, and only they have events.         *)
Ran == IF config.initialization.enabled THEN Names ELSE {Call}

RanInv ==
  /\ running \in Seq(Ran)
  /\ \A i \in DOMAIN observed : observed[i].experiment \in Ran

LEMMA ExperimentsRan == ToSet(Experiments) = Ran
<1>1. CASE config.initialization.enabled
  <2>1. Experiments = <<Baseline, Call>> /\ Ran = {Baseline, Call}
    BY <1>1 DEF Experiments, Ran, Names
  <2> QED BY <2>1 DEF ToSet
<1>2. CASE ~config.initialization.enabled
  <2>1. Experiments = <<Call>> /\ Ran = {Call}
    BY <1>2 DEF Experiments, Ran
  <2> QED BY <2>1 DEF ToSet
<1> QED
  BY <1>1, <1>2

LEMMA RanInitially ==
  ASSUME ObservedInit
  PROVE  RanInv
<1>1. running = Experiments /\ observed = <<>>
  BY DEF ObservedInit
<1>2. running \in Seq(Ran)
  <2>1. CASE config.initialization.enabled
    <3>1. Experiments = <<Baseline, Call>> /\ Ran = {Baseline, Call}
      BY <2>1 DEF Experiments, Ran, Names
    <3>2. Baseline \in Ran /\ Call \in Ran
      BY <3>1
    <3> QED BY <1>1, <3>1, <3>2, ShortSeq
  <2>2. CASE ~config.initialization.enabled
    <3>1. Experiments = <<Call>> /\ Ran = {Call}
      BY <2>2 DEF Experiments, Ran
    <3>2. Call \in Ran
      BY <3>1
    <3> QED BY <1>1, <3>1, <3>2, ShortSeq
  <2> QED BY <2>1, <2>2
<1> QED
  BY <1>1, <1>2 DEF RanInv

LEMMA ObservedRan ==
  ASSUME EvidenceInv, RanInv, running # <<>>, NEW process, NEW effect,
         process \in {"root", "child"}, effect \in EffectsPossible,
         Observe(process, effect), UNCHANGED <<config, running, open>>
  PROVE  RanInv'
<1> DEFINE name == Head(running)
<1>1. name \in Ran /\ name \in Names
  BY HeadTailProperties DEF RanInv, EvidenceInv, EvidenceTypes
<1>2. PICK t \in {clock, clock + 1} :
        observed' = Append(observed,
          [experiment |-> name, process |-> <<name, process>>,
           sequence |-> Cardinality(EventsIn(name)) + 1,
           time |-> t, effect |-> effect, during |-> {IdOf(p) : p \in open}])
  BY DEF Observe
<1> DEFINE r == [experiment |-> name, process |-> <<name, process>>,
                 sequence |-> Cardinality(EventsIn(name)) + 1,
                 time |-> t, effect |-> effect,
                 during |-> {IdOf(p) : p \in open}]
<1>3. r.experiment = name
  OBVIOUS
<1> HIDE DEF r
<1>4. observed \in Seq(Events \cup {r}) /\ r \in Events \cup {r}
  <2>1. observed \in Seq(Events)
    BY DEF EvidenceInv, EvidenceTypes
  <2>2. \A i \in 1..Len(observed) : observed[i] \in Events \cup {r}
    BY <2>1, ElementOfSeq
  <2>3. Len(observed) \in Nat /\ observed = [i \in 1..Len(observed) |-> observed[i]]
    BY <2>1, LenProperties, SeqDef
  <2> QED BY <2>2, <2>3, SeqDef
<1>5. /\ DOMAIN observed' = DOMAIN observed \cup {Len(observed) + 1}
      /\ observed'[Len(observed) + 1] = r
      /\ \A i \in DOMAIN observed : observed'[i] = observed[i]
  BY <1>2, <1>4, AppendIs DEF r
<1>6. Ran' = Ran
  BY DEF Ran
<1>7. \A i \in DOMAIN observed' : observed'[i].experiment \in Ran
  BY <1>1, <1>3, <1>5 DEF RanInv
<1> QED
  BY <1>6, <1>7 DEF RanInv

LEMMA RanKept ==
  ASSUME RanInv, UNCHANGED <<config, running, observed>>
  PROVE  RanInv'
BY DEF RanInv, Ran

LEMMA RanStepKeeps ==
  ASSUME EvidenceInv, RanInv, EvidenceStep
  PROVE  RanInv'
<1>1. CASE PhaseStarts
  BY <1>1, RanKept DEF PhaseStarts
<1>2. CASE PhaseEnds
  BY <1>2, RanKept DEF PhaseEnds
<1>3. CASE ServerStarts
  <2>1. [kind |-> "process.start", child |-> FALSE] \in EffectsPossible
    BY DEF EffectsPossible, Starts
  <2>2. running # <<>>
    BY <1>3 DEF ServerStarts, EvidenceInv, RunningInv
  <2> QED BY <1>3, <2>1, <2>2, ObservedRan DEF ServerStarts
<1>4. CASE ChildSpawned
  <2>1. [kind |-> "process.start", child |-> TRUE] \in EffectsPossible
    BY DEF EffectsPossible, Starts
  <2>2. running # <<>>
    BY <1>4 DEF ChildSpawned, EvidenceInv, RunningInv
  <2> QED BY <1>4, <2>1, <2>2, ObservedRan DEF ChildSpawned
<1>5. CASE ProcessActs
  <2>1. running # <<>>
    BY <1>5 DEF ProcessActs, EvidenceInv, RunningInv
  <2>2. PICK process \in processes,
             effect \in IF Effects = <<>> THEN FirstEffects ELSE LaterEffects :
          Observe(process, effect)
    BY <1>5 DEF ProcessActs
  <2>3. process \in {"root", "child"} /\ effect \in EffectsPossible
    BY DEF EffectsPossible, EvidenceInv, EvidenceTypes
  <2>4. UNCHANGED <<config, running, open>>
    BY <1>5 DEF ProcessActs
  <2> QED BY <2>1, <2>2, <2>3, <2>4, ObservedRan
<1>6. CASE ExperimentEnds
  <2>1. running # <<>> /\ running' = Tail(running)
        /\ UNCHANGED <<config, observed>>
    BY <1>6 DEF ExperimentEnds
  <2>2. Tail(running) \in Seq(Ran)
    BY <2>1, HeadTailProperties DEF RanInv
  <2> QED BY <2>1, <2>2 DEF RanInv, Ran
<1> QED
  BY <1>1, <1>2, <1>3, <1>4, <1>5, <1>6 DEF EvidenceStep

-----------------------------------------------------------------------------
(* The findings.  Which rule an event comes under, and on which side: the  *)
(* initialization's, or the configured tool's.                             *)
Rules == {"sensitive access", "file scope", "exec", "network", "post return"}
Sides == {"initialization", Call}

InitialRule(e, rule) ==
  \/ rule = "sensitive access" /\ SensitiveRead(e)
  \/ \E scope \in ScopeOf(Baseline) :
       \/ rule = "file scope" /\ InitialFile(e, scope)
       \/ rule = "exec" /\ InitialExec(e, scope)
       \/ rule = "network" /\ InitialConnection(e, scope)

ToolRule(e, rule) ==
  \/ rule = "file scope" /\ ToolFile(e, config.expected)
  \/ rule = "exec" /\ ToolExec(e, config.expected)
  \/ rule = "network" /\ ToolConnection(e, config.expected)
  \/ rule = "post return" /\ PostReturn(e)

RuleOf(e, side, rule) ==
  \/ side = "initialization" /\ InitialRule(e, rule)
  \/ side = Call /\ ToolRule(e, rule)

(* Every finding cites events its rule is about, surely only if they are   *)
(* sure; every event a rule is about is cited; and no two are confused.    *)
CitesRightly(f) ==
  \A id \in f.events : \E e \in ToSet(observed) :
    /\ id = EventId(e) /\ RuleOf(e, f.id[1], f.rule)
    /\ f.confidence = "high" => Of(e).confidence = "high"

CitesAll(fs) ==
  \A e \in ToSet(observed), side \in Sides, rule \in Rules :
    RuleOf(e, side, rule) =>
      \E f \in fs : f.id[1] = side /\ f.rule = rule /\ EventId(e) \in f.events

Unique(fs) == \A f, g \in fs : f.id = g.id => f = g

FindingsInv ==
  /\ findings # {} => attributions # {}
  /\ report # {} => findings # {}
  /\ \A fs \in findings :
       /\ \A f \in fs : CitesRightly(f)
       /\ CitesAll(fs)
       /\ Call # "initialization" => Unique(fs)

(* What the findings for some events say, and that all of them are cited.  *)
Reports(fs, cited, tag, rule) ==
  /\ \A f \in fs :
       /\ f.id[1] = tag[1] /\ f.id[2] = tag[2] /\ f.rule = rule
       /\ \A id \in f.events : \E i \in cited :
            /\ id = EventId(observed[i])
            /\ f.confidence = "high" => Of(observed[i]).confidence = "high"
  /\ \A i \in cited : \E f \in fs : EventId(observed[i]) \in f.events
  /\ Unique(fs)

(* A finding is sure only if all the events it cites are.                  *)
LEMMA FindingIs ==
  ASSUME NEW id, NEW rule, NEW cited
  PROVE  /\ Finding(id, rule, cited).id = id
         /\ Finding(id, rule, cited).rule = rule
         /\ Finding(id, rule, cited).events = {EventId(e) : e \in cited}
         /\ Finding(id, rule, cited).confidence = "high" =>
              \A e \in cited : Of(e).confidence = "high"
<1> DEFINE levels == {Of(e).confidence : e \in cited}
<1>1. Finding(id, rule, cited).confidence = FindingConfidence(cited)
  BY DEF Finding
<1>2. FindingConfidence(cited) = "high" => levels \subseteq {"high"}
  <2>1. CASE levels \subseteq {"high"}
    BY <2>1
  <2>2. CASE ~(levels \subseteq {"high"}) /\ "unattributed" \in levels
    BY <2>2 DEF FindingConfidence
  <2>3. CASE ~(levels \subseteq {"high"}) /\ "unattributed" \notin levels
    BY <2>3 DEF FindingConfidence
  <2> QED BY <2>1, <2>2, <2>3
<1>3. levels \subseteq {"high"} => \A e \in cited : Of(e).confidence = "high"
  OBVIOUS
<1>4. /\ Finding(id, rule, cited).id = id
      /\ Finding(id, rule, cited).rule = rule
      /\ Finding(id, rule, cited).events = {EventId(e) : e \in cited}
  BY DEF Finding
<1> QED
  BY <1>1, <1>2, <1>3, <1>4

(* Numbered names.                                                         *)
LEMMA NumberedIs ==
  ASSUME NEW a, NEW b, NEW n
  PROVE  /\ Append(<<a, b>>, n)[1] = a /\ Append(<<a, b>>, n)[2] = b
         /\ Append(<<a, b>>, n)[3] = n
OBVIOUS

(* Ranks tell the members of a set of indices apart.                       *)
LEMMA RanksApart ==
  ASSUME NEW n \in Nat, NEW S \in SUBSET (1..n), NEW i \in S, NEW j \in S,
         Rank(i, S) = Rank(j, S)
  PROVE  i = j
<1>1. ASSUME NEW x \in S, NEW y \in S, x < y
      PROVE  Rank(x, S) # Rank(y, S)
  <2> DEFINE A == {k \in S : k <= x}
             B == {k \in S : k <= y}
  <2>1. A \subseteq B /\ y \in B /\ y \notin A
    <3>1. \A k \in S : k \in Int
      OBVIOUS
    <3>2. x \in Int /\ y \in Int /\ x < y
      BY <1>1, <3>1
    <3>3. y <= y /\ ~ (y <= x)
      BY <3>2
    <3>4. \A k \in S : k <= x => k <= y
      BY <3>1, <3>2
    <3> QED BY <3>3, <3>4
  <2>2. IsFiniteSet(B)
    <3>1. IsFiniteSet(1..n)
      BY FS_Interval
    <3>2. B \subseteq 1..n
      OBVIOUS
    <3> HIDE DEF B
    <3> QED BY <3>1, <3>2, FS_Subset
  <2>3. A # B
    BY <2>1
  <2> HIDE DEF A, B
  <2>4. /\ IsFiniteSet(A) /\ Cardinality(A) <= Cardinality(B)
        /\ (Cardinality(A) = Cardinality(B) => A = B)
    BY <2>1, <2>2, FS_Subset
  <2>5. Cardinality(A) \in Nat /\ Cardinality(B) \in Nat
    BY <2>2, <2>4, FS_CardinalityType
  <2>6. Rank(x, S) = Cardinality(A) /\ Rank(y, S) = Cardinality(B)
    BY DEF Rank, A, B
  <2> QED BY <2>3, <2>4, <2>5, <2>6
<1>2. ~ (i < j) /\ ~ (j < i)
  BY <1>1
<1>3. i \in Int /\ j \in Int
  OBVIOUS
<1> QED
  BY <1>2, <1>3

(* The indices of the events.                                              *)
LEMMA Indices ==
  ASSUME EvidenceInv
  PROVE  Len(observed) \in Nat /\ DOMAIN observed = 1..Len(observed)
<1>1. observed \in Seq(Events)
  BY DEF EvidenceInv, EvidenceTypes
<1> QED
  BY <1>1, LenProperties

(* One finding for every event.                                            *)
LEMMA EachReports ==
  ASSUME EvidenceInv, NEW cited \in SUBSET DOMAIN observed,
         NEW a, NEW b, NEW rule
  PROVE  Reports(Each(cited, <<a, b>>, rule), cited, <<a, b>>, rule)
<1> DEFINE fs == Each(cited, <<a, b>>, rule)
           About(i) == Finding(Append(<<a, b>>, Rank(i, cited)), rule,
                               {observed[i]})
<1>1. fs = {About(i) : i \in cited}
  BY DEF Each
<1>2. ASSUME NEW i
      PROVE  /\ About(i).id[1] = a /\ About(i).id[2] = b
             /\ About(i).id[3] = Rank(i, cited) /\ About(i).rule = rule
             /\ About(i).events = {EventId(observed[i])}
             /\ About(i).confidence = "high" => Of(observed[i]).confidence = "high"
  <2>1. About(i).id = Append(<<a, b>>, Rank(i, cited))
    <3> DEFINE name == Append(<<a, b>>, Rank(i, cited))
    <3> HIDE DEF name
    <3>1. Finding(name, rule, {observed[i]}).id = name
      BY FindingIs
    <3> QED BY <3>1 DEF name
  <2>2. About(i).events = {EventId(e) : e \in {observed[i]}}
    BY FindingIs
  <2>3. /\ About(i).rule = rule
        /\ About(i).confidence = "high" => Of(observed[i]).confidence = "high"
    BY FindingIs
  <2> HIDE DEF About
  <2>4. About(i).events = {EventId(observed[i])}
    BY <2>2
  <2> QED BY <2>1, <2>3, <2>4, NumberedIs
<1> HIDE DEF fs, About
<1>3. \A i, j \in cited : Rank(i, cited) = Rank(j, cited) => i = j
  BY Indices, RanksApart
<1>4. Unique(fs)
  <2> SUFFICES ASSUME NEW i \in cited, NEW j \in cited, About(i).id = About(j).id
               PROVE  About(i) = About(j)
    BY <1>1 DEF Unique
  <2>1. Rank(i, cited) = Rank(j, cited)
    BY <1>2
  <2> QED BY <1>3, <2>1
<1>5. \A f \in fs :
        /\ f.id[1] = a /\ f.id[2] = b /\ f.rule = rule
        /\ \A id \in f.events : \E i \in cited :
             /\ id = EventId(observed[i])
             /\ f.confidence = "high" => Of(observed[i]).confidence = "high"
  BY <1>1, <1>2
<1>6. \A i \in cited : \E f \in fs : EventId(observed[i]) \in f.events
  BY <1>1, <1>2
<1>7. <<a, b>>[1] = a /\ <<a, b>>[2] = b
  OBVIOUS
<1> QED
  BY <1>4, <1>5, <1>6, <1>7 DEF Reports, fs

(* One finding for every group of events, which the first of them numbers. *)
LEMMA GroupedReports ==
  ASSUME EvidenceInv, NEW cited \in SUBSET DOMAIN observed, NEW keys,
         NEW a, NEW b, NEW rule
  PROVE  Reports(Grouped(cited, keys, <<a, b>>, rule), cited, <<a, b>>, rule)
<1> DEFINE fs == Grouped(cited, keys, <<a, b>>, rule)
           group(i) == SameGroup(cited, keys, i)
           firsts == {i \in cited : \A j \in group(i) : i <= j}
           About(i) == Finding(Append(<<a, b>>, Rank(i, firsts)), rule,
                               {observed[j] : j \in group(i)})
<1>1. fs = {About(i) : i \in firsts}
  BY DEF Grouped
<1>2. ASSUME NEW i
      PROVE  /\ About(i).id[1] = a /\ About(i).id[2] = b
             /\ About(i).id[3] = Rank(i, firsts) /\ About(i).rule = rule
             /\ About(i).events = {EventId(observed[j]) : j \in group(i)}
             /\ About(i).confidence = "high" =>
                  \A j \in group(i) : Of(observed[j]).confidence = "high"
  <2>1. About(i).id = Append(<<a, b>>, Rank(i, firsts))
    <3> DEFINE name == Append(<<a, b>>, Rank(i, firsts))
               them == {observed[j] : j \in group(i)}
    <3> HIDE DEF name, them
    <3>1. Finding(name, rule, them).id = name
      BY FindingIs
    <3> QED BY <3>1 DEF name, them
  <2>2. About(i).events = {EventId(e) : e \in {observed[j] : j \in group(i)}}
    BY FindingIs
  <2>3. /\ About(i).rule = rule
        /\ About(i).confidence = "high" =>
             \A e \in {observed[j] : j \in group(i)} : Of(e).confidence = "high"
    BY FindingIs
  <2> HIDE DEF About, firsts, group
  <2>4. About(i).events = {EventId(observed[j]) : j \in group(i)}
    BY <2>2
  <2>5. /\ About(i).id[1] = a /\ About(i).id[2] = b
        /\ About(i).id[3] = Rank(i, firsts)
    BY <2>1, NumberedIs
  <2> QED BY <2>3, <2>4, <2>5
<1>3. ASSUME NEW i \in cited
      PROVE  i \in group(i) /\ group(i) \in SUBSET cited /\ i \in Nat
  BY <1>3, Indices DEF SameGroup
<1>4. ASSUME NEW i \in cited
      PROVE  \E k \in firsts : i \in group(k)
  <2>1. group(i) \in SUBSET Nat /\ group(i) # {}
    BY <1>3
  <2>2. PICK k \in group(i) : \A j \in group(i) : k <= j
    <3> HIDE DEF group
    <3> QED BY <2>1, LeastIndex
  <2>3. group(k) = group(i) /\ k \in cited
    BY <2>2 DEF SameGroup
  <2> QED BY <1>3, <2>2, <2>3
<1>5. firsts \in SUBSET cited
  OBVIOUS
<1> HIDE DEF fs, About, firsts
<1>6. \A i, j \in firsts : Rank(i, firsts) = Rank(j, firsts) => i = j
  <2>1. Len(observed) \in Nat /\ firsts \in SUBSET (1..Len(observed))
    BY <1>5, Indices
  <2> QED BY <2>1, RanksApart
<1>7. Unique(fs)
  <2> SUFFICES ASSUME NEW i \in firsts, NEW j \in firsts, About(i).id = About(j).id
               PROVE  About(i) = About(j)
    BY <1>1 DEF Unique
  <2>1. Rank(i, firsts) = Rank(j, firsts)
    BY <1>2
  <2> QED BY <1>6, <2>1
<1> HIDE DEF group
<1>8. \A f \in fs :
        /\ f.id[1] = a /\ f.id[2] = b /\ f.rule = rule
        /\ \A id \in f.events : \E i \in cited :
             /\ id = EventId(observed[i])
             /\ f.confidence = "high" => Of(observed[i]).confidence = "high"
  <2> SUFFICES ASSUME NEW i \in firsts
               PROVE  /\ About(i).id[1] = a /\ About(i).id[2] = b
                      /\ About(i).rule = rule
                      /\ \A id \in About(i).events : \E j \in cited :
                           /\ id = EventId(observed[j])
                           /\ About(i).confidence = "high" =>
                                Of(observed[j]).confidence = "high"
    BY <1>1
  <2>1. group(i) \in SUBSET cited
    BY <1>3, <1>5
  <2> QED BY <1>2, <2>1
<1>9. \A i \in cited : \E f \in fs : EventId(observed[i]) \in f.events
  BY <1>1, <1>2, <1>4
<1>10. <<a, b>>[1] = a /\ <<a, b>>[2] = b
  OBVIOUS
<1> QED
  BY <1>7, <1>8, <1>9, <1>10 DEF Reports, fs

(* One finding for all events, if there are any.                           *)
LEMMA PostReturnReports ==
  Reports(PostReturnFinding, Select(PostReturn),
          <<Call, "post-return-activity">>, "post return")
<1> DEFINE fs == PostReturnFinding
           late == Select(PostReturn)
           cited == {observed[i] : i \in late}
           name == <<Call, "post-return-activity">>
           rule == "post return"
           f == Finding(name, rule, cited)
<1>1. /\ \A g \in fs : g = f
      /\ late # {} => f \in fs
  BY DEF PostReturnFinding
<1>2. /\ f.id = name /\ f.rule = rule
      /\ f.confidence = "high" => \A e \in cited : Of(e).confidence = "high"
      /\ f.events = {EventId(e) : e \in cited}
  <2> HIDE DEF name, cited, rule
  <2>1. f.id = name /\ f.rule = rule
    BY FindingIs
  <2>2. f.confidence = "high" => \A e \in cited : Of(e).confidence = "high"
    BY FindingIs
  <2>3. f.events = {EventId(e) : e \in cited}
    BY FindingIs
  <2> QED BY <2>1, <2>2, <2>3
<1> HIDE DEF f, fs
<1>3. /\ f.events = {EventId(observed[i]) : i \in late}
      /\ f.confidence = "high" =>
           \A i \in late : Of(observed[i]).confidence = "high"
  BY <1>2
<1>4. name[1] = Call /\ name[2] = "post-return-activity"
  OBVIOUS
<1> HIDE DEF late, name, rule
<1>5. Unique(fs)
  BY <1>1 DEF Unique
<1>6. \A g \in fs :
        /\ g.id[1] = name[1] /\ g.id[2] = name[2] /\ g.rule = rule
        /\ \A id \in g.events : \E i \in late :
             /\ id = EventId(observed[i])
             /\ g.confidence = "high" => Of(observed[i]).confidence = "high"
  BY <1>1, <1>2, <1>3
<1>7. \A i \in late : \E g \in fs : EventId(observed[i]) \in g.events
  BY <1>1, <1>3
<1> QED
  BY <1>5, <1>6, <1>7 DEF Reports, fs, late, name, rule

(* Findings that report events their rule is about cite them rightly.      *)
Right(fs, cited, tag, rule) ==
  /\ \A f \in fs : CitesRightly(f) /\ f.id[1] = tag[1] /\ f.id[2] = tag[2]
  /\ \A i \in cited : \E f \in fs :
       /\ f.id[1] = tag[1] /\ f.rule = rule
       /\ EventId(observed[i]) \in f.events
  /\ Unique(fs)

LEMMA RightlyReported ==
  ASSUME NEW cited \in SUBSET DOMAIN observed, NEW fs, NEW tag, NEW rule,
         Reports(fs, cited, tag, rule),
         \A i \in cited : RuleOf(observed[i], tag[1], rule)
  PROVE  Right(fs, cited, tag, rule)
<1>1. \A f \in fs : f.id[1] = tag[1] /\ f.id[2] = tag[2] /\ f.rule = rule
  BY DEF Reports
<1>2. ASSUME NEW f \in fs
      PROVE  CitesRightly(f)
  <2> SUFFICES ASSUME NEW id \in f.events
               PROVE  \E e \in ToSet(observed) :
                        /\ id = EventId(e) /\ RuleOf(e, f.id[1], f.rule)
                        /\ f.confidence = "high" => Of(e).confidence = "high"
    BY DEF CitesRightly
  <2>1. PICK i \in cited :
          /\ id = EventId(observed[i])
          /\ f.confidence = "high" => Of(observed[i]).confidence = "high"
    BY DEF Reports
  <2>2. RuleOf(observed[i], f.id[1], f.rule)
    BY <1>1
  <2>3. observed[i] \in ToSet(observed)
    BY InSequence
  <2> QED BY <2>1, <2>2, <2>3
<1>3. \A i \in cited : \E f \in fs : EventId(observed[i]) \in f.events
  BY DEF Reports
<1>4. Unique(fs)
  BY DEF Reports
<1> QED
  BY <1>1, <1>2, <1>3, <1>4 DEF Right

LEMMA UniqueTogether ==
  ASSUME NEW A, NEW B, Unique(A), Unique(B),
         \A f \in A, g \in B : f.id[1] # g.id[1] \/ f.id[2] # g.id[2]
  PROVE  Unique(A \cup B)
BY DEF Unique

LEMMA UniqueApart ==
  ASSUME NEW A, NEW B, Unique(A), Unique(B),
         \A f \in A, g \in B : f.id[2] # g.id[2]
  PROVE  Unique(A \cup B)
BY UniqueTogether

(* The findings for the initialization.                                    *)
LEMMA InitializationRight ==
  ASSUME EvidenceInv
  PROVE  /\ \A f \in InitializationFindings :
              CitesRightly(f) /\ f.id[1] = "initialization"
         /\ \A e \in ToSet(observed) : \A rule : InitialRule(e, rule) =>
              \E f \in InitializationFindings :
                /\ f.id[1] = "initialization" /\ f.rule = rule
                /\ EventId(e) \in f.events
         /\ Unique(InitializationFindings)
<1> DEFINE side == "initialization"
           tag1 == <<side, "sensitive-access">>
           tag2 == <<side, "file-scope">>
           tag3 == <<side, "unexpected-exec">>
           tag4 == <<side, "network">>
           cited1 == Select(SensitiveRead)
           cited2(s) == Select(LAMBDA e : InitialFile(e, s))
           cited3(s) == Select(LAMBDA e : InitialExec(e, s))
           cited4(s) == Select(LAMBDA e : InitialConnection(e, s))
           fs1 == Grouped(cited1, Paths(cited1), tag1, "sensitive access")
           fs2(s) == Grouped(cited2(s), PathKeys(cited2(s)), tag2, "file scope")
           fs3(s) == Each(cited3(s), tag3, "exec")
           fs4(s) == Each(cited4(s), tag4, "network")
<1>1. InitializationFindings =
        fs1 \cup UNION {fs2(s) \cup (fs3(s) \cup fs4(s)) : s \in ScopeOf(Baseline)}
  BY DEF InitializationFindings, InitializationActs
<1>2. /\ tag1[1] = side /\ tag1[2] = "sensitive-access"
      /\ tag2[1] = side /\ tag2[2] = "file-scope"
      /\ tag3[1] = side /\ tag3[2] = "unexpected-exec"
      /\ tag4[1] = side /\ tag4[2] = "network"
  OBVIOUS
<1>3. /\ \A i : i \in cited1 <=>
           i \in DOMAIN observed /\ SensitiveRead(observed[i])
      /\ \A i, s : i \in cited2(s) <=>
           i \in DOMAIN observed /\ InitialFile(observed[i], s)
      /\ \A i, s : i \in cited3(s) <=>
           i \in DOMAIN observed /\ InitialExec(observed[i], s)
      /\ \A i, s : i \in cited4(s) <=>
           i \in DOMAIN observed /\ InitialConnection(observed[i], s)
  BY DEF Select
<1>4. /\ \A e : SensitiveRead(e) => RuleOf(e, side, "sensitive access")
      /\ \A e, s : s \in ScopeOf(Baseline) /\ InitialFile(e, s) =>
           RuleOf(e, side, "file scope")
      /\ \A e, s : s \in ScopeOf(Baseline) /\ InitialExec(e, s) =>
           RuleOf(e, side, "exec")
      /\ \A e, s : s \in ScopeOf(Baseline) /\ InitialConnection(e, s) =>
           RuleOf(e, side, "network")
  BY DEF RuleOf, InitialRule
<1> HIDE DEF cited1, cited2, cited3, cited4, side
<1>5. Reports(fs1, cited1, tag1, "sensitive access")
  <2> DEFINE name == "sensitive-access"  rule == "sensitive access"
  <2> HIDE DEF name, rule
  <2>1. Reports(Grouped(cited1, Paths(cited1), <<side, name>>, rule), cited1, <<side, name>>, rule)
    BY <1>3, GroupedReports
  <2> QED BY <2>1 DEF name, rule
<1>6. \A s : Reports(fs2(s), cited2(s), tag2, "file scope")
  <2> DEFINE name == "file-scope"  rule == "file scope"
  <2> HIDE DEF name, rule
  <2>1. ASSUME NEW s
        PROVE  Reports(Grouped(cited2(s), PathKeys(cited2(s)), <<side, name>>, rule), cited2(s), <<side, name>>, rule)
    BY <1>3, GroupedReports
  <2> QED BY <2>1 DEF name, rule
<1>7. \A s : Reports(fs3(s), cited3(s), tag3, "exec")
  <2> DEFINE name == "unexpected-exec"  rule == "exec"
  <2> HIDE DEF name, rule
  <2>1. ASSUME NEW s
        PROVE  Reports(Each(cited3(s), <<side, name>>, rule), cited3(s), <<side, name>>, rule)
    BY <1>3, EachReports
  <2> QED BY <2>1 DEF name, rule
<1>8. \A s : Reports(fs4(s), cited4(s), tag4, "network")
  <2> DEFINE name == "network"
  <2> HIDE DEF name
  <2>1. ASSUME NEW s
        PROVE  Reports(Each(cited4(s), <<side, name>>, name), cited4(s), <<side, name>>, name)
    BY <1>3, EachReports
  <2> QED BY <2>1 DEF name
<1> HIDE DEF fs1, fs2, fs3, fs4, tag1, tag2, tag3, tag4
<1>9. Right(fs1, cited1, tag1, "sensitive access")
  <2>1. cited1 \in SUBSET DOMAIN observed
        /\ \A i \in cited1 : RuleOf(observed[i], tag1[1], "sensitive access")
    BY <1>2, <1>3, <1>4
  <2> QED BY <1>5, <2>1, RightlyReported
<1>10. \A s \in ScopeOf(Baseline) : Right(fs2(s), cited2(s), tag2, "file scope")
  <2> SUFFICES ASSUME NEW s \in ScopeOf(Baseline)
               PROVE  Right(fs2(s), cited2(s), tag2, "file scope")
    OBVIOUS
  <2>1. cited2(s) \in SUBSET DOMAIN observed
        /\ \A i \in cited2(s) : RuleOf(observed[i], tag2[1], "file scope")
    BY <1>2, <1>3, <1>4
  <2> QED BY <1>6, <2>1, RightlyReported
<1>11. \A s \in ScopeOf(Baseline) : Right(fs3(s), cited3(s), tag3, "exec")
  <2> SUFFICES ASSUME NEW s \in ScopeOf(Baseline)
               PROVE  Right(fs3(s), cited3(s), tag3, "exec")
    OBVIOUS
  <2>1. cited3(s) \in SUBSET DOMAIN observed
        /\ \A i \in cited3(s) : RuleOf(observed[i], tag3[1], "exec")
    BY <1>2, <1>3, <1>4
  <2> QED BY <1>7, <2>1, RightlyReported
<1>12. \A s \in ScopeOf(Baseline) : Right(fs4(s), cited4(s), tag4, "network")
  <2> SUFFICES ASSUME NEW s \in ScopeOf(Baseline)
               PROVE  Right(fs4(s), cited4(s), tag4, "network")
    OBVIOUS
  <2>1. cited4(s) \in SUBSET DOMAIN observed
        /\ \A i \in cited4(s) : RuleOf(observed[i], tag4[1], "network")
    BY <1>2, <1>3, <1>4
  <2> QED BY <1>8, <2>1, RightlyReported
<1>13. \A f \in InitializationFindings : CitesRightly(f) /\ f.id[1] = side
  <2>1. \A f \in fs1 : CitesRightly(f) /\ f.id[1] = side
    BY <1>2, <1>9 DEF Right
  <2>2. ASSUME NEW s \in ScopeOf(Baseline)
        PROVE  /\ \A f \in fs2(s) : CitesRightly(f) /\ f.id[1] = side
               /\ \A f \in fs3(s) : CitesRightly(f) /\ f.id[1] = side
               /\ \A f \in fs4(s) : CitesRightly(f) /\ f.id[1] = side
    BY <1>2, <1>10, <1>11, <1>12 DEF Right
  <2> QED BY <1>1, <2>1, <2>2
<1>14. ASSUME NEW e \in ToSet(observed), NEW rule, InitialRule(e, rule)
       PROVE  \E f \in InitializationFindings :
                f.id[1] = side /\ f.rule = rule /\ EventId(e) \in f.events
  <2>1. PICK i \in DOMAIN observed : e = observed[i]
    BY InSequence
  <2>2. CASE rule = "sensitive access" /\ SensitiveRead(e)
    BY <1>1, <1>2, <1>3, <1>9, <2>1, <2>2 DEF Right
  <2>3. ASSUME NEW s \in ScopeOf(Baseline),
               rule = "file scope" /\ InitialFile(e, s)
        PROVE  \E f \in fs2(s) :
                 f.id[1] = side /\ f.rule = rule /\ EventId(e) \in f.events
    BY <1>2, <1>3, <1>10, <2>1, <2>3 DEF Right
  <2>4. ASSUME NEW s \in ScopeOf(Baseline),
               rule = "exec" /\ InitialExec(e, s)
        PROVE  \E f \in fs3(s) :
                 f.id[1] = side /\ f.rule = rule /\ EventId(e) \in f.events
    BY <1>2, <1>3, <1>11, <2>1, <2>4 DEF Right
  <2>5. ASSUME NEW s \in ScopeOf(Baseline),
               rule = "network" /\ InitialConnection(e, s)
        PROVE  \E f \in fs4(s) :
                 f.id[1] = side /\ f.rule = rule /\ EventId(e) \in f.events
    BY <1>2, <1>3, <1>12, <2>1, <2>5 DEF Right
  <2>6. ASSUME NEW s \in ScopeOf(Baseline)
        PROVE  fs2(s) \cup (fs3(s) \cup fs4(s)) \subseteq InitializationFindings
    BY <1>1
  <2>7. ASSUME NEW s \in ScopeOf(Baseline),
               \/ rule = "file scope" /\ InitialFile(e, s)
               \/ rule = "exec" /\ InitialExec(e, s)
               \/ rule = "network" /\ InitialConnection(e, s)
        PROVE  \E f \in InitializationFindings :
                 f.id[1] = side /\ f.rule = rule /\ EventId(e) \in f.events
    BY <2>3, <2>4, <2>5, <2>6, <2>7
  <2> QED BY <1>14, <2>2, <2>7 DEF InitialRule
<1>15. Unique(InitializationFindings)
  <2>1. \A s, t \in ScopeOf(Baseline) : s = t
    BY OneScope DEF ScopeOf, EvidenceInv, EvidenceTypes
  <2>2. CASE ScopeOf(Baseline) = {}
    <3>1. InitializationFindings = fs1
      BY <1>1, <2>2
    <3> QED BY <1>9, <3>1 DEF Right
  <2>3. CASE ScopeOf(Baseline) # {}
    <3>1. PICK s : ScopeOf(Baseline) = {s}
      BY <2>1, <2>3
    <3>2. Right(fs1, cited1, tag1, "sensitive access")
          /\ Right(fs2(s), cited2(s), tag2, "file scope")
          /\ Right(fs3(s), cited3(s), tag3, "exec")
          /\ Right(fs4(s), cited4(s), tag4, "network")
      BY <1>9, <1>10, <1>11, <1>12, <3>1
    <3>3. /\ \A f \in fs1 : f.id[2] = "sensitive-access"
          /\ \A f \in fs2(s) : f.id[2] = "file-scope"
          /\ \A f \in fs3(s) : f.id[2] = "unexpected-exec"
          /\ \A f \in fs4(s) : f.id[2] = "network"
      BY <1>2, <3>2 DEF Right
    <3>4. /\ \A f \in fs3(s), g \in fs4(s) : f.id[2] # g.id[2]
          /\ \A f \in fs2(s), g \in fs3(s) \cup fs4(s) : f.id[2] # g.id[2]
          /\ \A f \in fs1, g \in fs2(s) \cup (fs3(s) \cup fs4(s)) :
               f.id[2] # g.id[2]
      BY <3>3
    <3>5. Unique(fs1) /\ Unique(fs2(s)) /\ Unique(fs3(s)) /\ Unique(fs4(s))
      BY <3>2 DEF Right
    <3>6. Unique(fs1 \cup (fs2(s) \cup (fs3(s) \cup fs4(s))))
      <4>1. Unique(fs3(s) \cup fs4(s))
        BY <3>4, <3>5, UniqueApart
      <4>2. Unique(fs2(s) \cup (fs3(s) \cup fs4(s)))
        BY <3>4, <3>5, <4>1, UniqueApart
      <4> QED BY <3>4, <3>5, <4>2, UniqueApart
    <3>7. InitializationFindings = fs1 \cup (fs2(s) \cup (fs3(s) \cup fs4(s)))
      BY <1>1, <3>1
    <3> QED BY <3>6, <3>7
  <2> QED BY <2>2, <2>3
<1> QED
  BY <1>13, <1>14, <1>15 DEF side

(* The findings for the configured tool.                                   *)
LEMMA ToolRight ==
  ASSUME EvidenceInv
  PROVE  /\ \A f \in ToolFindings : CitesRightly(f) /\ f.id[1] = Call
         /\ \A e \in ToSet(observed) : \A rule : ToolRule(e, rule) =>
              \E f \in ToolFindings :
                f.id[1] = Call /\ f.rule = rule /\ EventId(e) \in f.events
         /\ Unique(ToolFindings)
<1> DEFINE scope == config.expected
           tag1 == <<Call, "file-scope">>
           tag2 == <<Call, "unexpected-exec">>
           tag3 == <<Call, "network">>
           tag4 == <<Call, "post-return-activity">>
           cited1 == Select(LAMBDA e : ToolFile(e, scope))
           cited2 == Select(LAMBDA e : ToolExec(e, scope))
           cited3 == Select(LAMBDA e : ToolConnection(e, scope))
           cited4 == Select(PostReturn)
           fs1 == Grouped(cited1, PathKeys(cited1), tag1, "file scope")
           fs2 == Each(cited2, tag2, "exec")
           fs3 == Each(cited3, tag3, "network")
           fs4 == PostReturnFinding
<1>1. ToolFindings = ((fs1 \cup fs2) \cup fs3) \cup fs4
  BY DEF ToolFindings
<1>2. /\ tag1[1] = Call /\ tag1[2] = "file-scope"
      /\ tag2[1] = Call /\ tag2[2] = "unexpected-exec"
      /\ tag3[1] = Call /\ tag3[2] = "network"
      /\ tag4[1] = Call /\ tag4[2] = "post-return-activity"
  OBVIOUS
<1>3. /\ \A i : i \in cited1 <=>
           i \in DOMAIN observed /\ ToolFile(observed[i], scope)
      /\ \A i : i \in cited2 <=>
           i \in DOMAIN observed /\ ToolExec(observed[i], scope)
      /\ \A i : i \in cited3 <=>
           i \in DOMAIN observed /\ ToolConnection(observed[i], scope)
      /\ \A i : i \in cited4 <=>
           i \in DOMAIN observed /\ PostReturn(observed[i])
  BY DEF Select
<1>4. /\ \A e : ToolFile(e, scope) => RuleOf(e, Call, "file scope")
      /\ \A e : ToolExec(e, scope) => RuleOf(e, Call, "exec")
      /\ \A e : ToolConnection(e, scope) => RuleOf(e, Call, "network")
      /\ \A e : PostReturn(e) => RuleOf(e, Call, "post return")
  BY DEF RuleOf, ToolRule
<1>5. Reports(fs4, cited4, tag4, "post return")
  BY PostReturnReports
<1> HIDE DEF cited1, cited2, cited3, cited4
<1>6. Reports(fs1, cited1, tag1, "file scope")
  <2> DEFINE name == "file-scope"  rule == "file scope"
  <2> HIDE DEF name, rule
  <2>1. Reports(Grouped(cited1, PathKeys(cited1), <<Call, name>>, rule),
                cited1, <<Call, name>>, rule)
    BY <1>3, GroupedReports
  <2> QED BY <2>1 DEF name, rule
<1>7. Reports(fs2, cited2, tag2, "exec")
  <2> DEFINE name == "unexpected-exec"  rule == "exec"
  <2> HIDE DEF name, rule
  <2>1. Reports(Each(cited2, <<Call, name>>, rule), cited2, <<Call, name>>, rule)
    BY <1>3, EachReports
  <2> QED BY <2>1 DEF name, rule
<1>8. Reports(fs3, cited3, tag3, "network")
  <2> DEFINE name == "network"
  <2> HIDE DEF name
  <2>1. Reports(Each(cited3, <<Call, name>>, name), cited3, <<Call, name>>, name)
    BY <1>3, EachReports
  <2> QED BY <2>1 DEF name
<1> HIDE DEF fs1, fs2, fs3, fs4, tag1, tag2, tag3, tag4, scope
<1>9. Right(fs1, cited1, tag1, "file scope")
  <2>1. cited1 \in SUBSET DOMAIN observed
        /\ \A i \in cited1 : RuleOf(observed[i], tag1[1], "file scope")
    BY <1>2, <1>3, <1>4
  <2> QED BY <1>6, <2>1, RightlyReported
<1>10. Right(fs2, cited2, tag2, "exec")
  <2>1. cited2 \in SUBSET DOMAIN observed
        /\ \A i \in cited2 : RuleOf(observed[i], tag2[1], "exec")
    BY <1>2, <1>3, <1>4
  <2> QED BY <1>7, <2>1, RightlyReported
<1>11. Right(fs3, cited3, tag3, "network")
  <2>1. cited3 \in SUBSET DOMAIN observed
        /\ \A i \in cited3 : RuleOf(observed[i], tag3[1], "network")
    BY <1>2, <1>3, <1>4
  <2> QED BY <1>8, <2>1, RightlyReported
<1>12. Right(fs4, cited4, tag4, "post return")
  <2>1. cited4 \in SUBSET DOMAIN observed
        /\ \A i \in cited4 : RuleOf(observed[i], tag4[1], "post return")
    BY <1>2, <1>3, <1>4
  <2> QED BY <1>5, <2>1, RightlyReported
<1>13. \A f \in ToolFindings : CitesRightly(f) /\ f.id[1] = Call
  BY <1>1, <1>2, <1>9, <1>10, <1>11, <1>12 DEF Right
<1>14. ASSUME NEW e \in ToSet(observed), NEW rule, ToolRule(e, rule)
       PROVE  \E f \in ToolFindings :
                f.id[1] = Call /\ f.rule = rule /\ EventId(e) \in f.events
  <2>1. PICK i \in DOMAIN observed : e = observed[i]
    BY InSequence
  <2>2. CASE rule = "file scope" /\ ToolFile(e, scope)
    BY <1>1, <1>2, <1>3, <1>9, <2>1, <2>2 DEF Right
  <2>3. CASE rule = "exec" /\ ToolExec(e, scope)
    BY <1>1, <1>2, <1>3, <1>10, <2>1, <2>3 DEF Right
  <2>4. CASE rule = "network" /\ ToolConnection(e, scope)
    BY <1>1, <1>2, <1>3, <1>11, <2>1, <2>4 DEF Right
  <2>5. CASE rule = "post return" /\ PostReturn(e)
    BY <1>1, <1>2, <1>3, <1>12, <2>1, <2>5 DEF Right
  <2> QED BY <1>14, <2>2, <2>3, <2>4, <2>5 DEF ToolRule, scope
<1>15. Unique(ToolFindings)
  <2>1. /\ \A f \in fs1 : f.id[2] = "file-scope"
        /\ \A f \in fs2 : f.id[2] = "unexpected-exec"
        /\ \A f \in fs3 : f.id[2] = "network"
        /\ \A f \in fs4 : f.id[2] = "post-return-activity"
    BY <1>2, <1>9, <1>10, <1>11, <1>12 DEF Right
  <2>2. /\ \A f \in fs1, g \in fs2 : f.id[2] # g.id[2]
        /\ \A f \in fs1 \cup fs2, g \in fs3 : f.id[2] # g.id[2]
        /\ \A f \in (fs1 \cup fs2) \cup fs3, g \in fs4 : f.id[2] # g.id[2]
    BY <2>1
  <2>3. Unique(fs1) /\ Unique(fs2) /\ Unique(fs3) /\ Unique(fs4)
    BY <1>9, <1>10, <1>11, <1>12 DEF Right
  <2>4. Unique(fs1 \cup fs2)
    BY <2>2, <2>3, UniqueApart
  <2>5. Unique((fs1 \cup fs2) \cup fs3)
    BY <2>2, <2>3, <2>4, UniqueApart
  <2> QED BY <1>1, <2>2, <2>3, <2>5, UniqueApart
<1> QED
  BY <1>13, <1>14, <1>15

(* All of them.                                                            *)
LEMMA FindingsRight ==
  ASSUME EvidenceInv
  PROVE  LET fs == InitializationFindings \cup ToolFindings
         IN /\ \A f \in fs : CitesRightly(f)
            /\ CitesAll(fs)
            /\ Call # "initialization" => Unique(fs)
<1>1. /\ \A f \in InitializationFindings :
           CitesRightly(f) /\ f.id[1] = "initialization"
      /\ \A e \in ToSet(observed) : \A rule : InitialRule(e, rule) =>
           \E f \in InitializationFindings :
             /\ f.id[1] = "initialization" /\ f.rule = rule
             /\ EventId(e) \in f.events
      /\ Unique(InitializationFindings)
  BY InitializationRight
<1>2. /\ \A f \in ToolFindings : CitesRightly(f) /\ f.id[1] = Call
      /\ \A e \in ToSet(observed) : \A rule : ToolRule(e, rule) =>
           \E f \in ToolFindings :
             f.id[1] = Call /\ f.rule = rule /\ EventId(e) \in f.events
      /\ Unique(ToolFindings)
  BY ToolRight
<1>3. CitesAll(InitializationFindings \cup ToolFindings)
  BY <1>1, <1>2 DEF CitesAll, RuleOf
<1>4. Call # "initialization" =>
        Unique(InitializationFindings \cup ToolFindings)
  BY <1>1, <1>2, UniqueTogether
<1> QED
  BY <1>1, <1>2, <1>3, <1>4

(* What the findings are judged by does not change.                        *)
LEMMA RulesKept ==
  ASSUME UNCHANGED <<config, observed, attributions>>
  PROVE  /\ \A f : CitesRightly(f)' <=> CitesRightly(f)
         /\ \A fs : CitesAll(fs)' <=> CitesAll(fs)
<1>1. /\ \A e : Of(e)' = Of(e)
      /\ \A e : FromTool(e)' <=> FromTool(e)
      /\ \A e : IsChild(e)' <=> IsChild(e)
  BY DEF Of, FromTool, IsChild
<1>2. /\ \A e : InInitialization(e)' <=> InInitialization(e)
      /\ \A e : InTool(e)' <=> InTool(e)
  BY <1>1 DEF InInitialization, InTool, ActiveIn
<1>3. /\ \A e : SensitiveRead(e)' <=> SensitiveRead(e)
      /\ \A e : PostReturn(e)' <=> PostReturn(e)
  BY <1>1, <1>2 DEF SensitiveRead, PostReturn, ActiveIn
<1>4. /\ \A e, s : InitialFile(e, s)' <=> InitialFile(e, s)
      /\ \A e, s : InitialExec(e, s)' <=> InitialExec(e, s)
      /\ \A e, s : InitialConnection(e, s)' <=> InitialConnection(e, s)
  BY <1>1, <1>2, <1>3 DEF InitialFile, InitialExec, InitialConnection
<1>5. /\ \A e, s : ToolFile(e, s)' <=> ToolFile(e, s)
      /\ \A e, s : ToolExec(e, s)' <=> ToolExec(e, s)
      /\ \A e, s : ToolConnection(e, s)' <=> ToolConnection(e, s)
  BY <1>2 DEF ToolFile, ToolExec, ToolConnection
<1>6. ScopeOf(Baseline)' = ScopeOf(Baseline)
  BY DEF ScopeOf
<1>7. \A e, side, rule : RuleOf(e, side, rule)' <=> RuleOf(e, side, rule)
  <2>1. \A e, rule : InitialRule(e, rule)' <=> InitialRule(e, rule)
    BY <1>3, <1>4, <1>6 DEF InitialRule
  <2>2. config' = config
    OBVIOUS
  <2>3. \A e, rule : ToolRule(e, rule)' <=> ToolRule(e, rule)
    BY <1>3, <1>5, <2>2 DEF ToolRule
  <2> QED BY <2>1, <2>3 DEF RuleOf
<1> QED
  BY <1>1, <1>7 DEF CitesRightly, CitesAll, EventId

LEMMA FindingsStepKeeps ==
  ASSUME EvidenceInv, AttributionInv, FindingsInv, [ReportNext]_reportVars
  PROVE  FindingsInv'
<1>1. CASE EvidenceStep /\ UNCHANGED <<context, report>>
  <2>1. running # <<>> /\ UNCHANGED <<attributions, findings>>
    BY <1>1, EvidenceStepKeeps
  <2>2. attributions = {} /\ findings = {} /\ report = {}
    BY <2>1 DEF AttributionInv, FindingsInv
  <2>3. attributions' = {} /\ findings' = {} /\ report' = {}
    BY <1>1, <2>1, <2>2
  <2> QED BY <2>3 DEF FindingsInv
<1>2. CASE AttributeEvents /\ UNCHANGED <<context, report>>
  <2>1. findings = {} /\ report = {}
    BY <1>2 DEF AttributeEvents, FindingsInv
  <2>2. findings' = {} /\ report' = {}
    BY <1>2, <2>1 DEF AttributeEvents
  <2> QED BY <2>2 DEF FindingsInv
<1>3. CASE EvaluateRules /\ UNCHANGED <<context, report>>
  <2> DEFINE fs == InitializationFindings \cup ToolFindings
  <2>1. /\ findings' = {fs} /\ attributions # {} /\ findings = {}
        /\ UNCHANGED <<config, observed, attributions>>
    BY <1>3 DEF EvaluateRules, evidenceVars
  <2>2. (\A f \in fs : CitesRightly(f)) /\ CitesAll(fs)
        /\ (Call # "initialization" => Unique(fs))
    BY FindingsRight
  <2> HIDE DEF fs
  <2>3. (\A f : CitesRightly(f)' <=> CitesRightly(f))
        /\ (\A gs : CitesAll(gs)' <=> CitesAll(gs))
    BY <2>1, RulesKept
  <2>4. attributions' # {} /\ findings' # {}
    BY <2>1
  <2> QED BY <2>1, <2>2, <2>3, <2>4 DEF FindingsInv, Unique
<1>4. CASE WriteReport \/ UNCHANGED reportVars
  <2>1. UNCHANGED <<config, observed, attributions, findings>>
    BY <1>4 DEF WriteReport, reportVars, observedVars, evidenceVars
  <2>2. report' # {} => findings # {}
    BY <1>4 DEF WriteReport, reportVars, FindingsInv
  <2>3. (\A f : CitesRightly(f)' <=> CitesRightly(f))
        /\ (\A gs : CitesAll(gs)' <=> CitesAll(gs))
    BY <2>1, RulesKept
  <2> QED BY <2>1, <2>2, <2>3 DEF FindingsInv, Unique
<1> QED
  BY <1>1, <1>2, <1>3, <1>4 DEF ReportNext

LEMMA RanReportKeeps ==
  ASSUME EvidenceInv, RanInv, [ReportNext]_reportVars
  PROVE  RanInv'
<1>1. CASE EvidenceStep
  BY <1>1, RanStepKeeps
<1>2. CASE UNCHANGED evidenceVars
  BY <1>2, RanKept DEF evidenceVars
<1>3. AttributeEvents \/ EvaluateRules \/ WriteReport \/ UNCHANGED reportVars
        => UNCHANGED evidenceVars
  BY DEF AttributeEvents, EvaluateRules, WriteReport, reportVars, observedVars
<1> QED
  BY <1>1, <1>2, <1>3 DEF ReportNext

-----------------------------------------------------------------------------
(* The comparison.  An event that is outside the scope of an experiment in *)
(* a capability, and one that only overlaps the tool call.                 *)
IsOutside(e, x, c) ==
  /\ SelectedEvent(e, x) /\ c \in CapabilityForEvent(e)
  /\ ScopeOf(x) # {} /\ \A s \in ScopeOf(x) : ~EventMatchesScope(e, c, s)

LEMMA OneEvent ==
  ASSUME EvidenceInv, NEW d \in ToSet(observed), NEW e \in ToSet(observed),
         EventId(d) = EventId(e)
  PROVE  d = e
BY EventsApart, InSequence

LEMMA OutsideIs ==
  ASSUME EvidenceInv, NEW x, NEW c, NEW id
  PROVE  id \in Row(x, c).outside <=>
           \E e \in ToSet(observed) : id = EventId(e) /\ IsOutside(e, x, c)
<1> DEFINE Runtime(e) == SelectedEvent(e, x) /\ c \in CapabilityForEvent(e)
           Matches(e) == \E s \in ScopeOf(x) : EventMatchesScope(e, c, s)
<1>1. id \in Row(x, c).outside <=>
        /\ ScopeOf(x) # {}
        /\ \E e \in ToSet(observed) : Runtime(e) /\ id = EventId(e)
        /\ ~ \E e \in ToSet(observed) : (Runtime(e) /\ Matches(e)) /\ id = EventId(e)
  BY DEF Row, Ids
<1>2. \A d, e \in ToSet(observed) : EventId(d) = EventId(e) => d = e
  BY OneEvent
<1> QED
  BY <1>1, <1>2 DEF IsOutside

LEMMA OverlapOf ==
  ASSUME NEW x, NEW c, NEW id \in Row(x, c).overlap
  PROVE  \E e \in ToSet(observed) : id = EventId(e) /\ TemporalOverlap(e, x)
BY DEF Row, Ids

(* What rules.ts calls a finding's scope the comparison calls outside.     *)
IsScopeRule(rule) == rule \in {"file scope", "network", "exec"}

LEMMA CapabilityIs ==
  ASSUME NEW e
  PROVE  /\ "filesystem_access" \in CapabilityForEvent(e) <=>
              /\ IsFile(e) \/ e.effect.kind = "file.open"
              /\ ~DirectoryRead(e) /\ Inside(e)
         /\ "network_access" \in CapabilityForEvent(e) <=>
              /\ e.effect.kind \in {"network.connect_attempt", "network.listen"}
              /\ ~Routine(e)
         /\ "process_execution" \in CapabilityForEvent(e) <=>
              e.effect.kind = "process.exec" /\ IsChild(e)
BY DEF CapabilityForEvent

LEMMA MatchIs ==
  ASSUME NEW e, NEW s
  PROVE  /\ IsFile(e) => (EventMatchesScope(e, "filesystem_access", s)
                            <=> AllowedPath(e, s))
         /\ e.effect.kind = "network.connect_attempt" =>
              (EventMatchesScope(e, "network_access", s) <=> AllowedAddress(e, s))
         /\ EventMatchesScope(e, "process_execution", s) <=> AllowedProgram(e, s)
<1>1. IsFile(e) => (EventMatchesScope(e, "filesystem_access", s)
                      <=> AllowedPath(e, s))
  <2>1. CASE e.effect.kind = "file.read"
    BY <2>1 DEF EventMatchesScope, AllowedPath
  <2>2. CASE e.effect.kind \in {"file.write", "file.delete"}
    BY <2>2 DEF EventMatchesScope, AllowedPath
  <2> QED BY <2>1, <2>2 DEF IsFile
<1>2. e.effect.kind = "network.connect_attempt" =>
        (EventMatchesScope(e, "network_access", s) <=> AllowedAddress(e, s))
  BY DEF EventMatchesScope, AllowedAddress
<1>3. EventMatchesScope(e, "process_execution", s) <=> AllowedProgram(e, s)
  BY DEF EventMatchesScope, AllowedProgram
<1> QED
  BY <1>1, <1>2, <1>3

(* A scope finding of the initialization is about an event outside.        *)
LEMMA InitialOutside ==
  ASSUME EvidenceInv, NEW e, NEW rule, IsScopeRule(rule), InitialRule(e, rule)
  PROVE  \E c \in Compared : IsOutside(e, Baseline, c)
<1>1. PICK s \in ScopeOf(Baseline) :
        \/ rule = "file scope" /\ InitialFile(e, s)
        \/ rule = "exec" /\ InitialExec(e, s)
        \/ rule = "network" /\ InitialConnection(e, s)
  BY DEF InitialRule, IsScopeRule
<1>2. \A t \in ScopeOf(Baseline) : t = s
  BY <1>1, OneScope, CallNotReserved
    DEF ScopeOf, Baseline, EvidenceInv, EvidenceTypes
<1>3. CASE InitialFile(e, s)
  <2>1. IsOutside(e, Baseline, "filesystem_access")
    BY <1>2, <1>3, CapabilityIs, MatchIs
      DEF IsOutside, InitialFile, SelectedEvent, InInitialization
  <2> QED BY <2>1 DEF Compared
<1>4. CASE InitialExec(e, s)
  <2>1. IsOutside(e, Baseline, "process_execution")
    BY <1>2, <1>4, CapabilityIs, MatchIs
      DEF IsOutside, InitialExec, SelectedEvent, InInitialization
  <2> QED BY <2>1 DEF Compared
<1>5. CASE InitialConnection(e, s)
  <2>1. IsOutside(e, Baseline, "network_access")
    BY <1>2, <1>5, CapabilityIs, MatchIs
      DEF IsOutside, InitialConnection, SelectedEvent, InInitialization
  <2> QED BY <2>1 DEF Compared
<1> QED
  BY <1>1, <1>3, <1>4, <1>5

(* So is one of the tool call, but for the exec of the server itself.      *)
LEMMA ToolOutside ==
  ASSUME NEW e, NEW rule, IsScopeRule(rule), ToolRule(e, rule),
         rule # "exec" \/ IsChild(e)
  PROVE  \E c \in Compared : IsOutside(e, Call, c)
<1> DEFINE s == config.expected
<1>1. ScopeOf(Call) = {s} /\ Call # Baseline
  BY CallNotReserved DEF ScopeOf, Baseline
<1> HIDE DEF s
<1>2. CASE rule = "file scope" /\ ToolFile(e, s)
  <2>1. IsOutside(e, Call, "filesystem_access")
    BY <1>1, <1>2, CapabilityIs, MatchIs
      DEF IsOutside, ToolFile, SelectedEvent, InTool
  <2> QED BY <2>1 DEF Compared
<1>3. CASE rule = "exec" /\ ToolExec(e, s)
  <2>1. IsOutside(e, Call, "process_execution")
    BY <1>1, <1>3, CapabilityIs, MatchIs
      DEF IsOutside, ToolExec, SelectedEvent, InTool
  <2> QED BY <2>1 DEF Compared
<1>4. CASE rule = "network" /\ ToolConnection(e, s)
  <2>1. IsOutside(e, Call, "network_access")
    BY <1>1, <1>4, CapabilityIs, MatchIs
      DEF IsOutside, ToolConnection, SelectedEvent, InTool
  <2> QED BY <2>1 DEF Compared
<1>5. rule # "post return"
  BY DEF IsScopeRule
<1> QED
  BY <1>2, <1>3, <1>4, <1>5 DEF ToolRule, s

(* An event outside comes under a rule, but for what no rule covers.       *)
Uncovered(e) ==
  \/ e.effect.kind = "file.open"
  \/ e.effect.kind = "process.exec" /\ ~e.effect.ok
  \/ e.effect.kind = "network.listen" /\ ~ActiveIn(e, Call, {"cooldown"})

LEMMA InitialCovered ==
  ASSUME NEW e, NEW c \in Compared, IsOutside(e, Baseline, c), ~Uncovered(e)
  PROVE  \E rule \in Rules : InitialRule(e, rule)
<1>1. PICK s \in ScopeOf(Baseline) : ~EventMatchesScope(e, c, s)
  BY DEF IsOutside
<1>2. /\ InInitialization(e) /\ c \in CapabilityForEvent(e)
  BY DEF IsOutside, SelectedEvent, InInitialization
<1>3. CASE c = "filesystem_access"
  <2>1. IsFile(e) /\ ~DirectoryRead(e) /\ Inside(e)
    BY <1>2, <1>3, CapabilityIs DEF Uncovered
  <2>2. ~AllowedPath(e, s)
    BY <1>1, <1>3, <2>1, MatchIs
  <2>3. CASE SensitiveRead(e)
    BY <2>3 DEF InitialRule, Rules
  <2>4. CASE ~SensitiveRead(e)
    <3>1. InitialFile(e, s)
      BY <1>2, <2>1, <2>2, <2>4 DEF InitialFile
    <3> QED BY <3>1 DEF InitialRule, Rules
  <2> QED BY <2>3, <2>4
<1>4. CASE c = "network_access"
  <2>1. /\ e.effect.kind \in {"network.connect_attempt", "network.listen"}
        /\ ~Routine(e)
    BY <1>2, <1>4, CapabilityIs
  <2>2. ~ActiveIn(e, Call, {"cooldown"})
    BY <1>2, CallNotReserved DEF InInitialization, ActiveIn, Baseline
  <2>3. e.effect.kind = "network.connect_attempt"
    BY <2>1, <2>2 DEF Uncovered
  <2>4. InitialConnection(e, s)
    BY <1>1, <1>2, <1>4, <2>1, <2>3, MatchIs DEF InitialConnection
  <2> QED BY <2>4 DEF InitialRule, Rules
<1>5. CASE c = "process_execution"
  <2>1. e.effect.kind = "process.exec" /\ IsChild(e)
    BY <1>2, <1>5, CapabilityIs
  <2>2. e.effect.ok
    BY <2>1 DEF Uncovered
  <2>3. InitialExec(e, s)
    BY <1>1, <1>2, <1>5, <2>1, <2>2, MatchIs DEF InitialExec
  <2> QED BY <2>3 DEF InitialRule, Rules
<1> QED
  BY <1>3, <1>4, <1>5 DEF Compared

(* Only one phase is active: the call and what comes after it are apart.   *)
LEMMA OneActive ==
  ASSUME EvidenceInv, attributions = {Attributed}, NEW e \in ToSet(observed),
         NEW x, ActiveIn(e, x, {"tool"})
  PROVE  ~ActiveIn(e, x, {"cooldown"})
<1>1. Of(e).active = {IdOf(p) : p \in ActivePhase(e)}
  BY OfIs DEF Attribution
<1>2. \A p, q \in ActivePhase(e) : p = q
  BY ActiveIs
<1>3. \A a, b \in Of(e).active : a = b
  BY <1>1, <1>2
<1> QED
  BY <1>3 DEF ActiveIn

LEMMA ToolCovered ==
  ASSUME EvidenceInv, attributions = {Attributed}, NEW e \in ToSet(observed),
         NEW c \in Compared, IsOutside(e, Call, c), ~Uncovered(e)
  PROVE  \E rule \in Rules : ToolRule(e, rule)
<1> DEFINE s == config.expected
<1>1. ScopeOf(Call) = {s} /\ Call # Baseline
  BY CallNotReserved DEF ScopeOf, Baseline
<1>2. /\ InTool(e) \/ (ActiveIn(e, Call, {"cooldown"}) /\ FromTool(e))
      /\ c \in CapabilityForEvent(e) /\ ~EventMatchesScope(e, c, s)
  BY <1>1 DEF IsOutside, SelectedEvent, InTool
<1>3. InTool(e) => ~ActiveIn(e, Call, {"cooldown"})
  BY OneActive DEF InTool
<1> HIDE DEF s
<1>4. CASE c = "filesystem_access"
  <2>1. IsFile(e) /\ ~DirectoryRead(e) /\ Inside(e)
    BY <1>2, <1>4, CapabilityIs DEF Uncovered
  <2>2. ~AllowedPath(e, s)
    BY <1>2, <1>4, <2>1, MatchIs
  <2>3. ToolFile(e, s) \/ PostReturn(e)
    BY <1>2, <2>1, <2>2 DEF ToolFile, PostReturn
  <2> QED BY <2>3 DEF ToolRule, Rules, s
<1>5. CASE c = "network_access"
  <2>1. /\ e.effect.kind \in {"network.connect_attempt", "network.listen"}
        /\ ~Routine(e)
    BY <1>2, <1>5, CapabilityIs
  <2>2. CASE e.effect.kind = "network.connect_attempt"
    <3>1. ~AllowedAddress(e, s)
      BY <1>2, <1>5, <2>2, MatchIs
    <3>2. ToolConnection(e, s) \/ PostReturn(e)
      BY <1>2, <2>1, <2>2, <3>1 DEF ToolConnection, PostReturn
    <3> QED BY <3>2 DEF ToolRule, Rules, s
  <2>3. CASE e.effect.kind = "network.listen"
    <3>1. ActiveIn(e, Call, {"cooldown"}) /\ FromTool(e)
      BY <1>2, <1>3, <2>3 DEF Uncovered
    <3>2. PostReturn(e)
      BY <2>3, <3>1 DEF PostReturn
    <3> QED BY <3>2 DEF ToolRule, Rules
  <2> QED BY <2>1, <2>2, <2>3
<1>6. CASE c = "process_execution"
  <2>1. e.effect.kind = "process.exec" /\ IsChild(e)
    BY <1>2, <1>6, CapabilityIs
  <2>2. e.effect.ok
    BY <2>1 DEF Uncovered
  <2>3. ~AllowedProgram(e, s)
    BY <1>2, <1>6, MatchIs
  <2>4. ToolExec(e, s) \/ PostReturn(e)
    BY <1>2, <2>1, <2>2, <2>3 DEF ToolExec, PostReturn
  <2> QED BY <2>4 DEF ToolRule, Rules, s
<1> QED
  BY <1>4, <1>5, <1>6 DEF Compared

(* A sure event does not only overlap the call.                            *)
LEMMA SureIsNoOverlap ==
  ASSUME EvidenceInv, attributions = {Attributed}, NEW e \in ToSet(observed),
         NEW x, Of(e).confidence = "high"
  PROVE  ~TemporalOverlap(e, x)
<1> DEFINE active == ActivePhase(e)
           origin == OriginPhase(e)
<1>1. /\ Of(e).active = {IdOf(p) : p \in active}
      /\ Of(e).origin = {IdOf(p) : p \in origin}
      /\ Of(e).confidence = Confidence(active, origin)
      /\ Of(e).reasons = Reasons(e, active, origin)
  BY OfIs DEF Attribution
<1> HIDE DEF active, origin
<1>2. SamePhase(origin, active)
  BY <1>1, HighIs
<1>3. Of(e).origin = Of(e).active
  BY <1>1, <1>2 DEF SamePhase
<1>4. "tool_phase_temporal_overlap_only" \notin Of(e).reasons
  BY <1>1, <1>2, OverlapIs
<1> QED
  BY <1>3, <1>4 DEF TemporalOverlap

(* What the summary calls expected is in the scope.                        *)
LEMMA ExpectedIsInside ==
  ASSUME NEW e, NEW s, NEW c \in Compared, c \in CapabilityForEvent(e),
         EventMatchesExpectedScope(e, s)
  PROVE  EventMatchesScope(e, c, s)
<1>1. CASE c = "filesystem_access"
  <2>1. IsFile(e) \/ e.effect.kind = "file.open"
    BY <1>1, CapabilityIs
  <2>2. CASE e.effect.kind = "file.read"
    BY <1>1, <2>2 DEF EventMatchesExpectedScope, EventMatchesScope
  <2>3. CASE e.effect.kind \in {"file.write", "file.delete"}
    BY <1>1, <2>3 DEF EventMatchesExpectedScope, EventMatchesScope
  <2>4. CASE e.effect.kind = "file.open"
    BY <2>4 DEF EventMatchesExpectedScope
  <2> QED BY <2>1, <2>2, <2>3, <2>4 DEF IsFile
<1>2. CASE c = "network_access"
  <2>1. e.effect.kind \in {"network.connect_attempt", "network.listen"}
    BY <1>2, CapabilityIs
  <2>2. CASE e.effect.kind = "network.connect_attempt"
    BY <1>2, <2>2 DEF EventMatchesExpectedScope, EventMatchesScope
  <2>3. CASE e.effect.kind = "network.listen"
    BY <2>3 DEF EventMatchesExpectedScope
  <2> QED BY <2>1, <2>2, <2>3
<1>3. CASE c = "process_execution"
  <2>1. e.effect.kind = "process.exec"
    BY <1>3, CapabilityIs
  <2> QED BY <1>3, <2>1 DEF EventMatchesExpectedScope, EventMatchesScope
<1> QED
  BY <1>1, <1>2, <1>3 DEF Compared

(* The report: what its parts say of the events.                           *)
Side(f) == IF f.id[1] = Call THEN Call ELSE Baseline
OutsideIn(r, x) == UNION {r.scopes[x][c].outside : c \in Compared}
OverlapIn(r, x) == UNION {r.scopes[x][c].overlap : c \in Compared}
CitedIn(r, x) == UNION {f.events : f \in {g \in r.findings : Side(g) = x}}
EventOf(id) == CHOOSE e \in ToSet(observed) : EventId(e) = id

CitationsAgree(r) ==
  \A f \in r.findings : \A id \in f.events :
    /\ f.rule \in {"file scope", "network", "exec"} =>
         \/ id \in OutsideIn(r, Side(f))
         \/ f.rule = "exec" /\ ~IsChild(EventOf(id))
    /\ f.confidence = "high" => id \notin OverlapIn(r, Side(f))

OutsideAgrees(r) ==
  \A x \in DOMAIN r.scopes :
    /\ \A id \in OutsideIn(r, x) : id \in CitedIn(r, x) \/ Uncovered(EventOf(id))
    /\ r.observations[x].matches \cap OutsideIn(r, x) = {}

LEMMA AgreementIs ==
  FindingsAgree <=> \A r \in report : CitationsAgree(r) /\ OutsideAgrees(r)
BY DEF FindingsAgree, CitationsAgree, OutsideAgrees, Side, OutsideIn, OverlapIn,
       CitedIn, EventOf, Uncovered

Written == NewReport(HealthOf(ReportedIds))

LEMMA WrittenIs ==
  ASSUME findings # {}
  PROVE  /\ Written.findings \in findings
         /\ DOMAIN Written.scopes = Ran
         /\ \A x \in Ran, c \in Compared : Written.scopes[x][c] = Row(x, c)
         /\ \A x \in Ran : Written.observations[x] = Observation(x)
<1>1. /\ Written.findings = CHOOSE f \in findings : TRUE
      /\ Written.scopes = Comparison
      /\ Written.observations = [x \in ToSet(Experiments) |-> Observation(x)]
  BY DEF Written, NewReport
<1>2. Written.findings \in findings
  BY <1>1
<1> QED
  BY <1>1, <1>2, ExperimentsRan DEF Comparison

(* What an initialization rule is about happened in the baseline.          *)
LEMMA InitialRan ==
  ASSUME RanInv, NEW e \in ToSet(observed), NEW rule, InitialRule(e, rule)
  PROVE  Baseline \in Ran
<1>1. InInitialization(e)
  BY DEF InitialRule, SensitiveRead, InitialFile, InitialExec, InitialConnection
<1>2. e.experiment = Baseline
  BY <1>1 DEF InInitialization, ActiveIn
<1> QED
  BY <1>2, InSequence DEF RanInv

LEMMA WrittenAgrees ==
  ASSUME EvidenceInv, AttributionInv, RanInv, FindingsInv, findings # {},
         Call # "initialization"
  PROVE  CitationsAgree(Written) /\ OutsideAgrees(Written)
<1> DEFINE r == Written
<1>1. /\ r.findings \in findings /\ DOMAIN r.scopes = Ran
      /\ \A x \in Ran, c \in Compared : r.scopes[x][c] = Row(x, c)
      /\ \A x \in Ran : r.observations[x] = Observation(x)
  BY WrittenIs
<1>2. attributions = {Attributed}
  BY DEF AttributionInv, FindingsInv
<1>3. (\A f \in r.findings : CitesRightly(f)) /\ CitesAll(r.findings)
  BY <1>1 DEF FindingsInv
<1>4. Call \in Ran /\ Ran \subseteq {Call, Baseline}
  BY DEF Ran, Names
<1> HIDE DEF r
<1>5. \A x \in Ran : \A id : id \in OutsideIn(r, x) <=>
        \E c \in Compared : \E e \in ToSet(observed) :
          id = EventId(e) /\ IsOutside(e, x, c)
  BY <1>1, OutsideIs DEF OutsideIn
<1>6. \A x \in Ran : \A id \in OverlapIn(r, x) : \E e \in ToSet(observed) :
        id = EventId(e) /\ TemporalOverlap(e, x)
  <2> SUFFICES ASSUME NEW x \in Ran, NEW id \in OverlapIn(r, x)
               PROVE  \E e \in ToSet(observed) :
                        id = EventId(e) /\ TemporalOverlap(e, x)
    OBVIOUS
  <2>1. PICK c \in Compared : id \in Row(x, c).overlap
    BY <1>1 DEF OverlapIn
  <2> QED BY <2>1, OverlapOf
<1>7. \A e \in ToSet(observed) : EventOf(EventId(e)) = e
  BY EventNamed DEF EventOf
<1>8. CitationsAgree(r)
  <2> SUFFICES ASSUME NEW f \in r.findings, NEW id \in f.events
               PROVE  /\ IsScopeRule(f.rule) =>
                           \/ id \in OutsideIn(r, Side(f))
                           \/ f.rule = "exec" /\ ~IsChild(EventOf(id))
                      /\ f.confidence = "high" => id \notin OverlapIn(r, Side(f))
    BY DEF CitationsAgree, IsScopeRule
  <2>1. PICK e \in ToSet(observed) :
          /\ id = EventId(e) /\ RuleOf(e, f.id[1], f.rule)
          /\ f.confidence = "high" => Of(e).confidence = "high"
    BY <1>3 DEF CitesRightly
  <2>2. EventOf(id) = e
    BY <1>7, <2>1
  <2>3. \/ Side(f) = Baseline /\ InitialRule(e, f.rule)
        \/ Side(f) = Call /\ ToolRule(e, f.rule)
    BY <2>1 DEF RuleOf, Side
  <2>4. Side(f) \in Ran
    BY <1>4, <2>3, InitialRan
  <2>5. ASSUME IsScopeRule(f.rule)
        PROVE  \/ id \in OutsideIn(r, Side(f))
               \/ f.rule = "exec" /\ ~IsChild(EventOf(id))
    <3>1. CASE Side(f) = Baseline /\ InitialRule(e, f.rule)
      <4>1. \E c \in Compared : IsOutside(e, Baseline, c)
        BY <2>5, <3>1, InitialOutside
      <4> QED BY <1>5, <2>1, <2>4, <3>1, <4>1
    <3>2. CASE /\ Side(f) = Call /\ ToolRule(e, f.rule)
               /\ f.rule # "exec" \/ IsChild(e)
      <4>1. \E c \in Compared : IsOutside(e, Call, c)
        BY <2>5, <3>2, ToolOutside
      <4> QED BY <1>5, <2>1, <2>4, <3>2, <4>1
    <3> QED BY <2>2, <2>3, <3>1, <3>2
  <2>6. ASSUME f.confidence = "high", id \in OverlapIn(r, Side(f))
        PROVE  FALSE
    <3>1. PICK d \in ToSet(observed) :
            id = EventId(d) /\ TemporalOverlap(d, Side(f))
      BY <1>6, <2>4, <2>6
    <3>2. d = e
      BY <2>1, <3>1, OneEvent
    <3> QED BY <1>2, <2>1, <2>6, <3>1, <3>2, SureIsNoOverlap
  <2> QED BY <2>5, <2>6
<1>9. OutsideAgrees(r)
  <2> SUFFICES ASSUME NEW x \in Ran, NEW id \in OutsideIn(r, x)
               PROVE  /\ id \in CitedIn(r, x) \/ Uncovered(EventOf(id))
                      /\ id \notin r.observations[x].matches
    BY <1>1 DEF OutsideAgrees
  <2>1. PICK c \in Compared, e \in ToSet(observed) :
          id = EventId(e) /\ IsOutside(e, x, c)
    BY <1>5
  <2>2. EventOf(id) = e
    BY <1>7, <2>1
  <2>3. ASSUME ~Uncovered(e)
        PROVE  id \in CitedIn(r, x)
    <3>1. CASE x = Baseline
      <4>1. PICK rule \in Rules : InitialRule(e, rule)
        BY <2>1, <2>3, <3>1, InitialCovered
      <4>2. RuleOf(e, "initialization", rule) /\ "initialization" \in Sides
        BY <4>1 DEF RuleOf, Sides
      <4>3. PICK f \in r.findings :
              f.id[1] = "initialization" /\ EventId(e) \in f.events
        BY <1>3, <4>2 DEF CitesAll
      <4>4. Side(f) = Baseline
        BY <4>3 DEF Side
      <4> QED BY <2>1, <3>1, <4>3, <4>4 DEF CitedIn
    <3>2. CASE x = Call
      <4>1. PICK rule \in Rules : ToolRule(e, rule)
        BY <1>2, <2>1, <2>3, <3>2, ToolCovered
      <4>2. RuleOf(e, Call, rule) /\ Call \in Sides
        BY <4>1 DEF RuleOf, Sides
      <4>3. PICK f \in r.findings : f.id[1] = Call /\ EventId(e) \in f.events
        BY <1>3, <4>2 DEF CitesAll
      <4>4. Side(f) = Call
        BY <4>3 DEF Side
      <4> QED BY <2>1, <3>2, <4>3, <4>4 DEF CitedIn
    <3> QED BY <1>4, <3>1, <3>2
  <2>4. ASSUME id \in r.observations[x].matches
        PROVE  FALSE
    <3>1. id \in Observation(x).matches
      BY <1>1, <2>4
    <3>2. PICK d \in ToSet(observed) :
            /\ id = EventId(d) /\ x = Call
            /\ EventMatchesExpectedScope(d, config.expected)
      BY <3>1 DEF Observation, Ids
    <3>3. d = e
      BY <2>1, <3>2, OneEvent
    <3>4. EventMatchesScope(e, c, config.expected)
      BY <2>1, <3>2, <3>3, ExpectedIsInside DEF IsOutside
    <3>5. config.expected \in ScopeOf(x)
      BY <3>2 DEF ScopeOf
    <3> QED BY <2>1, <3>4, <3>5 DEF IsOutside
  <2> QED BY <2>2, <2>3, <2>4
<1> QED
  BY <1>8, <1>9 DEF r

(* A report is written of what is looked at, and then nothing changes.     *)
LEMMA AgreementKept ==
  ASSUME UNCHANGED <<observed, attributions>>
  PROVE  /\ \A r : CitationsAgree(r)' <=> CitationsAgree(r)
         /\ \A r : OutsideAgrees(r)' <=> OutsideAgrees(r)
<1>1. \A e : Of(e)' = Of(e)
  BY DEF Of
<1>2. /\ \A e : IsChild(e)' <=> IsChild(e)
      /\ \A e : Uncovered(e)' <=> Uncovered(e)
  BY <1>1 DEF IsChild, Uncovered, ActiveIn
<1>3. \A id : EventOf(id)' = EventOf(id)
  BY DEF EventOf, EventId
<1>4. /\ \A r, x : OutsideIn(r, x)' = OutsideIn(r, x)
      /\ \A r, x : OverlapIn(r, x)' = OverlapIn(r, x)
      /\ \A r, x : CitedIn(r, x)' = CitedIn(r, x)
      /\ \A f : Side(f)' = Side(f)
  BY DEF OutsideIn, OverlapIn, CitedIn, Side
<1> QED
  BY <1>2, <1>3, <1>4 DEF CitationsAgree, OutsideAgrees

ReportInv ==
  /\ EvidenceInv /\ AttributionInv /\ RanInv /\ FindingsInv
  /\ Call # "initialization" =>
       \A r \in report : /\ CitationsAgree(r) /\ OutsideAgrees(r)
                         /\ FindingsUnique(r)

LEMMA ReportInvKept ==
  ASSUME ReportInv, [ReportNext]_reportVars
  PROVE  ReportInv'
<1>1. (EvidenceInv /\ AttributionInv /\ RanInv /\ FindingsInv)'
  BY ReportStepKeeps, RanReportKeeps, FindingsStepKeeps DEF ReportInv
<1>2. ASSUME Call # "initialization", NEW r \in report'
      PROVE  (CitationsAgree(r) /\ OutsideAgrees(r))' /\ FindingsUnique(r)
  <2>1. CASE WriteReport
    <3>1. findings # {} /\ r = Written /\ UNCHANGED <<observed, attributions>>
      BY <1>2, <2>1 DEF WriteReport, Written, observedVars, evidenceVars
    <3>2. CitationsAgree(r) /\ OutsideAgrees(r)
      BY <1>2, <3>1, WrittenAgrees DEF ReportInv
    <3>3. r.findings \in findings
      BY <3>1, WrittenIs
    <3>4. FindingsUnique(r)
      BY <1>2, <3>3 DEF ReportInv, FindingsInv, FindingsUnique, Unique
    <3> QED BY <3>1, <3>2, <3>4, AgreementKept
  <2>2. CASE UNCHANGED <<report, observed, attributions>>
    <3>1. r \in report
      BY <1>2, <2>2
    <3>2. CitationsAgree(r) /\ OutsideAgrees(r) /\ FindingsUnique(r)
      BY <1>2, <3>1 DEF ReportInv
    <3> QED BY <2>2, <3>2, AgreementKept
  <2>3. CASE report' = report /\ findings = {}
    BY <1>2, <2>3 DEF ReportInv, FindingsInv
  <2>4. ASSUME EvidenceStep \/ AttributeEvents \/ EvaluateRules, report' = report
        PROVE  findings = {}
    <3>1. CASE EvidenceStep
      <4>1. running # <<>>
        BY <3>1, EvidenceStepKeeps DEF ReportInv
      <4> QED BY <4>1 DEF ReportInv, AttributionInv, FindingsInv
    <3>2. CASE AttributeEvents
      BY <3>2 DEF AttributeEvents, ReportInv, FindingsInv
    <3>3. CASE EvaluateRules
      BY <3>3 DEF EvaluateRules
    <3> QED BY <2>4, <3>1, <3>2, <3>3
  <2>5. UNCHANGED reportVars => UNCHANGED <<report, observed, attributions>>
    BY DEF reportVars, observedVars, evidenceVars
  <2> QED BY <2>1, <2>2, <2>3, <2>4, <2>5 DEF ReportNext
<1> QED
  BY <1>1, <1>2 DEF ReportInv, FindingsUnique

(* The findings are made from the attributions, and the report from them.  *)
(* (analyze.ts, report.ts:1245.)                                           *)
THEOREM ReportInvariant == ReportSpec => []ReportInv
<1>1. ReportInit => ReportInv
  BY EvidenceInitially, RanInitially
    DEF ReportInit, ReportInv, FindingsInv, ObservedInit
<1>2. ReportInv /\ [ReportNext]_reportVars => ReportInv'
  BY ReportInvKept
<1> QED
  BY <1>1, <1>2, PTL DEF ReportSpec

(* The rules and the comparison agree on what was outside the operator's   *)
(* scope, in every report, unless the operator calls the tool experiment   *)
(* as the findings of the initialization are called.  (rules.ts:354,       *)
(* behavior-comparison.ts:485, report.ts:236.)                             *)
THEOREM FindingsAgreeHolds ==
  ASSUME Call # "initialization"
  PROVE  ReportSpec => []FindingsAgree
<1>1. ReportInv => FindingsAgree
  BY AgreementIs DEF ReportInv
<1> QED
  BY <1>1, ReportInvariant, PTL

(* Nor do two findings of a report then share their id: that name is the   *)
(* only one for which they do.  (v1.ts:2133.)                              *)
THEOREM FindingIdsHold ==
  ASSUME Call # "initialization"
  PROVE  ReportSpec => []FindingIdsUnique
<1>1. ReportInv => FindingIdsUnique
  BY DEF ReportInv, FindingIdsUnique
<1> QED
  BY <1>1, ReportInvariant, PTL

-----------------------------------------------------------------------------
(* Folds.  The community modules fold a set by a recursive function on its *)
(* subsets, which takes one element after the other.  That there is such a *)
(* function, and only one, follows from the well-foundedness of strict     *)
(* inclusion.  The model has a sum over a set, and from left to right over *)
(* the records of a trace the processes, and the events; t says which.     *)

Pick(s) == CHOOSE x \in s : TRUE

Sum(f) == [fold |-> "sum", of |-> f]

StateAfter(state, r, closed) == RecordBind(Maintain(state, r, closed), r)

Taken(t, s) == IF t.fold = "sum" THEN Pick(s) ELSE Max(s)
Put(t, x, v) ==
  CASE t.fold = "sum" -> t.of[x] + v
    [] t.fold = "owners" -> OwnerAfter(v, t.of[x])
    [] t.fold = "states" -> StateAfter(v, t.of[x], t.closed)
    [] OTHER -> NormalizeRecord(v, t.of[x], t.owner, t.closed)
Start(t) == IF t.fold = "sum" THEN 0 ELSE t.start

IsFold(t, S, g) ==
  g = [s \in SUBSET S |-> IF s = {} THEN Start(t)
                          ELSE Put(t, Taken(t, s), g[s \ {Taken(t, s)}])]

FoldOn(t, S) == (CHOOSE g : IsFold(t, S, g))[S]
SumOn(f, S) == FoldOn(Sum(f), S)

(* What holds of a set when it holds of every smaller one holds of every   *)
(* subset of a finite set.                                                 *)
LEMMA SubsetInduction ==
  ASSUME NEW S, IsFiniteSet(S), NEW G,
         \A T \in SUBSET S : (\A U \in SUBSET T : U # T => U \in G) => T \in G
  PROVE  \A T \in SUBSET S : T \in G
<1> SUFFICES ASSUME (SUBSET S) \ G # {}
             PROVE  FALSE
  OBVIOUS
<1>1. IsWellFoundedOn(StrictSubsetOrdering(S), SUBSET S)
  <2>1. IsWellFoundedOn(StrictSubsetOrdering(S), FiniteSubsetsOf(S))
    BY FS_StrictSubsetOrderingWellFounded
  <2>2. FiniteSubsetsOf(S) = SUBSET S
    BY FS_FiniteSubsetsOfFinite
  <2> QED
    BY <2>1, <2>2
<1> DEFINE F == (SUBSET S) \ G
<1>2. F # {} /\ F \subseteq SUBSET S
  OBVIOUS
<1> HIDE DEF F
<1>3. PICK T \in F : \A U \in F : ~ (<<U, T>> \in StrictSubsetOrdering(S))
  BY <1>1, <1>2, WFMin
<1>4. \A U \in SUBSET T : U # T => U \notin F
  BY <1>2, <1>3 DEF StrictSubsetOrdering
<1> QED
  BY <1>2, <1>3, <1>4 DEF F

LEMMA PickIs ==
  ASSUME NEW s, s # {}
  PROVE  Pick(s) \in s
BY DEF Pick

(* An element is taken of every set that is not empty.                     *)
Takes(t, S) == \A s \in SUBSET S : s # {} => Taken(t, s) \in s

(* The function that folds is one and only.                                *)
HasFold(t, S) == \E g : IsFold(t, S, g) /\ \A h : IsFold(t, S, h) => h = g

Cut(g, T) == [s \in SUBSET T |-> g[s]]

LEMMA FoldRestricted ==
  ASSUME NEW t, NEW S, NEW T \in SUBSET S, NEW g, IsFold(t, S, g)
  PROVE  IsFold(t, T, Cut(g, T))
<1> DEFINE h == [s \in SUBSET T |-> g[s]]
<1>1. ASSUME NEW s \in SUBSET T
      PROVE  h[s] = IF s = {} THEN Start(t) ELSE Put(t, Taken(t, s), h[s \ {Taken(t, s)}])
  <2>1. s \in SUBSET S /\ s \ {Taken(t, s)} \in SUBSET T
    OBVIOUS
  <2>2. g[s] = IF s = {} THEN Start(t) ELSE Put(t, Taken(t, s), g[s \ {Taken(t, s)}])
    BY <2>1 DEF IsFold
  <2> QED
    BY <2>1, <2>2
<1> HIDE DEF h
<1>2. h = [s \in SUBSET T |-> h[s]]
  BY DEF h
<1>3. h = [s \in SUBSET T |-> IF s = {} THEN Start(t) ELSE Put(t, Taken(t, s), h[s \ {Taken(t, s)}])]
  BY <1>1, <1>2
<1> QED
  BY <1>3 DEF IsFold, h, Cut

LEMMA FoldExists ==
  ASSUME NEW S, IsFiniteSet(S), NEW t, Takes(t, S)
  PROVE  \A T \in SUBSET S : HasFold(t, T)
<1> DEFINE G == {T \in SUBSET S : HasFold(t, T)}
<1> SUFFICES ASSUME NEW T \in SUBSET S, \A U \in SUBSET T : U # T => U \in G
             PROVE  HasFold(t, T)
  <2>1. \A T \in SUBSET S : (\A U \in SUBSET T : U # T => U \in G) => T \in G
    OBVIOUS
  <2> HIDE DEF G
  <2>2. \A T \in SUBSET S : T \in G
    BY <2>1, SubsetInduction
  <2> QED
    BY <2>2 DEF G
<1> DEFINE The(u) == CHOOSE g : IsFold(t, u, g)
           v == [s \in SUBSET T |-> IF s = {} THEN Start(t)
                   ELSE Put(t, Taken(t, s), The(s \ {Taken(t, s)})[s \ {Taken(t, s)}])]
<1>1. ASSUME NEW u \in SUBSET T, u # T
      PROVE  IsFold(t, u, The(u)) /\ \A h : IsFold(t, u, h) => h = The(u)
  BY <1>1 DEF HasFold
<1>2. ASSUME NEW u \in SUBSET T, u # T
      PROVE  v[u] = The(u)[u]
  <2>1. CASE u = {}
    <3>1. The(u)[u] = Start(t)
      <4>1. IsFold(t, u, The(u))
        BY <1>1, <1>2
      <4> HIDE DEF The
      <4> QED
        BY <2>1, <4>1 DEF IsFold
    <3> QED
      BY <2>1, <3>1
  <2>2. CASE u # {}
    <3> DEFINE w == u \ {Taken(t, u)}
    <3>1. Taken(t, u) \in u
      BY <2>2 DEF Takes
    <3>2. w \in SUBSET T /\ w # T /\ w \in SUBSET u
      BY <1>2, <3>1
    <3>3. The(u)[u] = Put(t, Taken(t, u), The(u)[w])
      <4>1. The(u) = [s \in SUBSET u |-> IF s = {} THEN Start(t)
                        ELSE Put(t, Taken(t, s), The(u)[s \ {Taken(t, s)}])]
        BY <1>1, <1>2 DEF IsFold
      <4> HIDE DEF The
      <4> QED
        BY <2>2, <4>1
    <3>4. The(w) = Cut(The(u), w)
      <4>1. IsFold(t, u, The(u))
        BY <1>1, <1>2
      <4> HIDE DEF The, w
      <4>2. IsFold(t, w, Cut(The(u), w))
        BY <3>2, <4>1, FoldRestricted
      <4> QED
        BY <1>1, <3>2, <4>2
    <3>5. The(w)[w] = The(u)[w]
      <4> HIDE DEF The, w
      <4> QED
        BY <3>4 DEF Cut
    <3> HIDE DEF The
    <3> QED
      BY <2>2, <3>3, <3>5
  <2> QED
    BY <2>1, <2>2
<1>3. IsFold(t, T, v)
  <2>1. ASSUME NEW s \in SUBSET T
        PROVE  v[s] = IF s = {} THEN Start(t) ELSE Put(t, Taken(t, s), v[s \ {Taken(t, s)}])
    <3>1. CASE s = {}
      BY <3>1
    <3>2. CASE s # {}
      <4>1. s \ {Taken(t, s)} \in SUBSET T /\ s \ {Taken(t, s)} # T
        BY <3>2 DEF Takes
      <4>2. v[s \ {Taken(t, s)}] = The(s \ {Taken(t, s)})[s \ {Taken(t, s)}]
        BY <1>2, <4>1
      <4>3. v[s] = Put(t, Taken(t, s), The(s \ {Taken(t, s)})[s \ {Taken(t, s)}])
        BY <3>2
      <4> HIDE DEF v, The
      <4> QED
        BY <3>2, <4>2, <4>3
    <3> QED
      BY <3>1, <3>2
  <2>2. v = [s \in SUBSET T |-> v[s]]
    OBVIOUS
  <2> HIDE DEF v
  <2> QED
    BY <2>1, <2>2 DEF IsFold
<1>4. ASSUME NEW h, IsFold(t, T, h)
      PROVE  h = v
  <2>1. h = [s \in SUBSET T |-> IF s = {} THEN Start(t) ELSE Put(t, Taken(t, s), h[s \ {Taken(t, s)}])]
    BY <1>4 DEF IsFold
  <2>2. ASSUME NEW s \in SUBSET T
        PROVE  h[s] = v[s]
    <3>1. CASE s = {}
      BY <2>1, <3>1
    <3>2. CASE s # {}
      <4> DEFINE w == s \ {Taken(t, s)}
      <4>1. w \in SUBSET T /\ w # T
        BY <3>2 DEF Takes
      <4>2. h[s] = Put(t, Taken(t, s), h[w])
        BY <2>1, <3>2
      <4>3. v[s] = Put(t, Taken(t, s), The(w)[w])
        BY <3>2
      <4> HIDE DEF w, v, The
      <4>4. IsFold(t, w, Cut(h, w))
        BY <1>4, <4>1, FoldRestricted
      <4>5. Cut(h, w) = The(w)
        BY <1>1, <4>1, <4>4
      <4>6. h[w] = The(w)[w]
        BY <4>5 DEF Cut
      <4> QED
        BY <4>2, <4>3, <4>6
    <3> QED
      BY <3>1, <3>2
  <2>3. v = [s \in SUBSET T |-> v[s]]
    OBVIOUS
  <2>4. h = [s \in SUBSET T |-> h[s]]
    BY <2>1
  <2> HIDE DEF v
  <2> QED
    BY <2>2, <2>3, <2>4
<1> HIDE DEF v
<1> QED
  BY <1>3, <1>4 DEF HasFold

(* A fold takes an element, after it has folded the rest.                  *)
LEMMA FoldUnfolds ==
  ASSUME NEW S, IsFiniteSet(S), NEW t, Takes(t, S)
  PROVE  /\ FoldOn(t, {}) = Start(t)
         /\ S # {} => FoldOn(t, S) = Put(t, Taken(t, S), FoldOn(t, S \ {Taken(t, S)}))
<1> DEFINE The(u) == CHOOSE g : IsFold(t, u, g)
<1>1. ASSUME NEW u \in SUBSET S
      PROVE  IsFold(t, u, The(u)) /\ \A h : IsFold(t, u, h) => h = The(u)
  <2>1. HasFold(t, u)
    BY FoldExists
  <2> QED
    BY <2>1 DEF HasFold
<1>2. The({})[{}] = Start(t)
  <2>1. IsFold(t, {}, The({}))
    BY <1>1
  <2> HIDE DEF The
  <2> QED
    BY <2>1 DEF IsFold
<1>3. ASSUME S # {}
      PROVE  The(S)[S] = Put(t, Taken(t, S), The(S \ {Taken(t, S)})[S \ {Taken(t, S)}])
  <2> DEFINE w == S \ {Taken(t, S)}
  <2>1. IsFold(t, S, The(S)) /\ w \in SUBSET S
    BY <1>1
  <2> HIDE DEF The
  <2>2. The(S)[S] = Put(t, Taken(t, S), The(S)[w])
    BY <1>3, <2>1 DEF IsFold
  <2> HIDE DEF w
  <2>3. IsFold(t, w, Cut(The(S), w))
    BY <2>1, FoldRestricted
  <2>4. The(w) = Cut(The(S), w)
    BY <1>1, <2>1, <2>3
  <2>5. The(w)[w] = The(S)[w]
    BY <2>4 DEF Cut
  <2> QED
    BY <2>2, <2>5 DEF w
<1> QED
  BY <1>2, <1>3 DEF FoldOn

LEMMA SumUnfolds ==
  ASSUME NEW S, IsFiniteSet(S), NEW f
  PROVE  /\ SumOn(f, {}) = 0
         /\ S # {} => SumOn(f, S) = f[Pick(S)] + SumOn(f, S \ {Pick(S)})
<1>1. /\ Start(Sum(f)) = 0
      /\ \A s : Taken(Sum(f), s) = Pick(s)
      /\ \A x, v : Put(Sum(f), x, v) = f[x] + v
  BY DEF Start, Sum, Taken, Put
<1>2. Takes(Sum(f), S)
  BY <1>1, PickIs DEF Takes
<1>3. /\ FoldOn(Sum(f), {}) = Start(Sum(f))
      /\ S # {} => FoldOn(Sum(f), S)
            = Put(Sum(f), Taken(Sum(f), S), FoldOn(Sum(f), S \ {Taken(Sum(f), S)}))
  BY <1>2, FoldUnfolds
<1> QED
  BY <1>1, <1>3 DEF SumOn

(* What the report adds up is the sum of its values.                       *)
LEMMA FoldIsSum ==
  ASSUME NEW f, IsFiniteSet(DOMAIN f)
  PROVE  Fold(f) = SumOn(f, DOMAIN f)
<1> DEFINE D == DOMAIN f
           t == Sum(f)
           Q(g) == g = [s \in SUBSET D |-> IF s = {} THEN 0
                                           ELSE f[Pick(s)] + g[s \ {Pick(s)}]]
<1>1. /\ Start(t) = 0
      /\ \A s : Taken(t, s) = Pick(s)
      /\ \A x, v : Put(t, x, v) = f[x] + v
  BY DEF Start, Sum, Taken, Put
<1>2. Fold(f) = (CHOOSE g : Q(g))[D]
  BY DEF Fold, FoldFunction, FoldFunctionOnSet, MapThenFoldSet, Pick
<1> HIDE DEF D, t
<1>3. \A g : Q(g) <=> IsFold(t, D, g)
  BY <1>1 DEF IsFold
<1>4. HasFold(t, D)
  <2>1. Takes(t, D) /\ IsFiniteSet(D)
    BY <1>1, PickIs DEF Takes, D
  <2> QED BY <2>1, FoldExists
<1> HIDE DEF Q
<1>5. PICK h : IsFold(t, D, h) /\ \A g : IsFold(t, D, g) => g = h
  BY <1>4 DEF HasFold
<1>6. (CHOOSE g : Q(g)) = h /\ (CHOOSE g : IsFold(t, D, g)) = h
  BY <1>3, <1>5
<1>7. FoldOn(t, D) = h[D]
  BY <1>6 DEF FoldOn
<1> QED
  BY <1>2, <1>6, <1>7 DEF SumOn, t, D

(* From left to right, one element after the other.                        *)
LeftFolds == {"owners", "states", "pass"}

(* A sum of natural numbers is one, and any element may be taken out.      *)
LEMMA SumIsNat ==
  ASSUME NEW S, IsFiniteSet(S), NEW f, \A x \in S : f[x] \in Nat
  PROVE  \A T \in SUBSET S : SumOn(f, T) \in Nat
<1> DEFINE G == {T \in SUBSET S : SumOn(f, T) \in Nat}
<1>1. ASSUME NEW T \in SUBSET S, \A U \in SUBSET T : U # T => U \in G
      PROVE  SumOn(f, T) \in Nat
  <2>1. IsFiniteSet(T)
    BY FS_Subset
  <2>2. CASE T = {}
    <3>1. SumOn(f, {}) = 0
      BY <2>1, SumUnfolds
    <3> QED
      BY <2>2, <3>1
  <2>3. CASE T # {}
    <3>1. Pick(T) \in T
      BY <2>3, PickIs
    <3>2. SumOn(f, T \ {Pick(T)}) \in Nat
      BY <1>1, <3>1
    <3>3. SumOn(f, T) = f[Pick(T)] + SumOn(f, T \ {Pick(T)})
      BY <2>1, <2>3, SumUnfolds
    <3> QED
      BY <3>1, <3>2, <3>3
  <2> QED
    BY <2>2, <2>3
<1>2. \A T \in SUBSET S : (\A U \in SUBSET T : U # T => U \in G) => T \in G
  BY <1>1
<1> HIDE DEF G
<1>3. \A T \in SUBSET S : T \in G
  BY <1>2, SubsetInduction
<1> QED
  BY <1>3 DEF G

LEMMA SumTakesOut ==
  ASSUME NEW S, IsFiniteSet(S), NEW f, \A x \in S : f[x] \in Nat
  PROVE  \A T \in SUBSET S : \A y \in T : SumOn(f, T) = f[y] + SumOn(f, T \ {y})
<1> DEFINE Out(T, y) == SumOn(f, T) = f[y] + SumOn(f, T \ {y})
           G == {T \in SUBSET S : \A y \in T : Out(T, y)}
<1>1. ASSUME NEW T \in SUBSET S, \A U \in SUBSET T : U # T => U \in G,
             NEW y \in T
      PROVE  Out(T, y)
  <2> DEFINE x == Pick(T)
  <2>1. IsFiniteSet(T) /\ T # {} /\ x \in T
    BY FS_Subset, PickIs
  <2>2. SumOn(f, T) = f[x] + SumOn(f, T \ {x})
    BY <2>1, SumUnfolds
  <2> HIDE DEF x
  <2>3. CASE y = x
    BY <2>2, <2>3
  <2>4. CASE y # x
    <3>1. T \ {x} \in G /\ T \ {y} \in G
      BY <1>1, <2>1
    <3>2. SumOn(f, T \ {x}) = f[y] + SumOn(f, (T \ {x}) \ {y})
      BY <2>4, <3>1
    <3>3. SumOn(f, T \ {y}) = f[x] + SumOn(f, (T \ {y}) \ {x})
      BY <2>1, <2>4, <3>1
    <3>4. (T \ {x}) \ {y} = (T \ {y}) \ {x}
      OBVIOUS
    <3>5. SumOn(f, (T \ {y}) \ {x}) \in Nat /\ f[x] \in Nat /\ f[y] \in Nat
      <4>1. (T \ {y}) \ {x} \in SUBSET S
        OBVIOUS
      <4> QED
        BY <2>1, <4>1, SumIsNat
    <3> QED
      BY <2>2, <3>2, <3>3, <3>4, <3>5
  <2> QED
    BY <2>3, <2>4
<1>2. \A T \in SUBSET S : (\A U \in SUBSET T : U # T => U \in G) => T \in G
  BY <1>1
<1> HIDE DEF G
<1>3. \A T \in SUBSET S : T \in G
  BY <1>2, SubsetInduction
<1> QED
  BY <1>3 DEF G

(* Equal values have equal sums.                                           *)
LEMMA SumOfEqual ==
  ASSUME NEW S, IsFiniteSet(S), NEW f, NEW g,
         \A x \in S : f[x] \in Nat /\ f[x] = g[x]
  PROVE  SumOn(f, S) = SumOn(g, S)
<1> DEFINE G == {T \in SUBSET S : SumOn(f, T) = SumOn(g, T)}
<1>1. ASSUME NEW T \in SUBSET S, \A U \in SUBSET T : U # T => U \in G
      PROVE  SumOn(f, T) = SumOn(g, T)
  <2>1. IsFiniteSet(T)
    BY FS_Subset
  <2>2. CASE T = {}
    <3>1. SumOn(f, {}) = 0 /\ SumOn(g, {}) = 0
      BY <2>1, <2>2, SumUnfolds
    <3> QED
      BY <2>2, <3>1
  <2>3. CASE T # {}
    <3>1. Pick(T) \in T
      BY <2>3, PickIs
    <3>2. SumOn(f, T \ {Pick(T)}) = SumOn(g, T \ {Pick(T)})
      BY <1>1, <3>1
    <3>3. SumOn(f, T) = f[Pick(T)] + SumOn(f, T \ {Pick(T)})
      BY <2>1, <2>3, SumUnfolds
    <3>4. SumOn(g, T) = g[Pick(T)] + SumOn(g, T \ {Pick(T)})
      BY <2>1, <2>3, SumUnfolds
    <3> QED
      BY <3>1, <3>2, <3>3, <3>4
  <2> QED
    BY <2>2, <2>3
<1>2. \A T \in SUBSET S : (\A U \in SUBSET T : U # T => U \in G) => T \in G
  BY <1>1
<1> HIDE DEF G
<1>3. \A T \in SUBSET S : T \in G
  BY <1>2, SubsetInduction
<1> QED
  BY <1>3 DEF G

(* A sum of natural numbers is zero only when all of them are.             *)
LEMMA SumIsZero ==
  ASSUME NEW S, IsFiniteSet(S), NEW f, \A x \in S : f[x] \in Nat
  PROVE  SumOn(f, S) = 0 <=> \A x \in S : f[x] = 0
<1>1. ASSUME NEW x \in S, SumOn(f, S) = 0
      PROVE  f[x] = 0
  <2>1. SumOn(f, S) = f[x] + SumOn(f, S \ {x})
    BY SumTakesOut
  <2>2. SumOn(f, S \ {x}) \in Nat
    BY SumIsNat
  <2> QED
    BY <1>1, <2>1, <2>2
<1>2. ASSUME \A x \in S : f[x] = 0
      PROVE  SumOn(f, S) = 0
  <2> DEFINE G == {T \in SUBSET S : SumOn(f, T) = 0}
  <2>1. ASSUME NEW T \in SUBSET S, \A U \in SUBSET T : U # T => U \in G
        PROVE  SumOn(f, T) = 0
    <3>1. IsFiniteSet(T)
      BY FS_Subset
    <3>2. CASE T = {}
      BY <3>1, <3>2, SumUnfolds
    <3>3. CASE T # {}
      <4>1. Pick(T) \in T
        BY <3>3, PickIs
      <4>2. SumOn(f, T \ {Pick(T)}) = 0
        BY <2>1, <4>1
      <4>3. SumOn(f, T) = f[Pick(T)] + SumOn(f, T \ {Pick(T)})
        BY <3>1, <3>3, SumUnfolds
      <4> QED
        BY <1>2, <4>1, <4>2, <4>3
    <3> QED
      BY <3>2, <3>3
  <2>2. \A T \in SUBSET S : (\A U \in SUBSET T : U # T => U \in G) => T \in G
    BY <2>1
  <2> HIDE DEF G
  <2>3. \A T \in SUBSET S : T \in G
    BY <2>2, SubsetInduction
  <2> QED
    BY <2>3 DEF G
<1> QED
  BY <1>1, <1>2

(* Sums of sums.                                                           *)
LEMMA SumOfAdded ==
  ASSUME NEW S, IsFiniteSet(S), NEW f, NEW g, NEW h,
         \A x \in S : f[x] \in Nat /\ g[x] \in Nat /\ h[x] = f[x] + g[x]
  PROVE  SumOn(h, S) = SumOn(f, S) + SumOn(g, S)
<1> DEFINE G == {T \in SUBSET S : SumOn(h, T) = SumOn(f, T) + SumOn(g, T)}
<1>1. ASSUME NEW T \in SUBSET S, \A U \in SUBSET T : U # T => U \in G
      PROVE  SumOn(h, T) = SumOn(f, T) + SumOn(g, T)
  <2>1. IsFiniteSet(T)
    BY FS_Subset
  <2>2. CASE T = {}
    <3>1. SumOn(f, {}) = 0 /\ SumOn(g, {}) = 0 /\ SumOn(h, {}) = 0
      BY <2>1, <2>2, SumUnfolds
    <3> QED
      BY <2>2, <3>1
  <2>3. CASE T # {}
    <3> DEFINE x == Pick(T)
               U == T \ {x}
    <3>1. x \in T
      BY <2>3, PickIs
    <3>2. SumOn(h, U) = SumOn(f, U) + SumOn(g, U) /\ U \in SUBSET S
      BY <1>1, <3>1
    <3>3. SumOn(f, T) = f[x] + SumOn(f, U)
      BY <2>1, <2>3, SumUnfolds
    <3>4. SumOn(g, T) = g[x] + SumOn(g, U)
      BY <2>1, <2>3, SumUnfolds
    <3>5. SumOn(h, T) = h[x] + SumOn(h, U)
      BY <2>1, <2>3, SumUnfolds
    <3> HIDE DEF x, U
    <3>6. SumOn(f, U) \in Nat /\ SumOn(g, U) \in Nat
      <4>1. \A y \in S : f[y] \in Nat
        OBVIOUS
      <4>2. \A y \in S : g[y] \in Nat
        OBVIOUS
      <4>3. SumOn(f, U) \in Nat
        BY <3>2, <4>1, SumIsNat
      <4>4. SumOn(g, U) \in Nat
        BY <3>2, <4>2, SumIsNat
      <4> QED
        BY <4>3, <4>4
    <3>7. f[x] \in Nat /\ g[x] \in Nat /\ h[x] = f[x] + g[x]
      BY <3>1
    <3> QED
      BY <3>2, <3>3, <3>4, <3>5, <3>6, <3>7
  <2> QED
    BY <2>2, <2>3
<1>2. \A T \in SUBSET S : (\A U \in SUBSET T : U # T => U \in G) => T \in G
  BY <1>1
<1> HIDE DEF G
<1>3. \A T \in SUBSET S : T \in G
  BY <1>2, SubsetInduction
<1> QED
  BY <1>3 DEF G

(* What is zero does not count.                                            *)
LEMMA SumWithoutZeros ==
  ASSUME NEW S, IsFiniteSet(S), NEW f, \A x \in S : f[x] \in Nat,
         NEW R \in SUBSET S, \A x \in S \ R : f[x] = 0
  PROVE  SumOn(f, S) = SumOn(f, R)
<1> DEFINE G == {T \in SUBSET S : SumOn(f, T) = SumOn(f, T \cap R)}
<1>1. ASSUME NEW T \in SUBSET S, \A U \in SUBSET T : U # T => U \in G
      PROVE  SumOn(f, T) = SumOn(f, T \cap R)
  <2>1. CASE T \subseteq R
    <3>1. T \cap R = T
      BY <2>1
    <3> QED
      BY <3>1
  <2>2. CASE ~(T \subseteq R)
    <3>1. PICK x \in T : x \notin R
      BY <2>2
    <3>2. SumOn(f, T) = f[x] + SumOn(f, T \ {x})
      BY SumTakesOut
    <3>3. SumOn(f, T \ {x}) = SumOn(f, (T \ {x}) \cap R)
      BY <1>1
    <3>4. (T \ {x}) \cap R = T \cap R
      BY <3>1
    <3>5. SumOn(f, T \ {x}) \in Nat
      <4>1. T \ {x} \in SUBSET S
        OBVIOUS
      <4> QED
        BY <4>1, SumIsNat
    <3>6. f[x] = 0
      BY <3>1
    <3>7. SumOn(f, T) = 0 + SumOn(f, T \cap R)
      BY <3>2, <3>3, <3>4, <3>6
    <3>8. SumOn(f, T \cap R) \in Nat
      BY <3>3, <3>4, <3>5
    <3> HIDE DEF G
    <3> QED
      BY <3>7, <3>8
  <2> QED
    BY <2>1, <2>2
<1>2. \A T \in SUBSET S : (\A U \in SUBSET T : U # T => U \in G) => T \in G
  BY <1>1
<1> HIDE DEF G
<1>3. S \in G
  BY <1>2, SubsetInduction
<1>4. S \cap R = R
  OBVIOUS
<1> QED
  BY <1>3, <1>4 DEF G

(* A table is added up by rows or by columns.                              *)
IsTable(X, O, F, row, column, total) ==
  /\ \A x \in X : \A o \in O : F[x][o] \in Nat /\ column[o][x] = F[x][o]
  /\ \A x \in X : row[x] = SumOn(F[x], O)
  /\ \A o \in O : total[o] = SumOn(column[o], X)

LEMMA SumsSwap ==
  ASSUME NEW X, NEW O, IsFiniteSet(X), IsFiniteSet(O), NEW F, NEW row,
         NEW column, NEW total, IsTable(X, O, F, row, column, total)
  PROVE  SumOn(row, X) = SumOn(total, O)
<1> USE DEF IsTable
<1> DEFINE At(T) == [o \in O |-> SumOn(column[o], T)]
           G == {T \in SUBSET X : SumOn(row, T) = SumOn(At(T), O)}
<1>1. ASSUME NEW T \in SUBSET X
      PROVE  \A o \in O : At(T)[o] \in Nat
  <2>1. ASSUME NEW o \in O
        PROVE  SumOn(column[o], T) \in Nat
    <3>1. \A x \in X : column[o][x] \in Nat
      OBVIOUS
    <3> QED
      BY <3>1, SumIsNat
  <2> QED
    BY <2>1
<1>2. ASSUME NEW T \in SUBSET X, \A U \in SUBSET T : U # T => U \in G
      PROVE  SumOn(row, T) = SumOn(At(T), O)
  <2>1. IsFiniteSet(T)
    BY FS_Subset
  <2>2. CASE T = {}
    <3>1. SumOn(row, T) = 0
      BY <2>1, <2>2, SumUnfolds
    <3>2. \A o \in O : At(T)[o] = 0
      <4>1. ASSUME NEW o \in O
            PROVE  SumOn(column[o], {}) = 0
        BY <2>1, SumUnfolds
      <4> QED
        BY <2>2, <4>1
    <3> DEFINE a == At(T)
    <3>3. \A o \in O : a[o] \in Nat
      BY <3>2
    <3> HIDE DEF a
    <3>4. SumOn(a, O) = 0 <=> \A o \in O : a[o] = 0
      BY <3>3, SumIsZero
    <3> QED
      BY <3>1, <3>2, <3>4 DEF a
  <2>3. CASE T # {}
    <3> DEFINE x == Pick(T)
               U == T \ {x}
    <3>1. x \in T
      BY <2>3, PickIs
    <3>2. SumOn(row, T) = row[x] + SumOn(row, U)
      BY <2>1, <2>3, SumUnfolds
    <3>3. U \in SUBSET X /\ U \in G
      BY <1>2, <3>1
    <3>4. row[x] = SumOn(F[x], O) /\ SumOn(row, U) = SumOn(At(U), O)
      BY <3>1, <3>3
    <3>5. \A o \in O : SumOn(column[o], T) = column[o][x] + SumOn(column[o], U)
      BY <2>1, <2>3, SumUnfolds
    <3> DEFINE a == At(T)
               b == At(U)
               c == F[x]
    <3>6. \A o \in O : c[o] \in Nat /\ b[o] \in Nat /\ a[o] = c[o] + b[o]
      BY <1>1, <3>1, <3>3, <3>5
    <3> HIDE DEF a, b, c
    <3>7. SumOn(a, O) = SumOn(c, O) + SumOn(b, O)
      BY <3>6, SumOfAdded
    <3> HIDE DEF At
    <3> QED
      BY <3>2, <3>4, <3>7 DEF a, b, c
  <2> QED
    BY <2>2, <2>3
<1>3. \A T \in SUBSET X : (\A U \in SUBSET T : U # T => U \in G) => T \in G
  BY <1>2
<1> HIDE DEF G
<1>4. X \in G
  BY <1>3, SubsetInduction
<1>5. SumOn(row, X) = SumOn(At(X), O)
  BY <1>4 DEF G
<1> DEFINE a == At(X)
<1>6. \A o \in O : a[o] \in Nat /\ a[o] = total[o]
  BY <1>1
<1> HIDE DEF a
<1>7. SumOn(a, O) = SumOn(total, O)
  BY <1>6, SumOfEqual
<1> QED
  BY <1>5, <1>7 DEF a

(* Counting by a key counts every element once.                            *)
IsCount(f, E, K, key) ==
  /\ \A e \in E : key[e] \in K
  /\ \A k \in K : f[k] = Cardinality({e \in E : key[e] = k})

LEMMA CountByKey ==
  ASSUME NEW E, IsFiniteSet(E), NEW K, IsFiniteSet(K), NEW key, NEW f,
         IsCount(f, E, K, key)
  PROVE  SumOn(f, K) = Cardinality(E)
<1> DEFINE Of_(T) == {e \in E : key[e] \in T}
           G == {T \in SUBSET K : SumOn(f, T) = Cardinality(Of_(T))}
<1>1. ASSUME NEW T \in SUBSET K, \A U \in SUBSET T : U # T => U \in G
      PROVE  SumOn(f, T) = Cardinality(Of_(T))
  <2>1. IsFiniteSet(T)
    BY FS_Subset
  <2>2. CASE T = {}
    <3>1. SumOn(f, T) = 0
      BY <2>1, <2>2, SumUnfolds
    <3>2. Of_(T) = {}
      BY <2>2
    <3>3. Cardinality({}) = 0
      BY FS_EmptySet
    <3> HIDE DEF Of_
    <3> QED
      BY <3>1, <3>2, <3>3
  <2>3. CASE T # {}
    <3> DEFINE x == Pick(T)
               U == T \ {x}
               A == Of_(U)
               B == {e \in E : key[e] = x}
    <3>1. x \in T
      BY <2>3, PickIs
    <3>2. SumOn(f, T) = f[x] + SumOn(f, U)
      BY <2>1, <2>3, SumUnfolds
    <3>3. SumOn(f, U) = Cardinality(A)
      BY <1>1, <3>1
    <3>4. f[x] = Cardinality(B)
      BY <3>1 DEF IsCount
    <3>5. A \subseteq E /\ B \subseteq E /\ A \cap B = {} /\ A \cup B = Of_(T)
      BY <3>1
    <3> HIDE DEF A, B, U, x, Of_
    <3>6. IsFiniteSet(A) /\ IsFiniteSet(B)
      BY <3>5, FS_Subset
    <3>7. /\ Cardinality(A) \in Nat /\ Cardinality(B) \in Nat
          /\ Cardinality(A \cap B) = 0
      BY <3>5, <3>6, FS_CardinalityType, FS_EmptySet
    <3>8. Cardinality(A \cup B) = Cardinality(A) + Cardinality(B) - Cardinality(A \cap B)
      BY <3>6, FS_Union
    <3>9. Cardinality(A \cup B) = Cardinality(B) + Cardinality(A)
      BY <3>7, <3>8
    <3>10. SumOn(f, T) = Cardinality(B) + Cardinality(A)
      BY <3>2, <3>3, <3>4
    <3>11. Cardinality(Of_(T)) = Cardinality(A \cup B)
      BY <3>5
    <3> HIDE DEF G
    <3> QED
      BY <3>9, <3>10, <3>11
  <2> QED
    BY <2>2, <2>3
<1>2. \A T \in SUBSET K : (\A U \in SUBSET T : U # T => U \in G) => T \in G
  BY <1>1
<1>3. Of_(K) = E
  BY DEF IsCount
<1> HIDE DEF G
<1>4. K \in G
  BY <1>2, SubsetInduction
<1> HIDE DEF Of_
<1> QED
  BY <1>3, <1>4 DEF G

-----------------------------------------------------------------------------
ContextInv == context \in Contexts[config.initialization]

Installs == IF context.installs = {} THEN {} ELSE ToSet(InstallIds)

(* A list of ids, all of them different; what it is when one is put before *)
(* it.                                                                     *)
IsList(s, S) ==
  /\ s \in Seq(S)
  /\ ToSet(s) = S /\ IsFiniteSet(S)
  /\ \E n \in Nat : DOMAIN s = 1..n
  /\ \A i, j \in DOMAIN s : i # j => s[i] # s[j]

LEMMA ListOfOne == \A a : IsList(<<a>>, {a})
<1> SUFFICES ASSUME NEW a PROVE IsList(<<a>>, {a})
  OBVIOUS
<1>1. DOMAIN <<a>> = 1..1 /\ <<a>>[1] = a /\ <<a>> \in Seq({a})
  OBVIOUS
<1>2. IsFiniteSet({a})
  BY FS_Singleton
<1> DEFINE s == <<a>>
<1> HIDE DEF s
<1>3. ToSet(s) = {a}
  BY <1>1 DEF s, ToSet
<1> QED
  BY <1>1, <1>2, <1>3 DEF s, IsList

LEMMA PairIs ==
  ASSUME NEW a, NEW b
  PROVE  <<a>> \o <<b>> = <<a, b>>
<1> DEFINE s == <<a>>
           t == <<b>>
           S == {a, b}
           u == s \o t
           v == <<a, b>>
<1>1. s \in Seq(S) /\ t \in Seq(S) /\ Len(s) = 1 /\ Len(t) = 1 /\ s[1] = a /\ t[1] = b
  OBVIOUS
<1>2. v \in Seq(S) /\ Len(v) = 2 /\ v[1] = a /\ v[2] = b
  OBVIOUS
<1> HIDE DEF s, t, v
<1>3. /\ u \in Seq(S) /\ Len(u) = Len(s) + Len(t)
      /\ \A i \in 1..(Len(s) + Len(t)) :
           u[i] = IF i <= Len(s) THEN s[i] ELSE t[i - Len(s)]
  BY <1>1, ConcatProperties
<1> HIDE DEF u
<1>4. Len(u) = 2 /\ u[1] = a /\ u[2] = b
  BY <1>1, <1>3
<1>5. u = v
  BY <1>2, <1>3, <1>4, SeqEqual
<1> QED
  BY <1>5 DEF u, s, t, v

LEMMA ListGrows ==
  ASSUME NEW s, NEW S, IsList(s, S), NEW a, a \notin S
  PROVE  IsList(<<a>> \o s, {a} \cup S)
<1> DEFINE t == <<a>> \o s
           T == {a} \cup S
<1>1. <<a>> \in Seq(T) /\ s \in Seq(T) /\ Len(<<a>>) = 1 /\ <<a>>[1] = a
  BY DEF IsList
<1>2. Len(s) \in Nat /\ DOMAIN s = 1..Len(s)
  BY LenProperties DEF IsList
<1>3. /\ t \in Seq(T) /\ Len(t) = Len(s) + 1
      /\ \A i \in 1..(Len(s) + 1) : t[i] = IF i <= 1 THEN a ELSE s[i - 1]
  BY <1>1, <1>2, ConcatProperties
<1> HIDE DEF t
<1>4. DOMAIN t = 1..(Len(s) + 1)
  BY <1>2, <1>3, LenProperties
<1>5. ToSet(t) = T
  <2>1. ToSet(s) = S
    BY DEF IsList
  <2>2. ASSUME NEW x \in T PROVE x \in ToSet(t)
    <3>1. CASE x = a
      <4>1. 1 \in DOMAIN t /\ t[1] = a
        BY <1>2, <1>3, <1>4
      <4> QED BY <3>1, <4>1 DEF ToSet
    <3>2. CASE x \in S
      <4>1. PICK i \in DOMAIN s : s[i] = x
        BY <2>1, <3>2 DEF ToSet
      <4>2. i + 1 \in DOMAIN t /\ t[i + 1] = x
        BY <1>2, <1>3, <1>4, <4>1
      <4> QED BY <4>2 DEF ToSet
    <3> QED BY <3>1, <3>2
  <2>3. ASSUME NEW x \in ToSet(t) PROVE x \in T
    <3>1. PICK i \in DOMAIN t : x = t[i]
      BY DEF ToSet
    <3> QED BY <1>3, <1>4, <3>1, ElementOfSeq, LenProperties
  <2> QED BY <2>2, <2>3
<1>6. IsFiniteSet(T)
  BY FS_AddElement DEF IsList
<1>7. \A i, j \in DOMAIN t : i # j => t[i] # t[j]
  <2>1. \A i \in DOMAIN s : s[i] \in S
    BY <1>2, ElementOfSeq DEF IsList
  <2>2. \A i, j \in DOMAIN s : i # j => s[i] # s[j]
    BY DEF IsList
  <2>3. \A i \in DOMAIN t : \/ i = 1 /\ t[i] = a
                            \/ i - 1 \in DOMAIN s /\ t[i] = s[i - 1] /\ i # 1
    BY <1>2, <1>3, <1>4
  <2>4. \A i, j \in DOMAIN t : i # 1 /\ j # 1 /\ i # j => i - 1 # j - 1
    BY <1>4
  <2> QED
    BY <2>1, <2>2, <2>3, <2>4
<1>8. IsList(t, T)
  BY <1>2, <1>3, <1>4, <1>5, <1>6, <1>7 DEF IsList
<1> QED
  BY <1>8 DEF t

(* The experiments of the report, in their order.                          *)
LEMMA ReportedAre == IsList(ReportedIds, Installs \cup Ran)
<1> DEFINE a == "install-scripts-disabled"
           b == "install-scripts-enabled"
<1>1. Call # Baseline /\ Call # a /\ Call # b /\ Baseline # a /\ Baseline # b /\ a # b
  BY CallNotReserved, CallIsNoInstall DEF Baseline, InstallIds, ToSet
<1>2. InstallIds = <<a, b>>
  BY DEF InstallIds
<1>3. ToSet(InstallIds) = {a, b}
  <2> HIDE DEF a, b
  <2> QED BY <1>2 DEF ToSet
<1> HIDE DEF a, b
<1>4. IsList(Experiments, Ran)
  <2>1. IsList(<<Call>>, {Call})
    BY ListOfOne
  <2>2. CASE config.initialization.enabled
    <3>1. IsList(<<Baseline>> \o <<Call>>, {Baseline} \cup {Call})
      BY <1>1, <2>1, ListGrows
    <3>2. <<Baseline>> \o <<Call>> = <<Baseline, Call>>
      BY PairIs
    <3>3. {Baseline} \cup {Call} = Ran /\ Experiments = <<Baseline, Call>>
      BY <2>2 DEF Experiments, Ran, Names
    <3> QED BY <3>1, <3>2, <3>3
  <2>3. CASE ~config.initialization.enabled
    BY <2>1, <2>3 DEF Experiments, Ran
  <2> QED BY <2>2, <2>3
<1>5. CASE context.installs = {}
  <2>1. <<>> \o Experiments = Experiments
    BY <1>4, ConcatEmptySeq DEF IsList
  <2>2. ReportedIds = Experiments /\ Installs \cup Ran = Ran
    BY <1>5, <2>1 DEF ReportedIds, Installs
  <2> QED BY <1>4, <2>2
<1>6. CASE context.installs # {}
  <2> DEFINE s == <<b>> \o Experiments
             S == {b} \cup Ran
  <2>1. IsList(s, S)
    <3>1. b \notin Ran
      BY <1>1 DEF Ran, Names
    <3> QED BY <1>4, <3>1, ListGrows
  <2>2. a \notin S
    BY <1>1 DEF Ran, Names
  <2>3. <<a>> \o s = <<a, b>> \o Experiments
    <3>1. <<a>> \o <<b>> = <<a, b>>
      BY PairIs
    <3>2. <<a>> \in Seq({a, b} \cup Ran) /\ <<b>> \in Seq({a, b} \cup Ran)
          /\ Experiments \in Seq({a, b} \cup Ran)
      BY <1>4 DEF IsList
    <3>3. <<a>> \o (<<b>> \o Experiments) = (<<a>> \o <<b>>) \o Experiments
      BY <3>2, ConcatAssociative
    <3> QED BY <3>1, <3>3
  <2>4. {a} \cup S = Installs \cup Ran /\ ReportedIds = <<a, b>> \o Experiments
    BY <1>2, <1>3, <1>6 DEF ReportedIds, Installs
  <2> HIDE DEF s, S
  <2>5. IsList(<<a>> \o s, {a} \cup S)
    BY <2>1, <2>2, ListGrows
  <2> QED BY <2>3, <2>4, <2>5
<1> QED BY <1>5, <1>6

-----------------------------------------------------------------------------
(* The health of every experiment of the report is known.                  *)
LEMMA GapsAre ==
  ASSUME ContextInv, config.initialization \in InitialScopes
  PROVE  /\ \A x \in ToSet(ReportedIds) :
              context.health[x].gaps \in [GapOutcomes -> Nat]
         /\ IsFiniteSet(GapOutcomes)
<1>1. \A x \in Installs \cup Ran : x \in DOMAIN context.health
  BY ContextsAssumption DEF ContextInv, Installs, Ran, Names
<1>2. \A x \in DOMAIN context.health : context.health[x].gaps \in [GapOutcomes -> Nat]
  BY ContextsAssumption DEF ContextInv
<1>3. ToSet(ReportedIds) = Installs \cup Ran
  BY ReportedAre DEF IsList
<1>4. IsFiniteSet(GapOutcomes)
  <2>1. /\ IsFiniteSet({"succeeded"}) /\ IsFiniteSet({"failed"})
        /\ IsFiniteSet({"unknown"})
    BY FS_Singleton
  <2>2. IsFiniteSet({"succeeded"} \cup {"failed"})
    BY <2>1, FS_Union
  <2>3. IsFiniteSet({"succeeded"} \cup {"failed"} \cup {"unknown"})
    BY <2>1, <2>2, FS_Union
  <2>4. GapOutcomes = {"succeeded"} \cup {"failed"} \cup {"unknown"}
    BY DEF GapOutcomes
  <2> QED BY <2>3, <2>4
<1> QED
  BY <1>1, <1>2, <1>3, <1>4

(* The total of the gaps, by experiment and by outcome.                    *)
GapsIn(x) == context.health[x].gaps
GapRow == [x \in ToSet(ReportedIds) |-> Fold(GapsIn(x))]
GapsWith(o) == [x \in ToSet(ReportedIds) |-> GapsIn(x)[o]]
GapTotals == [o \in GapOutcomes |-> Fold(GapsWith(o))]
GapCounts == [o \in {p \in GapOutcomes : GapTotals[p] > 0} |-> GapTotals[o]]

(* It is the same either way, and zero only where there are none.          *)
LEMMA GapsAddUp ==
  ASSUME ContextInv, config.initialization \in InitialScopes
  PROVE  /\ \A x \in ToSet(ReportedIds) : GapRow[x] \in Nat
         /\ Fold(GapRow) = 0 <=> \A x \in ToSet(ReportedIds) : GapRow[x] = 0
         /\ Fold(GapCounts) = Fold(GapRow)
         /\ \A o \in DOMAIN GapCounts : GapCounts[o] > 0
<1> DEFINE X == ToSet(ReportedIds)
           F == [x \in X |-> GapsIn(x)]
           column == [o \in GapOutcomes |-> GapsWith(o)]
           R == {p \in GapOutcomes : GapTotals[p] > 0}
           O == GapOutcomes
<1>1. IsFiniteSet(X) /\ IsFiniteSet(O)
  BY ReportedAre, GapsAre DEF IsList
<1>2. \A x \in X : F[x] \in [O -> Nat]
  BY GapsAre DEF GapsIn
<1>3. \A x \in X : GapRow[x] = SumOn(F[x], O)
  <2>1. ASSUME NEW x \in X
        PROVE  GapRow[x] = SumOn(F[x], O)
    <3>1. GapRow[x] = Fold(F[x])
      BY DEF GapRow
    <3>2. F[x] \in [O -> Nat]
      BY <1>2
    <3> DEFINE g == F[x]
    <3>4. DOMAIN g = O
      BY <3>2
    <3> HIDE DEF g
    <3>3. Fold(g) = SumOn(g, DOMAIN g)
      BY <1>1, <3>4, FoldIsSum
    <3> QED BY <3>1, <3>2, <3>3 DEF g
  <2> QED BY <2>1
<1>4. \A o \in O : GapTotals[o] = SumOn(column[o], X)
  <2>1. ASSUME NEW o \in O
        PROVE  GapTotals[o] = SumOn(column[o], X)
    <3> DEFINE g == GapsWith(o)
    <3>1. GapTotals[o] = Fold(g) /\ column[o] = g /\ DOMAIN g = X
      BY DEF GapTotals, GapsWith
    <3> HIDE DEF g, column
    <3>2. Fold(g) = SumOn(g, DOMAIN g)
      BY <1>1, <3>1, FoldIsSum
    <3> QED BY <3>1, <3>2
  <2> QED BY <2>1
<1>5. \A o \in O : \A x \in X : column[o][x] = F[x][o]
  BY DEF GapsWith
<1>6. \A x \in X : \A o \in O : F[x][o] \in Nat
  BY <1>2
<1>7. /\ DOMAIN GapRow = X
      /\ DOMAIN GapCounts = R
      /\ \A o \in R : GapCounts[o] = GapTotals[o]
  BY DEF GapRow, GapCounts
<1>8. R \subseteq O /\ \A o \in R : GapTotals[o] > 0
  OBVIOUS
<1>9. \A o \in O \ R : ~(GapTotals[o] > 0)
  OBVIOUS
<1> HIDE DEF X, F, column, R, O
<1>10. SumOn(GapRow, X) = SumOn(GapTotals, O)
  <2>1. IsTable(X, O, F, GapRow, column, GapTotals)
    BY <1>3, <1>4, <1>5, <1>6 DEF IsTable
  <2> QED BY <1>1, <2>1, SumsSwap
<1>11. \A x \in X : GapRow[x] \in Nat
  <2>1. ASSUME NEW x \in X
        PROVE  SumOn(F[x], O) \in Nat
    <3> DEFINE g == F[x]
    <3>1. \A o \in O : g[o] \in Nat
      BY <1>6
    <3> HIDE DEF g
    <3>2. SumOn(g, O) \in Nat
      BY <1>1, <3>1, SumIsNat
    <3> QED BY <3>2 DEF g
  <2> QED BY <1>3, <2>1
<1>12. \A o \in O : GapTotals[o] \in Nat
  <2>1. ASSUME NEW o \in O
        PROVE  SumOn(column[o], X) \in Nat
    <3> DEFINE g == column[o]
    <3>1. \A x \in X : g[x] \in Nat
      BY <1>5, <1>6
    <3> HIDE DEF g
    <3>2. SumOn(g, X) \in Nat
      BY <1>1, <3>1, SumIsNat
    <3> QED BY <3>2 DEF g
  <2> QED BY <1>4, <2>1
<1>13. Fold(GapRow) = SumOn(GapRow, X)
  BY <1>1, <1>7, FoldIsSum
<1>14. Fold(GapCounts) = SumOn(GapCounts, R)
  <2>1. IsFiniteSet(R)
    BY <1>1, <1>8, FS_Subset
  <2> QED BY <1>7, <2>1, FoldIsSum
<1>15. SumOn(GapCounts, R) = SumOn(GapTotals, R)
  <2>1. IsFiniteSet(R)
    BY <1>1, <1>8, FS_Subset
  <2>2. \A o \in R : GapCounts[o] \in Nat /\ GapCounts[o] = GapTotals[o]
    BY <1>7, <1>8, <1>12
  <2> QED BY <2>1, <2>2, SumOfEqual
<1>16. SumOn(GapTotals, O) = SumOn(GapTotals, R)
  <2>1. \A o \in O \ R : GapTotals[o] = 0
    BY <1>9, <1>12
  <2> QED BY <1>1, <1>8, <1>12, <2>1, SumWithoutZeros
<1>17. SumOn(GapRow, X) = 0 <=> \A x \in X : GapRow[x] = 0
  BY <1>1, <1>11, SumIsZero
<1>18. \A o \in DOMAIN GapCounts : GapCounts[o] > 0
  BY <1>7, <1>8
<1>19. Fold(GapCounts) = Fold(GapRow)
  BY <1>10, <1>13, <1>14, <1>15, <1>16
<1> QED
  BY <1>11, <1>13, <1>17, <1>18, <1>19 DEF X

(* The four parts of what the schema demands.                              *)
LEMMA HealthAccepted ==
  ASSUME ContextInv, config.initialization \in InitialScopes
  PROVE  HealthAgrees(Written)
<1> DEFINE ids == ReportedIds
           X == ToSet(ids)
           h == Written.health
<1>1. /\ h.ids = ids /\ h.complete = (h.degraded = {})
      /\ h.degraded \subseteq DOMAIN ids
      /\ h.gapped = {i \in DOMAIN ids : Fold(context.health[ids[i]].gaps) > 0}
      /\ h.gaps = Fold(GapRow)
  BY DEF Written, NewReport, HealthSummary, HealthOf, GapRow, GapsIn
<1>2. h.outcomes = GapCounts
  BY DEF Written, NewReport, HealthSummary, HealthOf, GapCounts, GapTotals,
         GapsWith, GapsIn
<1>3. [i \in DOMAIN Written.experiments |-> Written.experiments[i].id] = ids
  <2>1. Written.experiments = [i \in DOMAIN ids |-> ExperimentRow(ids[i])]
    BY DEF Written, NewReport
  <2>2. \A i \in DOMAIN ids : Written.experiments[i].id = ids[i]
    BY <2>1 DEF ExperimentRow
  <2>3. ids \in Seq(Installs \cup Ran)
    BY ReportedAre DEF IsList
  <2> HIDE DEF ids
  <2>4. ids = [i \in DOMAIN ids |-> ids[i]]
    BY <2>3
  <2> QED BY <2>1, <2>2, <2>4
<1>4. \A i, j \in DOMAIN ids : i # j => ids[i] # ids[j]
  BY ReportedAre DEF IsList
<1>5. /\ \A x \in X : GapRow[x] \in Nat
      /\ Fold(GapRow) = 0 <=> \A x \in X : GapRow[x] = 0
      /\ Fold(GapCounts) = Fold(GapRow)
      /\ \A o \in DOMAIN GapCounts : GapCounts[o] > 0
  BY GapsAddUp
<1>6. h.gaps = 0 <=> h.gapped = {}
  <2>1. \A i \in DOMAIN ids : ids[i] \in X /\ GapRow[ids[i]] = Fold(context.health[ids[i]].gaps)
    BY DEF GapRow, GapsIn, ToSet
  <2>2. \A x \in X : \E i \in DOMAIN ids : x = ids[i]
    BY DEF ToSet
  <2>3. h.gapped = {i \in DOMAIN ids : GapRow[ids[i]] > 0}
    BY <1>1, <2>1
  <2>4. h.gapped = {} <=> \A x \in X : ~(GapRow[x] > 0)
    BY <2>1, <2>2, <2>3
  <2>5. \A x \in X : ~(GapRow[x] > 0) <=> GapRow[x] = 0
    BY <1>5
  <2> QED BY <1>1, <1>5, <2>4, <2>5
<1> HIDE DEF h, ids, X
<1>7. /\ h.ids = ids /\ h.degraded \cup h.gapped \subseteq DOMAIN ids
      /\ h.complete <=> h.degraded = {}
      /\ Fold(h.outcomes) = h.gaps
      /\ \A o \in DOMAIN h.outcomes : h.outcomes[o] > 0
  BY <1>1, <1>2, <1>5
<1> QED
  BY <1>3, <1>4, <1>6, <1>7 DEF HealthAgrees, h

(* The operations of a kind of effect add up to its effects.               *)
LEMMA CountsAgree ==
  ASSUME NEW E, IsFiniteSet(E), NEW o,
         o.effects = EffectCounts(E), o.operations = FileOperationCounts(E)
  PROVE  OperationsAgree(o)
<1> DEFINE Key(e) == <<e.effect.kind, e.effect.operation>>
           Counted_ == {e \in E : e.effect.kind \in {"file.read", "file.write"}}
<1> SUFFICES ASSUME NEW k \in {"file.read", "file.write"}
             PROVE  (IF k \in DOMAIN o.effects THEN o.effects[k] ELSE 0)
                      = Fold([key \in {q \in DOMAIN o.operations : q[1] = k} |->
                                o.operations[key]])
  BY DEF OperationsAgree
<1> DEFINE D == {e \in E : e.effect.kind = k}
           K == {q \in DOMAIN o.operations : q[1] = k}
           f == [key \in K |-> o.operations[key]]
           key == [e \in D |-> Key(e)]
<1>1. o.operations = [q \in {Key(e) : e \in Counted_} |->
                        Cardinality({e \in Counted_ : Key(e) = q})]
  BY DEF FileOperationCounts
<1>2. K = {Key(e) : e \in D}
  <2>1. DOMAIN o.operations = {Key(e) : e \in Counted_}
    BY <1>1
  <2>2. D \subseteq Counted_ /\ \A e \in Counted_ : Key(e)[1] = k <=> e \in D
    OBVIOUS
  <2> HIDE DEF Counted_, Key, D
  <2> QED BY <2>1, <2>2
<1>3. IsFiniteSet(D) /\ Cardinality(D) \in Nat
  BY FS_Subset, FS_CardinalityType
<1>4. IsFiniteSet(K)
  <2>1. key \in Surjection(D, K)
    BY <1>2 DEF Surjection
  <2> HIDE DEF D, K, key
  <2> QED BY <1>3, <2>1, FS_Surjection
<1>5. \A e \in D : key[e] \in K
  BY <1>2
<1>6. \A q \in K : f[q] = Cardinality({e \in D : key[e] = q})
  <2>1. ASSUME NEW q \in K
        PROVE  f[q] = Cardinality({e \in D : key[e] = q})
    <3>1. f[q] = Cardinality({e \in Counted_ : Key(e) = q})
      BY <1>1
    <3>2. \A e \in Counted_ : Key(e) = q => e.effect.kind = k
      <4>1. q[1] = k
        OBVIOUS
      <4>2. \A e \in Counted_ : Key(e)[1] = e.effect.kind
        OBVIOUS
      <4> HIDE DEF Key
      <4> QED BY <4>1, <4>2
    <3>3. {e \in Counted_ : Key(e) = q} = {e \in D : key[e] = q}
      <4>1. \A e \in D : key[e] = Key(e)
        OBVIOUS
      <4>2. \A e : e \in D <=> e \in Counted_ /\ e.effect.kind = k
        OBVIOUS
      <4> HIDE DEF Key, key, D, Counted_
      <4> QED BY <3>2, <4>1, <4>2
    <3> QED BY <3>1, <3>3
  <2> QED BY <2>1
<1>7. DOMAIN f = K
  OBVIOUS
<1>8. (IF k \in DOMAIN o.effects THEN o.effects[k] ELSE 0) = Cardinality(D)
  <2>1. /\ DOMAIN o.effects = {e.effect.kind : e \in E}
        /\ k \in DOMAIN o.effects => o.effects[k] = Cardinality(D)
    BY DEF EffectCounts
  <2>2. CASE k \in DOMAIN o.effects
    BY <2>1, <2>2
  <2>3. CASE k \notin DOMAIN o.effects
    <3>1. D = {}
      BY <2>1, <2>3
    <3>2. Cardinality({}) = 0
      BY FS_EmptySet
    <3> HIDE DEF D
    <3> QED BY <2>3, <3>1, <3>2
  <2> QED BY <2>2, <2>3
<1> HIDE DEF D, K, f, key
<1>9. SumOn(f, K) = Cardinality(D)
  <2>1. IsCount(f, D, K, key)
    BY <1>5, <1>6 DEF IsCount
  <2> QED BY <1>3, <1>4, <2>1, CountByKey
<1>10. Fold(f) = SumOn(f, K)
  BY <1>4, <1>7, FoldIsSum
<1> QED
  BY <1>8, <1>9, <1>10 DEF f, K

LEMMA ObservationsAgree ==
  ASSUME EvidenceInv, NEW x
  PROVE  /\ OperationsAgree(Observation(x))
         /\ \A b \in Observation(x).breakdown : OperationsAgree(b)
<1>1. IsFiniteSet(ToSet(observed))
  <2>1. Len(observed) \in Nat /\ DOMAIN observed = 1..Len(observed)
    BY LenProperties DEF EvidenceInv, EvidenceTypes
  <2>2. IsFiniteSet(1..Len(observed))
    BY <2>1, FS_Interval
  <2> DEFINE s == observed
             D == DOMAIN s
             R == ToSet(s)
             f == [i \in D |-> s[i]]
  <2>3. f \in Surjection(D, R)
    BY DEF Surjection, ToSet
  <2> HIDE DEF f, R
  <2>4. IsFiniteSet(R)
    BY <2>1, <2>2, <2>3, FS_Surjection
  <2> QED BY <2>4 DEF R
<1>2. \A E \in SUBSET ToSet(observed) : IsFiniteSet(E)
  BY <1>1, FS_Subset
<1>3. \E E \in SUBSET ToSet(observed) :
        /\ Observation(x).effects = EffectCounts(E)
        /\ Observation(x).operations = FileOperationCounts(E)
  <2> DEFINE kinds == IF x = Baseline THEN {"initialization", "cooldown"} ELSE {"tool"}
             all == {e \in ToSet(observed) : ActiveIn(e, x, kinds)}
  <2>1. /\ Observation(x).effects = EffectCounts(all)
        /\ Observation(x).operations = FileOperationCounts(all)
    BY DEF Observation
  <2>2. all \in SUBSET ToSet(observed)
    OBVIOUS
  <2> HIDE DEF all
  <2> QED BY <2>1, <2>2
<1>4. ASSUME NEW b \in Observation(x).breakdown
      PROVE  \E E \in SUBSET ToSet(observed) :
               b.effects = EffectCounts(E) /\ b.operations = FileOperationCounts(E)
  <2> DEFINE At(id) == {e \in ToSet(observed) : Of(e).active = {id}}
             Counts_(S) == [effects |-> EffectCounts(S),
                            operations |-> FileOperationCounts(S)]
  <2>1. \E id : b = Counts_(At(id))
    <3>1. x = Baseline
      BY <1>4 DEF Observation
    <3> QED BY <1>4, <3>1 DEF Observation
  <2>2. PICK id : b = Counts_(At(id))
    BY <2>1
  <2>3. At(id) \in SUBSET ToSet(observed)
    OBVIOUS
  <2>4. b.effects = EffectCounts(At(id)) /\ b.operations = FileOperationCounts(At(id))
    BY <2>2
  <2> HIDE DEF At
  <2> QED BY <2>3, <2>4
<1> QED
  BY <1>2, <1>3, <1>4, CountsAgree

LEMMA RuntimeAccepted ==
  ASSUME EvidenceInv, findings # {}
  PROVE  RuntimeAgrees(Written)
<1> DEFINE r == Written
           ids == ReportedIds
           runtime == {e \in ToSet(r.experiments) : e.kind # "install"}
<1>1. r.experiments = [i \in DOMAIN ids |-> ExperimentRow(ids[i])]
  BY DEF Written, NewReport
<1>2. ToSet(ids) = Installs \cup Ran /\ \A i, j \in DOMAIN ids : i # j => ids[i] # ids[j]
  BY ReportedAre DEF IsList
<1>3. \A x : ExperimentRow(x).id = x
  BY DEF ExperimentRow
<1>4. UniqueBy(r.experiments, LAMBDA e : e.id)
  BY <1>1, <1>2, <1>3 DEF UniqueBy
<1>5. \A x \in Ran : x \notin ToSet(InstallIds)
  <2>1. Baseline \notin ToSet(InstallIds)
    <3>1. DOMAIN InstallIds = {1, 2} /\ InstallIds[1] # Baseline /\ InstallIds[2] # Baseline
      BY DEF InstallIds, Baseline
    <3> QED BY <3>1 DEF ToSet
  <2> QED BY <2>1, CallIsNoInstall DEF Ran, Names
<1>6. /\ \A x \in Ran : /\ ExperimentRow(x).kind = KindOfExperiment(x)
                        /\ ExperimentRow(x).kind # "install"
                        /\ ExperimentRow(x).expected = ScopeOf(x)
      /\ \A x \in Installs : ExperimentRow(x).kind = "install"
  BY <1>5 DEF ExperimentRow, KindOfExperiment, Installs
<1>7. \A e : e \in runtime <=> \E x \in Ran : e = ExperimentRow(x)
  <2>1. \A e : e \in ToSet(r.experiments) <=> \E i \in DOMAIN ids : e = ExperimentRow(ids[i])
    BY <1>1 DEF ToSet
  <2>2. \A e : e \in ToSet(r.experiments) <=> \E x \in Installs \cup Ran : e = ExperimentRow(x)
    <3>1. \A x : x \in ToSet(ids) <=> \E i \in DOMAIN ids : x = ids[i]
      BY DEF ToSet
    <3> HIDE DEF r, ids
    <3> QED BY <1>2, <2>1, <3>1
  <2> HIDE DEF r
  <2> QED BY <1>6, <2>2
<1>8. {e.id : e \in runtime} = Ran
  <2> HIDE DEF runtime
  <2> QED BY <1>3, <1>7
<1>9. /\ DOMAIN r.observations = Ran /\ DOMAIN r.scopes = Ran
      /\ \A x \in Ran : r.observations[x] = Observation(x)
      /\ \A x \in Ran, c \in Compared : r.scopes[x][c] = Row(x, c)
  <2>1. DOMAIN r.observations = ToSet(Experiments)
    BY DEF Written, NewReport
  <2> QED BY <2>1, ExperimentsRan, WrittenIs
<1>10. \A x \in Ran : /\ OperationsAgree(r.observations[x])
                      /\ \A b \in r.observations[x].breakdown : OperationsAgree(b)
  BY <1>9, ObservationsAgree
<1>11. ASSUME NEW e \in runtime
       PROVE  /\ e.kind = KindOfExperiment(e.id)
              /\ e.kind = "tool" => e.expected # {}
              /\ \A c \in Compared : r.scopes[e.id][c].configured <=> e.expected # {}
  <2>1. PICK x \in Ran : e = ExperimentRow(x)
    BY <1>7
  <2>2. e.id = x /\ e.kind = KindOfExperiment(x) /\ e.expected = ScopeOf(x)
    BY <1>3, <1>6, <2>1
  <2>3. \A c \in Compared : r.scopes[x][c].configured <=> ScopeOf(x) # {}
    <3>1. \A c : Row(x, c).configured = (ScopeOf(x) # {})
      BY DEF Row
    <3> HIDE DEF r
    <3> QED BY <1>9, <3>1
  <2>4. KindOfExperiment(x) = "tool" => ScopeOf(x) # {}
    BY DEF KindOfExperiment, ScopeOf, Ran, Names
  <2> HIDE DEF r, runtime
  <2> QED BY <2>2, <2>3, <2>4
<1> HIDE DEF r, runtime
<1> QED
  BY <1>4, <1>8, <1>9, <1>10, <1>11 DEF RuntimeAgrees, r, runtime

LEMMA InterfacesAccepted == InterfacesAgree(Written)
<1>1. /\ Written.summary.source = Head(Experiments)
      /\ Written.summary.fingerprints = [x \in ToSet(Experiments) |-> Fingerprint(x)]
      /\ Written.summary.differing =
           {x \in ToSet(Experiments) : Fingerprint(x) # Fingerprint(Head(Experiments))}
      /\ DOMAIN Written.observations = ToSet(Experiments)
  BY DEF Written, NewReport, InterfaceSummary
<1>2. Head(Experiments) \in ToSet(Experiments)
  <2>1. Head(Experiments) \in Ran
    BY DEF Experiments, Ran, Names
  <2> QED BY <2>1, ExperimentsRan
<1> DEFINE w == Written
<1> HIDE DEF w
<1>3. /\ w.summary.source = Head(Experiments)
      /\ w.summary.fingerprints = [x \in ToSet(Experiments) |-> Fingerprint(x)]
      /\ w.summary.differing =
           {x \in ToSet(Experiments) : Fingerprint(x) # Fingerprint(Head(Experiments))}
      /\ DOMAIN w.observations = ToSet(Experiments)
  BY <1>1 DEF w
<1> QED
  BY <1>2, <1>3 DEF InterfacesAgree, w

(* An event is of one compared capability at most.                         *)
LEMMA OneCapability ==
  ASSUME NEW e, NEW c \in CapabilityForEvent(e), NEW d \in CapabilityForEvent(e)
  PROVE  c = d /\ c \in Compared
BY CapabilityIs DEF CapabilityForEvent, Compared, IsFile

LEMMA StaticAccepted ==
  ASSUME EvidenceInv, ContextInv, config.initialization \in InitialScopes
  PROVE  StaticAgrees(Written)
<1> DEFINE r == Written
           Of_(c) == Ids(LAMBDA e : /\ SelectedPhaseEvent(e)
                                    /\ e.effect.kind # "file.open"
                                    /\ c \in CapabilityForEvent(e))
<1>1. /\ r.static = context.signals
      /\ \A c \in Capabilities : /\ r.staticRuntime[c].runtime = Of_(c)
                                 /\ r.staticRuntime[c].static = context.signals[c]
  BY DEF Written, NewReport, StaticRuntime
<1>2. \A c, id : id \in Of_(c) => \E e \in ToSet(observed) : id = EventId(e)
                                    /\ c \in CapabilityForEvent(e)
  BY DEF Ids
<1>3. \A c, d \in Capabilities : c # d => context.signals[c] \cap context.signals[d] = {}
  BY ContextsAssumption DEF ContextInv, Capabilities
<1>4. ASSUME NEW c, NEW d, c # d
      PROVE  Of_(c) \cap Of_(d) = {}
  <2>1. ASSUME NEW id \in Of_(c), id \in Of_(d) PROVE FALSE
    <3>1. PICK e \in ToSet(observed) : id = EventId(e) /\ c \in CapabilityForEvent(e)
      BY <1>2, <2>1
    <3>2. PICK f \in ToSet(observed) : id = EventId(f) /\ d \in CapabilityForEvent(f)
      BY <1>2, <2>1
    <3>3. e = f
      BY <3>1, <3>2, OneEvent
    <3> QED BY <1>4, <3>1, <3>2, <3>3, OneCapability
  <2> HIDE DEF Of_
  <2> QED BY <2>1
<1>5. ASSUME NEW c, c \notin Compared
      PROVE  Of_(c) = {}
  <2>1. ASSUME NEW id \in Of_(c) PROVE FALSE
    BY <1>2, <1>5, <2>1, OneCapability
  <2> HIDE DEF Of_
  <2> QED BY <2>1
<1> HIDE DEF r, Of_
<1> QED
  BY <1>1, <1>3, <1>4, <1>5 DEF StaticAgrees, r

LEMMA RowsAccepted ==
  ASSUME findings # {}, NEW x \in Ran, NEW c \in Compared
  PROVE  RowAccepted(Written, x, c)
<1> DEFINE Runtime(e) == SelectedEvent(e, x) /\ c \in CapabilityForEvent(e)
           Within(e) == Runtime(e) /\ \E s \in ScopeOf(x) : EventMatchesScope(e, c, s)
           claimed == IF x = Baseline THEN {} ELSE UNION {m[c] : m \in ClaimsFor(x)}
           row == Row(x, c)
           r == Written
<1>1. /\ row.references = claimed /\ row.advertised = AdvertisedState(x, claimed)
      /\ row.static = context.signals[c]
      /\ row.runtime = Ids(Runtime) /\ row.within = Ids(Within)
      /\ row.configured = (ScopeOf(x) # {})
      /\ row.outside = IF row.configured THEN row.runtime \ row.within ELSE {}
      /\ row.unclassified = IF row.configured THEN {} ELSE row.runtime
  BY DEF Row
<1>2. row.overlap \subseteq row.runtime
  BY DEF Row, Ids
<1>3. row.within \subseteq row.runtime /\ (~row.configured => row.within = {})
  <2>1. Ids(Within) \subseteq Ids(Runtime)
    BY DEF Ids
  <2>2. ScopeOf(x) = {} => Ids(Within) = {}
    BY DEF Ids
  <2> QED BY <1>1, <2>1, <2>2
<1>4. /\ r.scopes[x][c] = row
      /\ r.static[c] = context.signals[c]
  BY WrittenIs DEF Written, NewReport
<1> DEFINE assessed == IF x = Baseline THEN {} ELSE Assessed(x)
           evidence == UNION {a.evidence : a \in {b \in assessed : b.capability = c}}
<1>5. claimed = evidence
  <2>1. CASE x = Baseline
    BY <2>1
  <2>2. CASE x # Baseline /\ Assessed(x) = {}
    BY <2>2 DEF ClaimsFor
  <2>3. CASE x # Baseline /\ Assessed(x) # {}
    <3> DEFINE m == [d \in Compared |->
                 UNION {a.evidence : a \in {b \in Assessed(x) : b.capability = d}}]
    <3>1. ClaimsFor(x) = {m}
      BY <2>3 DEF ClaimsFor
    <3>2. m[c] = evidence
      BY <2>3
    <3> HIDE DEF m, evidence
    <3> QED BY <2>3, <3>1, <3>2
  <2> QED BY <2>1, <2>2, <2>3
<1>6. ClaimsFor(x) = {} <=> Assessed(x) = {}
  BY DEF ClaimsFor
<1>7. row.advertised =
        CASE x = Baseline -> "not_applicable"
          [] x # Baseline /\ assessed = {} -> "not_observed"
          [] x # Baseline /\ assessed # {} /\ evidence # {} -> "claimed"
          [] OTHER -> "not_claimed"
  <2>1. row.advertised = AdvertisedState(x, evidence)
    BY <1>1, <1>5
  <2> HIDE DEF row, evidence
  <2>2. CASE x = Baseline
    BY <2>1, <2>2 DEF AdvertisedState
  <2>3. CASE x # Baseline /\ assessed = {}
    BY <1>6, <2>1, <2>3 DEF AdvertisedState
  <2>4. CASE x # Baseline /\ assessed # {} /\ evidence # {}
    BY <1>6, <2>1, <2>4 DEF AdvertisedState
  <2>5. CASE x # Baseline /\ assessed # {} /\ evidence = {}
    BY <1>6, <2>1, <2>5 DEF AdvertisedState
  <2> QED BY <2>2, <2>3, <2>4, <2>5
<1> HIDE DEF r, row, claimed, assessed, evidence, Runtime, Within
<1>8. /\ row.within \cup row.outside \cup row.unclassified = row.runtime
      /\ row.within \cap row.outside = {}
      /\ (row.within \cup row.outside) \cap row.unclassified = {}
      /\ row.configured => row.unclassified = {}
      /\ ~row.configured => row.within \cup row.outside = {}
  BY <1>1, <1>3
<1>9. row.static = r.static[c] /\ row.references = evidence
  BY <1>1, <1>4, <1>5
<1> QED
  BY <1>2, <1>4, <1>7, <1>8, <1>9 DEF RowAccepted, r, assessed, evidence

(* The schema accepts what the analysis writes, whatever it has found.     *)
LEMMA WrittenAccepted ==
  ASSUME EvidenceInv, FindingsInv, ContextInv, findings # {},
         config.initialization \in InitialScopes, Call # "initialization"
  PROVE  Accepts(Written)
<1>1. FindingsUnique(Written)
  <2>1. Written.findings \in findings
    BY WrittenIs
  <2> QED BY <2>1 DEF FindingsInv, FindingsUnique, Unique
<1>2. \A x \in DOMAIN Written.scopes : \A c \in Compared : RowAccepted(Written, x, c)
  BY WrittenIs, RowsAccepted
<1> QED
  BY <1>1, <1>2, HealthAccepted, InterfacesAccepted, StaticAccepted, RuntimeAccepted
  DEF Accepts

(* What is demanded of a report depends on what never changes.             *)
LEMMA AcceptsKept ==
  ASSUME UNCHANGED <<config, context>>, NEW r, Accepts(r)
  PROVE  Accepts(r)'
<1>1. Experiments' = Experiments /\ Capabilities' = Capabilities
  BY DEF Experiments, Capabilities
<1>2. HealthAgrees(r)' /\ RuntimeAgrees(r)' /\ FindingsUnique(r)'
  <2>1. HealthAgrees(r)'
    BY DEF Accepts
  <2>2. RuntimeAgrees(r)'
    BY DEF Accepts
  <2>3. FindingsUnique(r)'
    BY DEF Accepts, FindingsUnique
  <2> QED BY <2>1, <2>2, <2>3
<1>3. InterfacesAgree(r)' /\ StaticAgrees(r)'
  BY <1>1 DEF Accepts, InterfacesAgree, StaticAgrees
<1>4. \A x : Assessed(x)' = Assessed(x)
  BY DEF Assessed, Assessments
<1>5. \A x, c : RowAccepted(r, x, c)' <=> RowAccepted(r, x, c)
  BY <1>4 DEF RowAccepted
<1> QED
  BY <1>2, <1>3, <1>5 DEF Accepts

(* A report written under the operator's configuration stays acceptable.   *)
AcceptedInv ==
  /\ ReportInv /\ ContextInv
  /\ Call # "initialization" => ReportAccepted

LEMMA AcceptedKept ==
  ASSUME AcceptedInv, [ReportNext]_reportVars
  PROVE  AcceptedInv'
<1>1. ReportInv'
  BY ReportInvKept DEF AcceptedInv
<1>2. UNCHANGED <<config, context>>
  BY DEF ReportNext, reportVars, observedVars, evidenceVars, EvidenceStep,
     WriteReport, AttributeEvents, EvaluateRules, PhaseStarts, PhaseEnds,
     ServerStarts, ChildSpawned, ProcessActs, Observe, ExperimentEnds
<1>3. ContextInv'
  BY <1>2 DEF AcceptedInv, ContextInv
<1>4. ASSUME Call # "initialization", NEW r \in report'
      PROVE  Accepts(r)
  <2>1. CASE WriteReport
    <3>1. findings # {} /\ r = Written
      BY <1>4, <2>1 DEF WriteReport, Written
    <3>2. config.initialization \in InitialScopes
      BY DEF AcceptedInv, ReportInv, EvidenceInv, EvidenceTypes
    <3> QED BY <1>4, <3>1, <3>2, WrittenAccepted DEF AcceptedInv, ReportInv
  <2>2. CASE ~WriteReport
    <3>1. report' = report
      BY <2>2 DEF ReportNext, reportVars
    <3> QED BY <1>4, <3>1 DEF AcceptedInv, ReportAccepted
  <2> QED BY <2>1, <2>2
<1>5. (Call # "initialization" => ReportAccepted)'
  BY <1>2, <1>4, AcceptsKept DEF ReportAccepted
<1> QED
  BY <1>1, <1>3, <1>5 DEF AcceptedInv

(* The schema accepts every report the analysis writes, whatever the       *)
(* evidence, the context and the findings, unless the operator calls the   *)
(* tool experiment as the findings of the initialization are called.       *)
(* (report.ts:1245, v1.ts:1616.)                                           *)
THEOREM ReportAcceptedHolds ==
  ASSUME Call # "initialization"
  PROVE  ReportSpec => []ReportAccepted
<1>1. ReportInit => AcceptedInv
  <2> SUFFICES ASSUME ReportInit PROVE AcceptedInv
    OBVIOUS
  <2>1. ReportInv
    BY EvidenceInitially, RanInitially
    DEF ReportInit, ReportInv, FindingsInv, ObservedInit
  <2>2. ContextInv /\ ReportAccepted
    BY DEF ReportInit, ContextInv, ReportAccepted
  <2> QED BY <2>1, <2>2 DEF AcceptedInv
<1>2. AcceptedInv /\ [ReportNext]_reportVars => AcceptedInv'
  BY AcceptedKept
<1>3. AcceptedInv => ReportAccepted
  BY DEF AcceptedInv
<1> QED
  BY <1>1, <1>2, <1>3, PTL DEF ReportSpec

-----------------------------------------------------------------------------
(* The trace.  Folds over its lines, unfolded a line at a time.            *)

(* What holds of 0, and of n + 1 when it holds of n, holds of every n.     *)
LEMMA Counting ==
  ASSUME NEW G, 0 \in G, \A n \in Nat : n \in G => n + 1 \in G
  PROVE  \A n \in Nat : n \in G
<1> SUFFICES ASSUME NEW k \in Nat, k \notin G PROVE FALSE
  OBVIOUS
<1> DEFINE S == Nat \ G
<1>1. S \in SUBSET Nat /\ S # {}
  OBVIOUS
<1> HIDE DEF S
<1>2. PICK n \in S : \A m \in S : n <= m
  BY <1>1, LeastIndex
<1>3. n # 0 /\ n \in Nat /\ n \notin G
  BY <1>2 DEF S
<1>4. n - 1 \in Nat /\ n - 1 \notin S
  BY <1>2, <1>3
<1>5. n - 1 \in G
  BY <1>4 DEF S
<1>6. (n - 1) + 1 \in G
  BY <1>4, <1>5
<1> QED
  BY <1>3, <1>6

LEMMA LastTaken ==
  ASSUME NEW t, t.fold \in LeftFolds, NEW n \in Nat
  PROVE  Takes(t, 1..n) /\ (n # 0 => Taken(t, 1..n) = n)
<1>1. \A s : Taken(t, s) = Max(s)
  BY DEF Taken, LeftFolds
<1>2. ASSUME NEW s \in SUBSET (1..n), s # {}
      PROVE  Max(s) \in s
  <2>1. PICK k \in s : \A m \in s : m <= k
    BY <1>2, GreatestIndex
  <2>2. \A m \in s : k >= m
    BY <2>1
  <2> QED BY <2>2 DEF Max
<1>3. n # 0 => Max(1..n) = n
  BY DEF Max
<1> QED
  BY <1>1, <1>2, <1>3 DEF Takes

LEMMA LeftUnfolds ==
  ASSUME NEW t, t.fold \in LeftFolds, NEW n \in Nat
  PROVE  /\ FoldOn(t, 1..0) = t.start
         /\ FoldOn(t, 1..(n + 1)) = Put(t, n + 1, FoldOn(t, 1..n))
<1>1. Start(t) = t.start
  BY DEF Start, LeftFolds
<1> DEFINE m == n + 1
           S == 1..m
<1>2. m \in Nat /\ m # 0 /\ S # {} /\ S \ {m} = 1..n
  OBVIOUS
<1>3. IsFiniteSet(S)
  BY <1>2, FS_Interval
<1>4. Takes(t, S) /\ Taken(t, S) = m
  BY <1>2, LastTaken
<1>5. 1..0 = {}
  OBVIOUS
<1> HIDE DEF m, S
<1>6. /\ FoldOn(t, {}) = Start(t)
      /\ FoldOn(t, S) = Put(t, Taken(t, S), FoldOn(t, S \ {Taken(t, S)}))
  BY <1>2, <1>3, <1>4, FoldUnfolds
<1>7. FoldOn(t, S) = Put(t, m, FoldOn(t, 1..n))
  BY <1>2, <1>4, <1>6
<1> QED
  BY <1>1, <1>5, <1>6, <1>7 DEF S, m

(* A fold to the left of n depends on what is there only.                  *)
SameUpTo(t, u, n) ==
  /\ t.start = u.start
  /\ \A i \in 1..n : \A v : Put(t, i, v) = Put(u, i, v)

LEMMA LeftSame ==
  ASSUME NEW t, t.fold \in LeftFolds, NEW u, u.fold \in LeftFolds, NEW n \in Nat,
         SameUpTo(t, u, n)
  PROVE  \A m \in 0..n : FoldOn(t, 1..m) = FoldOn(u, 1..m)
<1> DEFINE G == {m \in Nat : m <= n => FoldOn(t, 1..m) = FoldOn(u, 1..m)}
<1>1. 0 \in G
  <2>1. FoldOn(t, 1..0) = t.start /\ FoldOn(u, 1..0) = u.start
    BY LeftUnfolds
  <2> QED BY <2>1 DEF SameUpTo
<1>2. ASSUME NEW m \in Nat, m \in G
      PROVE  m + 1 \in G
  <2> SUFFICES ASSUME m + 1 <= n
               PROVE  FoldOn(t, 1..(m + 1)) = FoldOn(u, 1..(m + 1))
    OBVIOUS
  <2>1. /\ FoldOn(t, 1..(m + 1)) = Put(t, m + 1, FoldOn(t, 1..m))
        /\ FoldOn(u, 1..(m + 1)) = Put(u, m + 1, FoldOn(u, 1..m))
    BY LeftUnfolds
  <2>2. FoldOn(t, 1..m) = FoldOn(u, 1..m)
    BY <1>2
  <2>3. m + 1 \in 1..n
    OBVIOUS
  <2> HIDE DEF G
  <2> QED BY <2>1, <2>2, <2>3 DEF SameUpTo
<1> HIDE DEF G
<1>3. \A m \in Nat : m \in G
  BY <1>1, <1>2, Counting
<1> QED
  BY <1>3 DEF G

(* A record that is not counted as a gap.                                  *)
Silent(r) ==
  /\ ~ArgsTruncated(r)
  /\ Mutates(r) => ~MutationUnresolved(r) /\ "inside" \notin MutationPaths(r)
  /\ ~Mutates(r) =>
       /\ ~PathUnresolved(r)
       /\ ~(Unclear(r) /\ UnclearCategory(r) # "none")
       /\ ~(r.sys = "getdents" /\ Succeeded(r) /\ r.moved /\ r.note.place = "inside")
       /\ ~ProbeUnresolved(r)
       /\ ~(r.sys \in Probes \union DescriptorProbes /\ "inside" \in ProbedPath(r))
       /\ ~(r.sys = "bind" /\ ~Netlink(r))
       /\ ~InternetIo(r) /\ ~Transfers(r)
       /\ Interferes(r) => SignalZero(r)
       /\ ~Interferes(r) =>
            /\ ~(r.sys = "io_uring_setup" /\ r.outcome = "failed")
            /\ r.sys \notin OpaqueIo
            /\ ~(Maps(r) /\ r.note.place = "inside")

(* The rules, by name.                                                     *)
Applies(r, i) == GapRules(r)[i][1]

LEMMA FirstRule ==
  ASSUME NEW r
  PROVE  \E i \in 1..18 : /\ Applies(r, i) /\ \A j \in 1..(i - 1) : ~Applies(r, j)
                          /\ GapCategory(r) = GapRules(r)[i][2]
<1> DEFINE rules == GapRules(r)
           Q(i) == rules[i][1] /\ \A j \in 1..(i - 1) : ~rules[j][1]
           S == {i \in 1..18 : rules[i][1]}
<1>1. DOMAIN rules = 1..18 /\ rules[18][1]
  BY DEF GapRules
<1>2. GapCategory(r) = rules[CHOOSE i \in DOMAIN rules : Q(i)][2]
  BY DEF GapCategory
<1> HIDE DEF rules
<1>3. 18 \in S
  BY <1>1
<1>3a. S \in SUBSET Nat /\ S # {}
  BY <1>3
<1>3b. \A m : m \in S <=> m \in 1..18 /\ rules[m][1]
  OBVIOUS
<1> HIDE DEF S
<1>4. PICK n \in S : \A m \in S : n <= m
  BY <1>3a, LeastIndex
<1>5. n \in DOMAIN rules /\ Q(n)
  BY <1>1, <1>3b, <1>4
<1>6. PICK k : k = CHOOSE i \in DOMAIN rules : Q(i)
  OBVIOUS
<1>7. k \in DOMAIN rules /\ Q(k)
  BY <1>5, <1>6
<1> QED
  BY <1>1, <1>2, <1>6, <1>7 DEF Applies, rules

LEMMA RulesAre ==
  ASSUME NEW r
  PROVE  /\ Applies(r, 1) <=> ArgsTruncated(r)
         /\ Applies(r, 2) <=> Mutates(r) /\ MutationUnresolved(r)
         /\ Applies(r, 3) <=> Mutates(r) /\ "inside" \in MutationPaths(r)
         /\ Applies(r, 4) <=> Mutates(r)
         /\ Applies(r, 5) <=> PathUnresolved(r)
         /\ Applies(r, 6) <=> Unclear(r) /\ UnclearCategory(r) # "none"
         /\ Applies(r, 7) <=> /\ r.sys = "getdents" /\ Succeeded(r) /\ r.moved
                              /\ r.note.place = "inside"
         /\ Applies(r, 8) <=> ProbeUnresolved(r)
         /\ Applies(r, 9) <=> /\ r.sys \in Probes \union DescriptorProbes
                              /\ "inside" \in ProbedPath(r)
         /\ Applies(r, 10) <=> r.sys = "bind" /\ ~Netlink(r)
         /\ Applies(r, 11) <=> InternetIo(r)
         /\ Applies(r, 12) <=> Transfers(r)
         /\ Applies(r, 13) <=> Interferes(r) /\ SignalZero(r)
         /\ Applies(r, 14) <=> Interferes(r)
         /\ Applies(r, 15) <=> r.sys = "io_uring_setup" /\ r.outcome = "failed"
         /\ Applies(r, 16) <=> r.sys \in OpaqueIo
         /\ Applies(r, 17) <=> Maps(r) /\ r.note.place = "inside"
BY DEF Applies, GapRules

LEMMA NoneMeansSilent ==
  ASSUME NEW r, GapCategory(r) = "none"
  PROVE  Silent(r)
<1>1. PICK i \in 1..18 : /\ Applies(r, i) /\ \A j \in 1..(i - 1) : ~Applies(r, j)
                         /\ GapRules(r)[i][2] = "none"
  BY FirstRule
<1>2. i \in {4, 6, 13, 18}
  <2>1. /\ GapRules(r)[1][2] # "none" /\ GapRules(r)[2][2] # "none"
        /\ GapRules(r)[3][2] # "none" /\ GapRules(r)[5][2] # "none"
        /\ GapRules(r)[7][2] # "none" /\ GapRules(r)[8][2] # "none"
        /\ GapRules(r)[9][2] # "none" /\ GapRules(r)[10][2] # "none"
        /\ GapRules(r)[11][2] # "none" /\ GapRules(r)[12][2] # "none"
        /\ GapRules(r)[14][2] # "none" /\ GapRules(r)[15][2] # "none"
        /\ GapRules(r)[16][2] # "none" /\ GapRules(r)[17][2] # "none"
    BY DEF GapRules
  <2>2. i = 1 \/ i = 2 \/ i = 3 \/ i = 4 \/ i = 5 \/ i = 6 \/ i = 7 \/ i = 8 \/ i = 9
          \/ i = 10 \/ i = 11 \/ i = 12 \/ i = 13 \/ i = 14 \/ i = 15 \/ i = 16
          \/ i = 17 \/ i = 18
    OBVIOUS
  <2> QED BY <1>1, <2>1, <2>2
<1>3. i # 6
  <2>1. GapRules(r)[6][2] = UnclearCategory(r)
    BY DEF GapRules
  <2>2. CASE i = 6
    <3>1. Applies(r, 6)
      BY <1>1, <2>2
    <3>2. UnclearCategory(r) # "none"
      BY <3>1, RulesAre
    <3> QED BY <1>1, <2>1, <2>2, <3>2
  <2> QED BY <2>2
<1>4. CASE i = 4
  <2>1. ~Applies(r, 1) /\ ~Applies(r, 2) /\ ~Applies(r, 3) /\ Applies(r, 4)
    BY <1>1, <1>4
  <2> QED BY <2>1, RulesAre DEF Silent
<1>5. CASE i = 13
  <2>1. /\ ~Applies(r, 1) /\ ~Applies(r, 4) /\ ~Applies(r, 5) /\ ~Applies(r, 6)
        /\ ~Applies(r, 7) /\ ~Applies(r, 8) /\ ~Applies(r, 9) /\ ~Applies(r, 10)
        /\ ~Applies(r, 11) /\ ~Applies(r, 12) /\ Applies(r, 13)
    BY <1>1, <1>5
  <2> QED BY <2>1, RulesAre DEF Silent
<1>6. CASE i = 18
  <2>1. /\ ~Applies(r, 1) /\ ~Applies(r, 4) /\ ~Applies(r, 5) /\ ~Applies(r, 6)
        /\ ~Applies(r, 7) /\ ~Applies(r, 8) /\ ~Applies(r, 9) /\ ~Applies(r, 10)
        /\ ~Applies(r, 11) /\ ~Applies(r, 12) /\ ~Applies(r, 14)
        /\ ~Applies(r, 15) /\ ~Applies(r, 16) /\ ~Applies(r, 17)
    BY <1>1, <1>6
  <2> QED BY <2>1, RulesAre DEF Silent
<1> QED
  BY <1>2, <1>3, <1>4, <1>5, <1>6

-----------------------------------------------------------------------------
(* A record that is an event whatever came before it.                      *)
Tells(r) ==
  /\ ~Unclear(r)
  /\ \/ ExecEffects(r) # {}
     \/ FileEffectsOf(r) # {}
     \/ /\ ~Netlink(r)
        /\ \/ r.sys \in {"connect", "listen"}
           \/ r.sys = "bind" /\ Succeeded(r) /\ r.note.family = "udp"

(* A record that is counted, or an event, or whose arguments mislead.      *)
Explained(r) == Silent(r) /\ ~Mistaken(r) => Tells(r)

LEMMA KindOfFileEffects ==
  ASSUME NEW kind, NEW places, NEW e \in FileEffects(kind, places)
  PROVE  e.kind = kind
BY DEF FileEffects, FileEffect, None

LEMMA TellsIsEffect ==
  ASSUME NEW r, Tells(r), NEW state, NEW owner
  PROVE  \E e \in EffectsOf(state, r, owner) : e.kind # "process.start"
<1>1. ExecEffects(r) \union NetworkEffects(state, r) \union FileEffectsOf(r)
        \subseteq EffectsOf(state, r, owner)
  BY DEF EffectsOf, Tells
<1>2. ASSUME NEW e \in ExecEffects(r)
      PROVE  e.kind = "process.exec"
  BY <1>2, KindOfFileEffects DEF ExecEffects
<1>3. ASSUME NEW e \in FileEffectsOf(r)
      PROVE  e.kind \in {"file.write", "file.open", "file.read", "file.delete"}
  <2>1. CASE r.sys \in Opens
    <3>1. PICK places : FileEffectsOf(r) =
            FileEffects(IF TruncatingOpen(r) THEN "file.write" ELSE "file.open", places)
      BY <2>1 DEF FileEffectsOf, Opens, ReadOrWrite
    <3> QED BY <1>3, <3>1, KindOfFileEffects
  <2>2. CASE r.sys \notin Opens /\ r.sys \in DOMAIN ReadOrWrite
             /\ r.note.family = "file" /\ (Succeeded(r) => r.moved)
    <3>2. r.sys \in {"read", "write", "getdents"}
      BY <2>2 DEF ReadOrWrite
    <3>1. FileEffectsOf(r) = FileEffects(ReadOrWrite[r.sys], {r.note.place})
      BY <2>2, <3>2 DEF FileEffectsOf
    <3>3. ReadOrWrite[r.sys] \in {"file.read", "file.write"}
      BY <3>2 DEF ReadOrWrite
    <3> QED BY <1>3, <3>1, <3>3, KindOfFileEffects
  <2>3. CASE r.sys \notin Opens
             /\ ~(r.sys \in DOMAIN ReadOrWrite
                  /\ r.note.family = "file" /\ (Succeeded(r) => r.moved))
    <3>1. CASE r.sys \in {"unlink", "unlinkat"}
      <4>1. FileEffectsOf(r) = FileEffects("file.delete", PathOf(r))
        BY <2>3, <3>1 DEF FileEffectsOf
      <4> QED BY <1>3, <4>1, KindOfFileEffects
    <3>2. CASE r.sys \notin {"unlink", "unlinkat"}
      <4>1. FileEffectsOf(r) = {}
        BY <2>3, <3>2 DEF FileEffectsOf
      <4> QED BY <1>3, <4>1
    <3> QED BY <3>1, <3>2
  <2> QED BY <2>1, <2>2, <2>3
<1>4. CASE ExecEffects(r) # {}
  BY <1>1, <1>2, <1>4
<1>5. CASE FileEffectsOf(r) # {}
  BY <1>1, <1>3, <1>5
<1>6. CASE /\ ~Netlink(r)
           /\ \/ r.sys \in {"connect", "listen"}
              \/ r.sys = "bind" /\ Succeeded(r) /\ r.note.family = "udp"
  <2> DEFINE effect(kind) == [None EXCEPT !.kind = kind, !.at = EndpointAt(state, r)]
  <2>1. \A kind : effect(kind).kind = kind
    BY DEF None
  <2>2. \/ NetworkEffects(state, r) = {effect("network.connect_attempt")}
        \/ NetworkEffects(state, r) = {effect("network.listen")}
    BY <1>6 DEF NetworkEffects
  <2> HIDE DEF effect
  <2> QED BY <1>1, <2>1, <2>2
<1> QED
  BY <1>4, <1>5, <1>6 DEF Tells

(* The lines of a call, whoever makes it.                                  *)
PathLine(r) ==
  /\ r.sys \in {"open", "chmod", "unlink", "stat", "execve",
                "openat", "mkdirat", "unlinkat", "statx", "execveat"}
  /\ r.where \in Places /\ r.where2 = "none" /\ r.outcome \in Outcomes
  /\ r.note = NoNote
  /\ r.where = "inside" => r.near

PairLine(r) ==
  /\ r.sys \in PairMutations
  /\ r.where \in Places /\ r.where2 \in Places /\ r.outcome \in Outcomes
  /\ r.note = NoNote

DescriptorLine(r) ==
  /\ r.sys \in {"read", "write", "getdents", "ftruncate", "fstat", "mmap"}
  /\ r.where = "none" /\ r.where2 = "none" /\ r.flags = {}
  /\ r.outcome \in Outcomes /\ r.moved \in BOOLEAN
  /\ r.note.family = "file" /\ r.note.place \in Places

SocketLine(r) ==
  /\ r.sys \in {"read", "write", "sendto", "recvmsg", "connect", "bind"}
  /\ r.where = "none" /\ r.where2 = "none"
  /\ r.outcome \in Outcomes /\ r.moved \in BOOLEAN
  /\ r.note.family \in {"tcp", "udp", "unix", "netlink"}
  /\ r.note.place = "none"
  /\ r.says \subseteq {"AF_UNIX", "AF_NETLINK"}

OtherLine(r) ==
  /\ r.sys \in Escapes \union OpaqueIo
  /\ r.outcome \in Outcomes

LEMMA PathExplained ==
  ASSUME NEW r, PathLine(r), Matters(r), Silent(r)
  PROVE  Tells(r)
<1> USE DEF PathLine, NoNote
<1>0. r.note.family = "none" /\ r.note.place = "none"
  OBVIOUS
<1>1. CASE r.sys \in {"execve", "execveat"}
  <2>1. ~Mutates(r)
    BY <1>1 DEF Mutates, Mutations, PathMutations, DescriptorMutations, PairMutations,
                MutatingOpen, Opens
  <2>2. ~ArgsTruncated(r) /\ ~PathUnresolved(r) /\ ~(Unclear(r) /\ UnclearCategory(r) # "none")
    BY <2>1 DEF Silent
  <2>3. UnclearCategory(r) = "indeterminate_outcome"
    BY <1>1 DEF UnclearCategory, Opens, Maps
  <2>4. PathOf(r) # {}
    BY <1>1, <2>2 DEF PathUnresolved
  <2>5. ExecEffects(r) # {}
    BY <1>1, <2>2, <2>4 DEF ExecEffects, FileEffects
  <2> QED BY <2>2, <2>3, <2>5 DEF Tells
<1>2. CASE r.sys \notin {"execve", "execveat"}
  <2>0. r.where = "inside"
    <3>1. "inside" \in {r.where, r.where2, r.note.place}
      BY <1>0, <1>2 DEF Matters, Escapes, OpaqueIo
    <3> QED BY <3>1, <1>0
  <2>1. CASE r.sys \in {"chmod", "mkdirat"}
    <3>1. Mutates(r)
      BY <2>1 DEF Mutates, Mutations, PathMutations
    <3>2. MutationPaths(r) = PathOf(r) /\ (PathOf(r) = {} => MutationUnresolved(r))
      BY <2>1 DEF MutationPaths, MutationUnresolved, MutatingOpen, Opens,
                  DescriptorMutations, PairMutations
    <3>3. PathOf(r) # {} /\ "inside" \notin PathOf(r)
      BY <3>1, <3>2 DEF Silent
    <3> QED BY <2>0, <3>3 DEF PathOf
  <2>2. CASE r.sys \in {"unlink", "unlinkat"}
    <3>1. ~Mutates(r)
      BY <2>2 DEF Mutates, Mutations, PathMutations, DescriptorMutations, PairMutations,
                  MutatingOpen, Opens
    <3>2. ~PathUnresolved(r) /\ ~(Unclear(r) /\ UnclearCategory(r) # "none")
      BY <3>1 DEF Silent
    <3>3. PathOf(r) # {}
      BY <2>2, <3>2 DEF PathUnresolved
    <3>4. "inside" \in PathOf(r)
      BY <2>0, <3>3 DEF PathOf
    <3>5. UnclearCategory(r) = "filesystem_mutation"
      BY <2>2, <3>4 DEF UnclearCategory, Opens, Maps
    <3>6. FileEffectsOf(r) # {}
      BY <2>2, <3>3 DEF FileEffectsOf, FileEffects, Opens, ReadOrWrite
    <3> QED BY <3>2, <3>5, <3>6 DEF Tells
  <2>3. CASE r.sys \in {"stat", "statx"}
    <3>1. ~Mutates(r)
      BY <2>3 DEF Mutates, Mutations, PathMutations, DescriptorMutations, PairMutations,
                  MutatingOpen, Opens
    <3>2. ~ProbeUnresolved(r) /\ "inside" \notin ProbedPath(r)
      BY <2>3, <3>1 DEF Silent, Probes
    <3>3. ProbedPath(r) = PathOf(r)
      BY <2>3 DEF ProbedPath, DescriptorProbes
    <3>4. PathOf(r) = {}
      BY <2>0, <3>2, <3>3 DEF PathOf
    <3> QED BY <2>0, <2>3, <3>2, <3>4 DEF ProbeUnresolved, Probes, Plausible
  <2>4. CASE r.sys \in {"open", "openat"}
    <3>0. r.sys \in Opens
      BY <2>4 DEF Opens
    <3>1. CASE MutatingOpen(r)
      <4>1. Mutates(r)
        BY <3>1 DEF Mutates
      <4>2. /\ Succeeded(r) => MutationPaths(r) = {r.where}
            /\ ~Succeeded(r) => /\ MutationPaths(r) = PathOf(r)
                                /\ PathOf(r) = {} => MutationUnresolved(r)
        BY <2>4, <3>1 DEF MutationPaths, MutationUnresolved,
                          DescriptorMutations, PairMutations
      <4>3. ~MutationUnresolved(r) /\ "inside" \notin MutationPaths(r)
        BY <4>1 DEF Silent
      <4> QED BY <2>0, <4>2, <4>3 DEF PathOf
    <3>2. CASE ~MutatingOpen(r)
      <4>1. ~Mutates(r)
        BY <2>4, <3>2 DEF Mutates, Mutations, PathMutations, DescriptorMutations,
                          PairMutations
      <4>2. ~PathUnresolved(r) /\ ~(Unclear(r) /\ UnclearCategory(r) # "none")
        BY <4>1 DEF Silent
      <4>3. ~Succeeded(r) => PathOf(r) # {}
        <5>1. CASE TruncatingOpen(r)
          BY <4>2, <5>1 DEF PathUnresolved
        <5>2. CASE ~TruncatingOpen(r)
          <6>1. ~OpenUnresolved(r)
            BY <4>2 DEF PathUnresolved
          <6>2. ASSUME ~Succeeded(r)
                PROVE  r.text # "truncated" /\ PathOf(r) # {}
            BY <2>0, <3>0, <3>2, <5>2, <6>1, <6>2 DEF OpenUnresolved, Plausible
          <6> QED BY <6>2
        <5> QED BY <5>1, <5>2
      <4>4. "inside" \in PathOf(r) => UnclearCategory(r) # "none"
        <5>1. CASE "inside" \in PathOf(r)
          <6>1. UnclearCategory(r) = IF TruncatingOpen(r) THEN "filesystem_mutation"
                                     ELSE "alternate_file_access"
            BY <2>4, <3>0, <5>1 DEF UnclearCategory, Maps
          <6> QED BY <6>1
        <5> QED BY <5>1
      <4>5. ~Unclear(r)
        BY <2>0, <4>2, <4>3, <4>4 DEF PathOf, Unclear, Succeeded
      <4>6. FileEffectsOf(r) =
              FileEffects(IF TruncatingOpen(r) THEN "file.write" ELSE "file.open",
                          IF Succeeded(r) THEN {r.where} ELSE PathOf(r))
        BY <2>4 DEF FileEffectsOf, Opens, ReadOrWrite
      <4>7. (IF Succeeded(r) THEN {r.where} ELSE PathOf(r)) # {}
        BY <4>3
      <4>8. FileEffectsOf(r) # {}
        BY <4>6, <4>7 DEF FileEffects
      <4> QED BY <4>5, <4>8 DEF Tells
    <3> QED BY <3>1, <3>2
  <2> QED BY <1>2, <2>1, <2>2, <2>3, <2>4
<1> QED
  BY <1>1, <1>2

LEMMA PairExplained ==
  ASSUME NEW r, PairLine(r), Matters(r), Silent(r)
  PROVE  FALSE
<1>1. r.sys \in PairMutations /\ r.sys \notin Opens /\ r.sys \notin DescriptorMutations
  BY DEF PairLine, PairMutations, Opens, DescriptorMutations
<1>2. Mutates(r) /\ ~MutatingOpen(r)
  BY <1>1 DEF Mutates, Mutations, MutatingOpen
<1>3. ~MutationUnresolved(r) /\ "inside" \notin MutationPaths(r)
  BY <1>2 DEF Silent
<1>4. PathOf(r) # {} /\ Resolves(r.text2, r.dir)
  BY <1>1, <1>2, <1>3 DEF MutationUnresolved
<1>5. PathOf(r) = {r.where}
  BY <1>4 DEF PathOf
<1>6. MutationPaths(r) = {r.where} \union {r.where2}
  BY <1>1, <1>2, <1>4, <1>5 DEF MutationPaths
<1>7. "inside" \in {r.where, r.where2, r.note.place}
  BY DEF PairLine, Matters, PairMutations, Escapes, OpaqueIo
<1>8. r.note.place = "none"
  BY DEF PairLine, NoNote
<1> QED
  BY <1>3, <1>6, <1>7, <1>8

LEMMA DescriptorExplained ==
  ASSUME NEW r, DescriptorLine(r), Matters(r), Silent(r)
  PROVE  Tells(r)
<1> USE DEF DescriptorLine
<1>1. r.note.place = "inside"
  <2>1. CASE r.sys \in {"read", "write", "getdents"}
    <3>1. "inside" \in {r.where, r.where2, r.note.place}
      BY <2>1 DEF Matters, Escapes, OpaqueIo
    <3> QED BY <3>1
  <2>2. CASE r.sys \in {"ftruncate", "fstat", "mmap"}
    <3>1. "inside" \in {r.where, r.where2, r.note.place}
      BY <2>2 DEF Matters, Escapes, OpaqueIo
    <3> QED BY <3>1
  <2> QED BY <2>1, <2>2
<1>2. CASE r.sys = "ftruncate"
  <2>1. Mutates(r)
    BY <1>2 DEF Mutates, Mutations, DescriptorMutations
  <2>2. MutationPaths(r) = {r.note.place} \ {"none"}
    BY <1>2 DEF MutationPaths, DescriptorMutations, MutatingOpen, Opens
  <2> QED BY <1>1, <2>1, <2>2 DEF Silent
<1>3. CASE r.sys # "ftruncate"
  <2>0. ~Mutates(r)
    BY <1>3 DEF Mutates, Mutations, PathMutations, DescriptorMutations, PairMutations,
                MutatingOpen, Opens
  <2>1. CASE r.sys = "fstat"
    <3>1. "inside" \in ProbedPath(r) /\ r.sys \in Probes \union DescriptorProbes
      BY <1>1, <2>1 DEF ProbedPath, Probes, DescriptorProbes
    <3> QED BY <2>0, <3>1 DEF Silent
  <2>2. CASE r.sys = "mmap"
    <3>1. Maps(r) /\ ~Interferes(r)
      BY <2>2 DEF Maps, Interferes, Escapes, Forks
    <3> QED BY <1>1, <2>0, <3>1 DEF Silent
  <2>3. CASE r.sys \in {"read", "write", "getdents"}
    <3>1. ~(Unclear(r) /\ UnclearCategory(r) # "none")
      BY <2>0 DEF Silent
    <3>2. ~Unclear(r)
      <4>1. UnclearCategory(r) # "none"
        <5>1. CASE r.sys = "write"
          <6>1. UnclearCategory(r) = "filesystem_mutation"
            BY <1>1, <5>1 DEF UnclearCategory, Opens, Maps
          <6> QED BY <6>1
        <5>2. CASE r.sys \in {"read", "getdents"}
          <6>1. UnclearCategory(r) = "alternate_file_access"
            BY <1>1, <5>2 DEF UnclearCategory, Opens, Maps
          <6> QED BY <6>1
        <5> QED BY <2>3, <5>1, <5>2
      <4> QED BY <3>1, <4>1
    <3>3. Succeeded(r) => r.moved
      BY <1>1, <2>3 DEF Matters, Escapes, OpaqueIo
    <3>4. FileEffectsOf(r) = FileEffects(ReadOrWrite[r.sys], {r.note.place})
      BY <2>3, <3>3 DEF FileEffectsOf, Opens, ReadOrWrite
    <3>5. FileEffectsOf(r) # {}
      BY <3>4 DEF FileEffects
    <3> QED BY <3>2, <3>5 DEF Tells
  <2> QED BY <1>3, <2>1, <2>2, <2>3
<1> QED
  BY <1>2, <1>3

LEMMA SocketExplained ==
  ASSUME NEW r, SocketLine(r), Matters(r), Silent(r), ~Mistaken(r)
  PROVE  Tells(r)
<1> USE DEF SocketLine, Mistaken
<1>0. ~Mutates(r)
  BY DEF Mutates, Mutations, PathMutations, DescriptorMutations, PairMutations,
         MutatingOpen, Opens
<1>1. ~(Unclear(r) /\ UnclearCategory(r) # "none") /\ ~(r.sys = "bind" /\ ~Netlink(r))
        /\ ~InternetIo(r) /\ ~Transfers(r)
  BY <1>0 DEF Silent
<1>2. CASE r.sys = "connect"
  <2>1. ~Netlink(r)
    BY <1>2 DEF Matters, Netlink, Escapes, OpaqueIo
  <2>2. UnclearCategory(r) = "network_endpoint"
    BY <1>2, <2>1 DEF UnclearCategory, Opens, Maps
  <2> QED BY <1>1, <1>2, <2>1, <2>2 DEF Tells
<1>3. CASE r.sys = "bind"
  BY <1>1, <1>3 DEF Matters, Netlink, Escapes, OpaqueIo
<1>4. CASE r.sys = "sendto"
  BY <1>1, <1>4 DEF Matters, Transfers, LocalOnly, Internet, Escapes, OpaqueIo
<1>5. CASE r.sys = "recvmsg"
  BY <1>1, <1>5 DEF Matters, Transfers, LocalOnly, Internet, Escapes, OpaqueIo
<1>6. CASE r.sys = "write"
  BY <1>1, <1>6 DEF Matters, InternetIo, Escapes, OpaqueIo
<1>7. CASE r.sys = "read"
  BY <1>1, <1>7 DEF Matters, InternetIo, Escapes, OpaqueIo
<1> QED
  BY <1>2, <1>3, <1>4, <1>5, <1>6, <1>7

LEMMA OtherExplained ==
  ASSUME NEW r, OtherLine(r), Matters(r), Silent(r)
  PROVE  FALSE
<1> USE DEF OtherLine
<1>0. ~Mutates(r)
  BY DEF Mutates, Mutations, PathMutations, DescriptorMutations, PairMutations,
         MutatingOpen, Opens, Escapes, OpaqueIo
<1>1. "SIGNAL_ZERO" \notin r.flags
  BY DEF Matters, Escapes, OpaqueIo
<1>2. CASE r.sys \in Escapes
  BY <1>0, <1>1, <1>2 DEF Silent, Interferes, SignalZero
<1>3. CASE r.sys \in OpaqueIo
  <2>1. ~Interferes(r)
    BY <1>3 DEF Interferes, Escapes, OpaqueIo, Forks
  <2> QED BY <1>0, <1>3, <2>1 DEF Silent
<1> QED
  BY <1>2, <1>3

-----------------------------------------------------------------------------
(* What a single call writes.                                              *)
LEMMA PathCallMade ==
  ASSUME NEW line \in PathCalls
  PROVE  \E sys \in (WithoutDirectory \union WithDirectory) \ PairMutations,
            place \in Places, outcome \in Outcomes :
           \E q \in Renderings(sys, place), flags \in FlagsOf(sys) :
             line = PathCall(sys, place, outcome, flags, q)
<1> DEFINE T(sys, place, outcome) ==
             {PathCall(sys, place, outcome, flags, q) :
                q \in Renderings(sys, place), flags \in FlagsOf(sys)}
           S == (WithoutDirectory \union WithDirectory) \ PairMutations
<1>0. PathCalls = UNION {T(sys, place, outcome) :
                           sys \in S, place \in Places, outcome \in Outcomes}
  BY DEF PathCalls
<1> HIDE DEF T, S
<1>1. PICK sys \in S, place \in Places, outcome \in Outcomes :
        line \in T(sys, place, outcome)
  BY <1>0
<1>2. PICK q \in Renderings(sys, place), flags \in FlagsOf(sys) :
        line = PathCall(sys, place, outcome, flags, q)
  BY <1>1 DEF T
<1> QED
  BY <1>2 DEF S

LEMMA PathCallsAre ==
  ASSUME NEW line \in PathCalls, NEW p
  PROVE  PathLine([line EXCEPT !.pid = p])
<1> DEFINE S == (WithoutDirectory \union WithDirectory) \ PairMutations
<1>1. PICK sys \in S, place \in Places, outcome \in Outcomes :
        \E q \in Renderings(sys, place), flags \in FlagsOf(sys) :
          line = PathCall(sys, place, outcome, flags, q)
  BY PathCallMade
<1>2. PICK q \in Renderings(sys, place), flags \in FlagsOf(sys) :
        line = PathCall(sys, place, outcome, flags, q)
  BY <1>1
<1>3. place = "inside" => q.near
  BY DEF Renderings
<1>4. sys \in {"open", "chmod", "unlink", "stat", "execve",
                "openat", "mkdirat", "unlinkat", "statx", "execveat"}
  BY DEF S, WithoutDirectory, WithDirectory, PairMutations
<1> DEFINE r == [line EXCEPT !.pid = p]
<1>5. /\ r.sys = sys /\ r.where = place /\ r.where2 = "none" /\ r.outcome = outcome
      /\ r.note = NoNote /\ r.near = q.near
  BY <1>2 DEF Line, PathCall
<1> QED
  BY <1>3, <1>4, <1>5 DEF PathLine

LEMMA PairCallsAre ==
  ASSUME NEW line \in PairCalls, NEW p
  PROVE  PairLine([line EXCEPT !.pid = p])
<1>1. PICK sys \in PairMutations, place \in Places, place2 \in Places,
           outcome \in Outcomes, text \in {"absolute", "relative"},
           text2 \in {"absolute", "truncated"} :
        line = PairCall(sys, place, place2, outcome, text, text2)
  BY DEF PairCalls
<1> QED
  BY <1>1 DEF PairLine, Line, PairCall

LEMMA DescriptorCallsAre ==
  ASSUME NEW line \in DescriptorCalls, NEW p
  PROVE  DescriptorLine([line EXCEPT !.pid = p])
<1>1. PICK sys \in {"read", "write", "getdents", "ftruncate", "fstat", "mmap"},
           outcome \in Outcomes, moved \in BOOLEAN, place \in Places :
        line = DescriptorCall(sys, outcome, moved, place)
  BY DEF DescriptorCalls
<1> QED
  BY <1>1 DEF DescriptorLine, Line, DescriptorCall, NoNote

LEMMA SocketCallMade ==
  ASSUME NEW line \in SocketCalls
  PROVE  \E sys \in {"read", "write", "sendto", "recvmsg", "connect", "bind"},
            outcome \in Outcomes, moved \in BOOLEAN,
            family \in {"tcp", "udp", "unix", "netlink"},
            says \in SUBSET {"AF_UNIX", "AF_NETLINK"} :
           line = SocketCall(sys, outcome, moved, family, says)
<1> DEFINE T(sys, family) ==
             {SocketCall(sys, outcome, moved, family, says) :
                outcome \in Outcomes, moved \in BOOLEAN,
                says \in Sayings(sys, family)}
           S == {"read", "write", "sendto", "recvmsg", "connect", "bind"}
           F == {"tcp", "udp", "unix", "netlink"}
<1>0. SocketCalls = UNION {T(sys, family) : sys \in S, family \in F}
  BY DEF SocketCalls
<1> HIDE DEF T, S, F
<1>1. PICK sys \in S, family \in F : line \in T(sys, family)
  BY <1>0
<1>2. PICK outcome \in Outcomes, moved \in BOOLEAN,
           says \in Sayings(sys, family) :
        line = SocketCall(sys, outcome, moved, family, says)
  BY <1>1 DEF T
<1>3. Sayings(sys, family) \subseteq SUBSET {"AF_UNIX", "AF_NETLINK"}
  BY DEF Sayings
<1> QED
  BY <1>2, <1>3 DEF S, F

LEMMA SocketCallsAre ==
  ASSUME NEW line \in SocketCalls, NEW p
  PROVE  SocketLine([line EXCEPT !.pid = p])
<1>1. PICK sys \in {"read", "write", "sendto", "recvmsg", "connect", "bind"},
           outcome \in Outcomes, moved \in BOOLEAN,
           family \in {"tcp", "udp", "unix", "netlink"},
           says \in SUBSET {"AF_UNIX", "AF_NETLINK"} :
        line = SocketCall(sys, outcome, moved, family, says)
  BY SocketCallMade
<1> QED
  BY <1>1 DEF SocketLine, Line, SocketCall, NoNote

LEMMA OtherCallsAre ==
  ASSUME NEW line \in OtherCalls, NEW p
  PROVE  OtherLine([line EXCEPT !.pid = p])
<1> DEFINE calls == {<<"mount", {}>>, <<"kill", {}>>, <<"kill", {"SIGNAL_ZERO"}>>,
                     <<"io_submit", {}>>, <<"io_uring_setup", {}>>}
<1>1. PICK call \in calls, outcome \in Outcomes :
        line = OtherCall(call, outcome)
  BY DEF OtherCalls
<1>2. call[1] \in Escapes \union OpaqueIo
  BY DEF Escapes, OpaqueIo
<1> HIDE DEF calls
<1> QED
  BY <1>1, <1>2 DEF OtherLine, Line, OtherCall

LEMMA MattersWhoever ==
  ASSUME NEW line, NEW p, Matters(line),
         line = [f \in DOMAIN Line |-> line[f]]
  PROVE  Matters([line EXCEPT !.pid = p])
<1> DEFINE r == [line EXCEPT !.pid = p]
<1>1. /\ r.sys = line.sys /\ r.where = line.where /\ r.where2 = line.where2
      /\ r.note = line.note /\ r.moved = line.moved /\ r.flags = line.flags
      /\ r.outcome = line.outcome
  BY DEF Line
<1>2. Succeeded(r) = Succeeded(line)
  BY <1>1 DEF Succeeded
<1> HIDE DEF r
<1> SUFFICES Matters(r)
  BY DEF r
<1> QED
  BY <1>1, <1>2 DEF Matters

(* What the lines of the single calls have in common.                      *)
SingleLine(line) ==
  /\ line = [f \in DOMAIN Line |-> line[f]]
  /\ line.sys \notin {"clone", "close", "close_range", "dup2", "socket", "accept",
                     "listen"}
  /\ line.at \in Nat
  /\ line.sys \in {"bind", "connect"} <=> line.at # 0
  /\ line.sys = "bind" => /\ line.note = [NoNote EXCEPT !.family = line.note.family]
                          /\ line.note.family \in {"tcp", "udp", "unix", "netlink"}
                          /\ line.fd \in Fds

LEMMA SingleLines ==
  ASSUME NEW line \in SingleCalls
  PROVE  SingleLine(line)
<1>1. CASE line \in PathCalls
  <2> DEFINE S == (WithoutDirectory \union WithDirectory) \ PairMutations
  <2>0. PICK sys \in S, place \in Places, outcome \in Outcomes :
          \E q \in Renderings(sys, place), flags \in FlagsOf(sys) :
            line = PathCall(sys, place, outcome, flags, q)
    BY <1>1, PathCallMade
  <2>1. PICK q \in Renderings(sys, place), flags \in FlagsOf(sys) :
          line = PathCall(sys, place, outcome, flags, q)
    BY <2>0
  <2>2. sys \in {"open", "chmod", "unlink", "stat", "execve",
                 "openat", "mkdirat", "unlinkat", "statx", "execveat"}
    BY DEF WithoutDirectory, WithDirectory, PairMutations
  <2>3. line = [f \in DOMAIN Line |-> line[f]] /\ line.sys = sys /\ line.at = 0
    BY <2>1 DEF PathCall, Line
  <2> QED BY <2>2, <2>3 DEF SingleLine
<1>2. CASE line \in PairCalls
  <2>1. PICK sys \in PairMutations, place \in Places, place2 \in Places,
             outcome \in Outcomes, text \in {"absolute", "relative"},
             text2 \in {"absolute", "truncated"} :
          line = PairCall(sys, place, place2, outcome, text, text2)
    BY <1>2 DEF PairCalls
  <2>2. line = [f \in DOMAIN Line |-> line[f]] /\ line.sys = sys /\ line.at = 0
    BY <2>1 DEF PairCall, Line
  <2> QED BY <2>2 DEF SingleLine, PairMutations
<1>3. CASE line \in DescriptorCalls
  <2>1. PICK sys \in {"read", "write", "getdents", "ftruncate", "fstat", "mmap"},
             outcome \in Outcomes, moved \in BOOLEAN, place \in Places :
          line = DescriptorCall(sys, outcome, moved, place)
    BY <1>3 DEF DescriptorCalls
  <2>2. line = [f \in DOMAIN Line |-> line[f]] /\ line.sys = sys /\ line.at = 0
    BY <2>1 DEF DescriptorCall, Line
  <2> QED BY <2>2 DEF SingleLine
<1>4. CASE line \in SocketCalls
  <2>1. PICK sys \in {"read", "write", "sendto", "recvmsg", "connect", "bind"},
             outcome \in Outcomes, moved \in BOOLEAN,
             family \in {"tcp", "udp", "unix", "netlink"},
             says \in SUBSET {"AF_UNIX", "AF_NETLINK"} :
          line = SocketCall(sys, outcome, moved, family, says)
    BY <1>4, SocketCallMade
  <2>2. /\ line = [f \in DOMAIN Line |-> line[f]] /\ line.sys = sys
        /\ line.at = IF sys \in {"connect", "bind"} THEN 9 ELSE 0
        /\ line.note = [NoNote EXCEPT !.family = family] /\ line.fd = 3
    BY <2>1 DEF SocketCall, Line
  <2>3. line.note.family = family
    BY <2>2 DEF NoNote
  <2> QED BY <2>2, <2>3 DEF SingleLine, Fds
<1>5. CASE line \in OtherCalls
  <2> DEFINE calls == {<<"mount", {}>>, <<"kill", {}>>, <<"kill", {"SIGNAL_ZERO"}>>,
                       <<"io_submit", {}>>, <<"io_uring_setup", {}>>}
  <2>1. PICK call \in calls, outcome \in Outcomes : line = OtherCall(call, outcome)
    BY <1>5 DEF OtherCalls
  <2>2. call[1] \in {"mount", "kill", "io_submit", "io_uring_setup"}
    OBVIOUS
  <2> HIDE DEF calls
  <2>3. line = [f \in DOMAIN Line |-> line[f]] /\ line.sys = call[1] /\ line.at = 0
    BY <2>1 DEF OtherCall, Line
  <2> QED BY <2>2, <2>3 DEF SingleLine
<1> QED
  BY <1>1, <1>2, <1>3, <1>4, <1>5 DEF SingleCalls

LEMMA SingleExplained ==
  ASSUME NEW line \in SingleCalls, Matters(line), NEW p
  PROVE  Explained([line EXCEPT !.pid = p])
<1> DEFINE r == [line EXCEPT !.pid = p]
<1>1. line = [f \in DOMAIN Line |-> line[f]]
  BY SingleLines DEF SingleLine
<1>2. Matters(r)
  BY <1>1, MattersWhoever
<1>3. \/ PathLine(r) \/ PairLine(r) \/ DescriptorLine(r) \/ SocketLine(r)
      \/ OtherLine(r)
  BY PathCallsAre, PairCallsAre, DescriptorCallsAre, SocketCallsAre, OtherCallsAre
     DEF SingleCalls
<1> HIDE DEF r
<1>4. Explained(r)
  BY <1>2, <1>3, PathExplained, PairExplained, DescriptorExplained, SocketExplained,
     OtherExplained DEF Explained
<1> QED
  BY <1>4 DEF r

(* The two folds over the records of a trace.                              *)
OwnersFold(records, pids) ==
  [fold |-> "owners", of |-> records, start |-> [p \in pids |-> p]]

Closed(these) == [fd \in these |-> Unbound]

PassFold(records, pids, these) ==
  [fold |-> "pass", of |-> records, owner |-> OwnersOf(records, pids),
   closed |-> Closed(these),
   start |-> [line |-> 0, events |-> {},
              state |-> [of |-> [p \in pids |-> p],
                         tables |-> [p \in pids |-> Closed(these)]]]]

LEMMA FoldsAre ==
  ASSUME NEW records, NEW pids, NEW these
  PROVE  /\ OwnersFold(records, pids).fold \in LeftFolds
         /\ PassFold(records, pids, these).fold \in LeftFolds
         /\ \A i, v : Put(OwnersFold(records, pids), i, v) = OwnerAfter(v, records[i])
         /\ \A i, v : Put(PassFold(records, pids, these), i, v)
              = NormalizeRecord(v, records[i], OwnersOf(records, pids), Closed(these))
BY DEF OwnersFold, PassFold, LeftFolds, Put

LEMMA OwnersAreFold ==
  ASSUME NEW records, NEW pids, NEW n \in Nat, DOMAIN records = 1..n
  PROVE  OwnersOf(records, pids) = FoldOn(OwnersFold(records, pids), 1..n)
<1> DEFINE D == 1..n
           t == OwnersFold(records, pids)
           base == [p \in pids |-> p]
           Q(g) == g = [s \in SUBSET D |-> IF s = {} THEN base
                          ELSE OwnerAfter(g[s \ {Max(s)}], records[Max(s)])]
<1>1. /\ Start(t) = base
      /\ \A s : Taken(t, s) = Max(s)
      /\ \A x, v : Put(t, x, v) = OwnerAfter(v, records[x])
      /\ t.fold \in LeftFolds
  BY DEF Start, OwnersFold, Taken, Put, LeftFolds
<1>2. OwnersOf(records, pids) = (CHOOSE g : Q(g))[D]
  BY DEF OwnersOf, FoldLeft, MapThenFoldSet
<1>3. HasFold(t, D)
  <2>1. Takes(t, D)
    BY <1>1, LastTaken
  <2>2. IsFiniteSet(D)
    BY FS_Interval
  <2> QED BY <2>1, <2>2, FoldExists
<1> HIDE DEF D, t, base
<1>4. \A g : Q(g) <=> IsFold(t, D, g)
  BY <1>1 DEF IsFold
<1> HIDE DEF Q
<1>5. PICK h : IsFold(t, D, h) /\ \A g : IsFold(t, D, g) => g = h
  BY <1>3 DEF HasFold
<1>6. (CHOOSE g : Q(g)) = h /\ (CHOOSE g : IsFold(t, D, g)) = h
  BY <1>4, <1>5
<1>7. FoldOn(t, D) = h[D]
  BY <1>6 DEF FoldOn
<1> QED
  BY <1>2, <1>6, <1>7 DEF t, D

LEMMA EventsAreFold ==
  ASSUME NEW records, NEW pids, NEW these, NEW n \in Nat, DOMAIN records = 1..n
  PROVE  EventsOf(records, pids, these) =
           FoldOn(PassFold(records, pids, these), 1..n).events
             \union ChildStarts(records, OwnersOf(records, pids))
             \union RootStarts(records, OwnersOf(records, pids))
<1> DEFINE D == 1..n
           t == PassFold(records, pids, these)
           owner == OwnersOf(records, pids)
           closed == Closed(these)
           base == [line |-> 0, events |-> {},
                    state |-> [of |-> [p \in pids |-> p],
                               tables |-> [p \in pids |-> closed]]]
           Q(g) == g = [s \in SUBSET D |-> IF s = {} THEN base
                          ELSE NormalizeRecord(g[s \ {Max(s)}], records[Max(s)],
                                               owner, closed)]
<1>1. /\ Start(t) = base
      /\ \A s : Taken(t, s) = Max(s)
      /\ \A x, v : Put(t, x, v) = NormalizeRecord(v, records[x], owner, closed)
      /\ t.fold \in LeftFolds
  BY DEF Start, PassFold, Taken, Put, LeftFolds
<1>2. EventsOf(records, pids, these) =
        (CHOOSE g : Q(g))[D].events \union ChildStarts(records, owner)
          \union RootStarts(records, owner)
  BY DEF EventsOf, FoldLeft, MapThenFoldSet, Closed
<1>3. HasFold(t, D)
  <2>1. Takes(t, D)
    BY <1>1, LastTaken
  <2>2. IsFiniteSet(D)
    BY FS_Interval
  <2> QED BY <2>1, <2>2, FoldExists
<1> HIDE DEF D, t, base, owner, closed
<1>4. \A g : Q(g) <=> IsFold(t, D, g)
  BY <1>1 DEF IsFold
<1> HIDE DEF Q
<1>5. PICK h : IsFold(t, D, h) /\ \A g : IsFold(t, D, g) => g = h
  BY <1>3 DEF HasFold
<1>6. (CHOOSE g : Q(g)) = h /\ (CHOOSE g : IsFold(t, D, g)) = h
  BY <1>4, <1>5
<1>7. FoldOn(t, D) = h[D]
  BY <1>6 DEF FoldOn
<1> QED
  BY <1>2, <1>6, <1>7 DEF t, D, owner

(* What the event of an effect says.                                       *)
EffectEvent(line, r, owner, e) ==
  [line |-> line, kind |-> e.kind, process |-> owner[r.pid],
   at |-> e.at, place |-> e.place, outcome |-> r.outcome]

NewEvents(pass, r, owner, these) ==
  {EffectEvent(pass.line + 1, r, owner, e) :
     e \in EffectsOf(Maintain(pass.state, r, Closed(these)), r, owner)}

LEMMA OneRecord ==
  ASSUME NEW pass, NEW r, NEW owner, NEW these
  PROVE  LET next == NormalizeRecord(pass, r, owner, Closed(these)) IN
         /\ next.line = pass.line + 1
         /\ next.state = RecordBind(Maintain(pass.state, r, Closed(these)), r)
         /\ next.events = pass.events \union NewEvents(pass, r, owner, these)
BY DEF NormalizeRecord, NewEvents, EffectEvent

PassAfter(records, pids, these, m) == FoldOn(PassFold(records, pids, these), 1..m)

Passes(pass, r, owner, these, next) ==
  /\ next.line = pass.line + 1
  /\ next.state = RecordBind(Maintain(pass.state, r, Closed(these)), r)
  /\ next.events = pass.events \union NewEvents(pass, r, owner, these)

LEMMA PassUnfolds ==
  ASSUME NEW records, NEW pids, NEW these
  PROVE  /\ PassAfter(records, pids, these, 0) = PassFold(records, pids, these).start
         /\ \A m \in Nat : Passes(PassAfter(records, pids, these, m), records[m + 1],
                                 OwnersOf(records, pids), these,
                                 PassAfter(records, pids, these, m + 1))
<1> DEFINE t == PassFold(records, pids, these)
           owner == OwnersOf(records, pids)
<1>1. /\ t.fold \in LeftFolds
      /\ \A i, v : Put(t, i, v) = NormalizeRecord(v, records[i], owner, Closed(these))
  BY FoldsAre
<1> HIDE DEF t, owner
<1>2. FoldOn(t, 1..0) = t.start
  <2>1. 0 \in Nat
    OBVIOUS
  <2> QED BY <1>1, <2>1, LeftUnfolds
<1>3. ASSUME NEW m \in Nat
      PROVE  Passes(FoldOn(t, 1..m), records[m + 1], owner, these,
                    FoldOn(t, 1..(m + 1)))
  <2>1. FoldOn(t, 1..(m + 1)) = Put(t, m + 1, FoldOn(t, 1..m))
    BY <1>1, LeftUnfolds
  <2> DEFINE pass == FoldOn(t, 1..m)
             next == FoldOn(t, 1..(m + 1))
             r == records[m + 1]
  <2>2. next = NormalizeRecord(pass, r, owner, Closed(these))
    BY <1>1, <2>1
  <2> HIDE DEF pass, next, r
  <2>3. /\ next.line = pass.line + 1
        /\ next.state = RecordBind(Maintain(pass.state, r, Closed(these)), r)
        /\ next.events = pass.events \union NewEvents(pass, r, owner, these)
    BY <2>2, OneRecord
  <2> QED BY <2>3 DEF pass, next, r, Passes
<1> QED
  BY <1>2, <1>3 DEF t, owner, PassAfter

(* The pass numbers the lines, and makes an event of each that tells.      *)
LEMMA ToldIsEvent ==
  ASSUME NEW records, NEW pids, NEW these, NEW n \in Nat, DOMAIN records = 1..n,
         NEW i \in 1..n, Tells(records[i])
  PROVE  \E e \in EventsOf(records, pids, these) :
           e.line = i /\ e.kind # "process.start"
<1> DEFINE owner == OwnersOf(records, pids)
           P(m) == PassAfter(records, pids, these, m)
           Event(pass) == \E e \in pass.events : e.line = i /\ e.kind # "process.start"
           G == {m \in Nat : /\ P(m).line = m
                             /\ i <= m => Event(P(m))}
<1>0. PassFold(records, pids, these).start.line = 0
  BY DEF PassFold
<1>1. P(0) = PassFold(records, pids, these).start
  BY PassUnfolds
<1>2. ASSUME NEW m \in Nat
      PROVE  Passes(P(m), records[m + 1], owner, these, P(m + 1))
  BY PassUnfolds
<1> HIDE DEF P, owner
<1>3. 0 \in G
  <2>1. ~(i <= 0) /\ 0 \in Nat
    OBVIOUS
  <2>2. P(0).line = 0
    BY <1>0, <1>1
  <2> HIDE DEF Event
  <2> QED BY <2>1, <2>2
<1>4. ASSUME NEW m \in Nat, m \in G
      PROVE  m + 1 \in G
  <2> DEFINE pass == P(m)
             r == records[m + 1]
             state == Maintain(pass.state, r, Closed(these))
             next == P(m + 1)
  <2>1. next.line = pass.line + 1
        /\ next.events = pass.events \union NewEvents(pass, r, owner, these)
    BY <1>2 DEF Passes
  <2>2. pass.line = m /\ (i <= m => Event(pass))
    BY <1>4
  <2> HIDE DEF next, pass
  <2>3. CASE i = m + 1
    <3>1. PICK e \in EffectsOf(state, r, owner) : e.kind # "process.start"
      BY <2>3, TellsIsEffect
    <3> DEFINE d == EffectEvent(pass.line + 1, r, owner, e)
    <3>2. d.line = pass.line + 1 /\ d.kind = e.kind
      BY DEF EffectEvent
    <3>3. d \in NewEvents(pass, r, owner, these)
      BY DEF NewEvents
    <3> HIDE DEF d
    <3>4. d \in next.events /\ d.line = i /\ d.kind # "process.start"
      BY <2>1, <2>2, <2>3, <3>1, <3>2, <3>3
    <3>5. Event(next)
      BY <3>4
    <3> QED BY <2>1, <2>2, <3>5 DEF next
  <2>4. CASE i # m + 1
    <3>1. i <= m + 1 => Event(next)
      <4>1. i <= m + 1 => i <= m
        BY <2>4
      <4> QED BY <2>1, <2>2, <4>1
    <3> HIDE DEF Event
    <3> QED BY <2>1, <2>2, <3>1 DEF next
  <2> QED BY <2>3, <2>4
<1> HIDE DEF G
<1>5. n \in G
  BY <1>3, <1>4, Counting
<1>6. Event(P(n))
  BY <1>5 DEF G
<1> QED
  BY <1>6, EventsAreFold DEF P, PassAfter

LEMMA Appended ==
  ASSUME NEW s, NEW S, s \in Seq(S), NEW x
  PROVE  /\ Append(s, x) \in Seq(S \union {x})
         /\ Len(s) \in Nat /\ DOMAIN s = 1..Len(s)
         /\ Len(Append(s, x)) = Len(s) + 1 /\ DOMAIN Append(s, x) = 1..(Len(s) + 1)
         /\ Append(s, x)[Len(s) + 1] = x
         /\ \A i \in 1..Len(s) : Append(s, x)[i] = s[i]
<1>1. s \in Seq(S \union {x}) /\ x \in S \union {x}
  OBVIOUS
<1> QED
  BY <1>1

(* The kernel's tables are well formed.                                    *)
Family == {"unix", "tcp"}

SocketType == [family : Family, bound : BOOLEAN]

KernelOK ==
  /\ leader \in [Pids -> 0..NumPids]
  /\ fds \in Seq([Fds -> Nat])
  /\ tableOf \in [Pids -> DOMAIN fds]
  /\ sockets \in Seq(SocketType)
  /\ \A t \in DOMAIN fds : \A fd \in Fds : fds[t][fd] \in 0..Len(sockets)
  /\ marked \subseteq Pids
  /\ tracing \in {"on", "off", "read"}

(* What is written of the kernel's acts.                                   *)
TracedOK ==
  /\ \E S : trace \in Seq(S)
  /\ Len(trace) <= MaxLines
  /\ \A f \in facts : f.relevant /\ f.line # 0 =>
       f.line \in 1..Len(trace) /\ Explained(trace[f.line])
  /\ \A f \in facts : f.line = 0 => tracing # "on" /\ \E p \in Pids : Live(p)
  /\ tracing = "read" => events = EventsOf(trace, Pids, Fds) /\ gaps = GapsOf(trace)

TraceInv == KernelOK /\ TracedOK

LEMMA WritesKeeps ==
  ASSUME TracedOK, NEW p, NEW line, NEW at, NEW relevant, Writes(p, line, at, relevant),
         relevant => Explained([line EXCEPT !.pid = p])
  PROVE  TracedOK' /\ tracing' = "on"
<1> DEFINE r == [line EXCEPT !.pid = p]
           f0 == Fact(p, line, at, relevant)
<1>1. /\ tracing = "on" /\ tracing' = "on" /\ Len(trace) < MaxLines
      /\ trace' = Append(trace, r) /\ facts' = facts \union {f0}
  BY DEF Writes
<1>2. f0.line = Len(trace) + 1 /\ f0.relevant = relevant
  BY DEF Fact
<1>3. PICK S : trace \in Seq(S)
  BY DEF TracedOK
<1>4. relevant => Explained(r)
  OBVIOUS
<1> HIDE DEF r, f0
<1>5. /\ trace' \in Seq(S \union {r})
      /\ Len(trace) \in Nat /\ Len(trace') = Len(trace) + 1
      /\ trace'[Len(trace) + 1] = r
      /\ \A i \in 1..Len(trace) : trace'[i] = trace[i]
  BY <1>1, <1>3, Appended
<1>6. (\E X : trace \in Seq(X))'
  BY <1>5
<1>7. (Len(trace) <= MaxLines)'
  BY <1>1, <1>5, TraceAssumption
<1>8. ASSUME NEW f \in facts', f.relevant, f.line # 0
      PROVE  f.line \in 1..Len(trace') /\ Explained(trace'[f.line])
  <2>1. CASE f = f0
    <3>1. f.line = Len(trace) + 1 /\ relevant
      BY <1>2, <1>8, <2>1
    <3>2. trace'[f.line] = r
      BY <1>5, <3>1
    <3> QED BY <1>4, <1>5, <3>1, <3>2
  <2>2. CASE f \in facts
    <3>1. f.line \in 1..Len(trace) /\ Explained(trace[f.line])
      BY <1>8, <2>2 DEF TracedOK
    <3>2. trace'[f.line] = trace[f.line]
      BY <1>5, <3>1
    <3> QED BY <1>5, <3>1, <3>2
  <2> QED BY <1>1, <2>1, <2>2
<1>9. ASSUME NEW f \in facts', f.line = 0
      PROVE  FALSE
  <2>1. CASE f = f0
    BY <1>2, <1>5, <1>9, <2>1
  <2>2. CASE f \in facts
    BY <1>1, <1>9, <2>2 DEF TracedOK
  <2> QED BY <1>1, <2>1, <2>2
<1> QED
  BY <1>1, <1>6, <1>7, <1>8, <1>9 DEF TracedOK

(* A line of a socket's annotation is never one of the netlink family.     *)
LEMMA SocketNoteFamily ==
  ASSUME KernelOK, NEW s \in 1..Len(sockets)
  PROVE  SocketNote(s).family \in Family
<1>0. sockets \in Seq(SocketType)
  BY DEF KernelOK
<1>2. Len(sockets) \in Nat
  BY <1>0
<1>3. sockets[s] \in SocketType /\ s # 0
  BY <1>0, <1>2
<1>1. sockets[s].family \in Family /\ s # 0
  BY <1>3 DEF SocketType
<1> QED
  BY <1>1 DEF SocketNote, NoNote, Family

LEMMA BindExplained ==
  ASSUME NEW r, r.sys = "bind", r.note.family \in Family
  PROVE  Explained(r)
<1>1. ~Mutates(r)
  BY DEF Mutates, Mutations, PathMutations, DescriptorMutations, PairMutations,
         MutatingOpen, Opens
<1>2. ~Mistaken(r) => ~Netlink(r)
  BY DEF Netlink, Family, Mistaken
<1> QED
  BY <1>1, <1>2 DEF Explained, Silent

LEMMA ListenExplained ==
  ASSUME NEW r, r.sys = "listen", r.note.family \in Family, r.outcome = "succeeded",
         r.says = {}
  PROVE  Explained(r)
<1>1. ~Netlink(r) /\ ~Unclear(r)
  BY DEF Netlink, Family, Unclear
<1> QED
  BY <1>1 DEF Explained, Tells

LEMMA ExecveExplained ==
  ASSUME NEW r, r.sys = "execve", r.flags = {}, r.text = "absolute",
         r.outcome = "succeeded"
  PROVE  Explained(r)
<1>1. ~ArgsTruncated(r) /\ ~Unclear(r) /\ PathOf(r) = {r.where}
  BY DEF ArgsTruncated, Unclear, PathOf, Resolves
<1>2. ExecEffects(r) = FileEffects("process.exec", {r.where})
  BY <1>1 DEF ExecEffects
<1>3. ExecEffects(r) # {}
  BY <1>2 DEF FileEffects
<1> QED
  BY <1>1, <1>3 DEF Explained, Tells

LEMMA DeleteExplained ==
  ASSUME NEW r, r.sys = "unlink", r.text = "absolute", r.outcome = "succeeded"
  PROVE  Explained(r)
<1>1. ~Unclear(r) /\ PathOf(r) = {r.where}
  BY DEF Unclear, PathOf, Resolves
<1>2. FileEffectsOf(r) = FileEffects("file.delete", {r.where})
  BY <1>1 DEF FileEffectsOf, Opens, ReadOrWrite
<1>3. FileEffectsOf(r) # {}
  BY <1>2 DEF FileEffects
<1> QED
  BY <1>1, <1>3 DEF Explained, Tells

LEMMA TablesAre ==
  ASSUME KernelOK, NEW p \in Pids
  PROVE  /\ tableOf[p] \in 1..Len(fds) /\ Len(fds) \in Nat /\ DOMAIN fds = 1..Len(fds)
         /\ Table(p) \in [Fds -> Nat]
         /\ \A fd \in Fds : Table(p)[fd] \in 0..Len(sockets)
         /\ Len(sockets) \in Nat
BY DEF KernelOK, Table

(* Tables that are replaced, or added, by well formed ones.                *)
IsTableOf(t) == t \in [Fds -> Nat] /\ \A fd \in Fds : t[fd] \in 0..Len(sockets)

LEMMA TableAdded ==
  ASSUME KernelOK, NEW p \in Pids, NEW t, IsTableOf(t),
         tableOf' = [tableOf EXCEPT ![p] = Len(fds) + 1], fds' = Append(fds, t),
         leader' \in [Pids -> 0..NumPids], sockets' = sockets, marked' = marked,
         tracing' = tracing
  PROVE  KernelOK'
<1>1. fds \in Seq([Fds -> Nat]) /\ t \in [Fds -> Nat]
  BY DEF KernelOK, IsTableOf
<1>2. /\ fds' \in Seq([Fds -> Nat]) /\ DOMAIN fds' = 1..(Len(fds) + 1)
      /\ Len(fds) \in Nat /\ DOMAIN fds = 1..Len(fds)
      /\ fds'[Len(fds) + 1] = t
      /\ \A i \in 1..Len(fds) : fds'[i] = fds[i]
  <2>1. fds' \in Seq([Fds -> Nat])
    BY <1>1
  <2> QED BY <1>1, <2>1, Appended
<1>3. tableOf' \in [Pids -> DOMAIN fds']
  BY <1>2 DEF KernelOK
<1>4. \A i \in DOMAIN fds' : \A fd \in Fds : fds'[i][fd] \in 0..Len(sockets)
  BY <1>2 DEF KernelOK, IsTableOf
<1> QED
  BY <1>2, <1>3, <1>4 DEF KernelOK

LEMMA TableReplaced ==
  ASSUME KernelOK, NEW p \in Pids, NEW t, IsTableOf(t),
         fds' = [fds EXCEPT ![tableOf[p]] = t],
         UNCHANGED <<leader, tableOf, sockets, marked, tracing>>
  PROVE  KernelOK'
<1> DEFINE k == tableOf[p]
<1>1. k \in DOMAIN fds
  BY DEF KernelOK
<1>2. fds' \in Seq([Fds -> Nat])
  BY <1>1 DEF KernelOK, IsTableOf
<1>3. DOMAIN fds' = DOMAIN fds
  OBVIOUS
<1>4. \A i \in DOMAIN fds' : fds'[i] = IF i = k THEN t ELSE fds[i]
  BY <1>1
<1> HIDE DEF k
<1>5. \A i \in DOMAIN fds' : \A fd \in Fds : fds'[i][fd] \in 0..Len(sockets)
  BY <1>3, <1>4 DEF KernelOK, IsTableOf
<1> QED
  BY <1>2, <1>3, <1>5 DEF KernelOK

(* One entry of the table of p.                                            *)
LEMMA EntrySet ==
  ASSUME KernelOK, NEW p \in Pids, NEW fd \in Fds, NEW s \in 0..Len(sockets),
         fds' = [fds EXCEPT ![tableOf[p]][fd] = s],
         UNCHANGED <<leader, tableOf, sockets, marked, tracing>>
  PROVE  KernelOK'
<1> DEFINE t == [Table(p) EXCEPT ![fd] = s]
<1>1. /\ Table(p) \in [Fds -> Nat]
      /\ \A x \in Fds : Table(p)[x] \in 0..Len(sockets)
      /\ Len(sockets) \in Nat
  BY TablesAre
<1>2. IsTableOf(t)
  BY <1>1 DEF IsTableOf
<1>3. fds' = [fds EXCEPT ![tableOf[p]] = t]
  BY DEF Table
<1> HIDE DEF t
<1> QED
  BY <1>2, <1>3, TableReplaced

(* Each act of the kernel keeps its tables well formed, and the line that  *)
(* tells of it is explained when it is relevant.                           *)
LEMMA InitTraced == TraceInit => TraceInv
<1> SUFFICES ASSUME TraceInit PROVE TraceInv
  OBVIOUS
<1>1. NoTable \in [Fds -> Nat] /\ \A fd \in Fds : NoTable[fd] \in 0..0
  BY DEF NoTable
<1>2. fds = <<NoTable>> /\ sockets = <<>> /\ Len(sockets) = 0
  BY DEF TraceInit
<1>3. fds \in Seq([Fds -> Nat]) /\ DOMAIN fds = {1} /\ fds[1] = NoTable
  <2> HIDE DEF NoTable
  <2> QED BY <1>1, <1>2
<1>4. sockets \in Seq(SocketType)
  BY <1>2
<1>5. leader \in [Pids -> 0..NumPids] /\ tableOf \in [Pids -> DOMAIN fds]
  BY <1>3, TraceAssumption DEF TraceInit, Pids
<1>6. KernelOK
  BY <1>1, <1>2, <1>3, <1>4, <1>5 DEF KernelOK, TraceInit
<1>7. TracedOK
  <2>1. trace \in Seq({1}) /\ Len(trace) <= MaxLines
    BY TraceAssumption DEF TraceInit
  <2> QED BY <2>1 DEF TracedOK, TraceInit
<1> QED
  BY <1>6, <1>7 DEF TraceInv

LEMMA CloneKeeps ==
  ASSUME TraceInv, NEW p \in Pids, NEW child \in Pids, NEW flags \in CloneFlags,
         Clone(p, child, flags)
  PROVE  TraceInv'
<1> DEFINE line == [Line EXCEPT !.sys = "clone", !.flags = flags, !.target = child]
<1>0. Writes(p, line, child, FALSE)
  BY DEF Clone
<1> HIDE DEF line
<1>1. TracedOK' /\ tracing' = "on" /\ tracing = "on"
  BY <1>0, WritesKeeps DEF TraceInv, Writes
<1>2. leader' \in [Pids -> 0..NumPids] /\ sockets' = sockets /\ marked' = marked
  BY DEF Clone, TraceInv, KernelOK, Pids
<1>3. CASE "CLONE_FILES" \in flags
  <2>1. fds' = fds /\ tableOf' = [tableOf EXCEPT ![child] = tableOf[p]]
    BY <1>3 DEF Clone
  <2>2. KernelOK'
    BY <1>1, <1>2, <2>1 DEF TraceInv, KernelOK
  <2> QED BY <1>1, <2>2 DEF TraceInv
<1>4. CASE "CLONE_FILES" \notin flags
  <2>1. fds' = Append(fds, Table(p)) /\ tableOf' = [tableOf EXCEPT ![child] = Len(fds) + 1]
    BY <1>4 DEF Clone
  <2>2. IsTableOf(Table(p))
    BY TablesAre DEF IsTableOf, TraceInv
  <2> DEFINE t == Table(p)
  <2> HIDE DEF t
  <2>3. KernelOK'
    BY <1>1, <1>2, <2>1, <2>2, TableAdded DEF TraceInv, t
  <2> QED BY <1>1, <2>3 DEF TraceInv
<1> QED
  BY <1>3, <1>4

LEMMA SocketKeeps ==
  ASSUME TraceInv, NEW p \in Pids, NEW family \in Family, NEW fd \in Fds,
         MakeSocket(p, family, fd)
  PROVE  TraceInv'
<1> DEFINE line == [Line EXCEPT !.sys = "socket", !.target = fd]
           new == [family |-> family, bound |-> FALSE]
           t == [Table(p) EXCEPT ![fd] = Len(sockets) + 1]
           k == tableOf[p]
<1>0. Writes(p, line, 0, FALSE)
  BY DEF MakeSocket
<1>00. sockets' = Append(sockets, new) /\ fds' = [fds EXCEPT ![k] = t]
  BY DEF MakeSocket, Table
<1>01. new \in SocketType
  BY DEF SocketType
<1> HIDE DEF line, new
<1>1. TracedOK' /\ tracing' = "on" /\ tracing = "on"
  BY <1>0, WritesKeeps DEF TraceInv, Writes
<1>2. /\ sockets' \in Seq(SocketType)
      /\ Len(sockets) \in Nat /\ Len(sockets') = Len(sockets) + 1
  <2>1. sockets \in Seq(SocketType)
    BY DEF TraceInv, KernelOK
  <2> QED BY <1>00, <1>01, <2>1
<1>3. /\ k \in DOMAIN fds /\ Table(p) \in [Fds -> Nat]
      /\ \A x \in Fds : Table(p)[x] \in 0..Len(sockets)
  BY TablesAre DEF TraceInv
<1>4. t \in [Fds -> Nat] /\ \A x \in Fds : t[x] \in 0..Len(sockets')
  BY <1>2, <1>3
<1> HIDE DEF t, k
<1>5. fds' \in Seq([Fds -> Nat]) /\ DOMAIN fds' = DOMAIN fds
  BY <1>00, <1>3, <1>4 DEF TraceInv, KernelOK
<1>6. \A i \in DOMAIN fds : fds'[i] = IF i = k THEN t ELSE fds[i]
  BY <1>00, <1>3
<1>7. \A i \in DOMAIN fds' : \A x \in Fds : fds'[i][x] \in 0..Len(sockets')
  <2> SUFFICES ASSUME NEW i \in DOMAIN fds', NEW x \in Fds
               PROVE  fds'[i][x] \in 0..Len(sockets')
    OBVIOUS
  <2>1. fds[i][x] \in 0..Len(sockets)
    BY <1>5 DEF TraceInv, KernelOK
  <2>2. fds'[i][x] = IF i = k THEN t[x] ELSE fds[i][x]
    BY <1>5, <1>6
  <2>3. t[x] \in 0..Len(sockets')
    BY <1>4
  <2>4. fds[i][x] \in 0..Len(sockets')
    BY <1>2, <2>1
  <2> QED BY <2>2, <2>3, <2>4
<1>8. leader' = leader /\ tableOf' = tableOf /\ marked' = marked
  BY DEF MakeSocket
<1>9. KernelOK'
  BY <1>1, <1>2, <1>5, <1>7, <1>8 DEF TraceInv, KernelOK
<1> QED
  BY <1>1, <1>9 DEF TraceInv

LEMMA BindKeeps ==
  ASSUME TraceInv, NEW p \in Pids, NEW fd \in Fds, Bind(p, fd)
  PROVE  TraceInv'
<1> DEFINE s == Table(p)[fd]
           note == SocketNote(s)
           line == [Line EXCEPT !.sys = "bind", !.fd = fd, !.at = s, !.note = note]
<1>0. /\ Writes(p, line, s, TRUE) /\ s # 0
      /\ sockets' = [sockets EXCEPT ![s].bound = TRUE]
      /\ UNCHANGED <<leader, tableOf, fds, marked>>
  BY DEF Bind
<1>1. s \in 1..Len(sockets)
  BY <1>0, TablesAre DEF TraceInv
<1>2. note.family \in Family
  <2> HIDE DEF s
  <2> QED BY <1>1, SocketNoteFamily DEF TraceInv
<1> HIDE DEF s, note
<1>3. [line EXCEPT !.pid = p].sys = "bind" /\ [line EXCEPT !.pid = p].note = note
  BY DEF Line
<1>4. Explained([line EXCEPT !.pid = p])
  <2> DEFINE r == [line EXCEPT !.pid = p]
  <2> HIDE DEF r
  <2>1. Explained(r)
    BY <1>2, <1>3, BindExplained DEF r
  <2> QED BY <2>1 DEF r
<1> HIDE DEF line
<1>5. TracedOK' /\ tracing' = "on" /\ tracing = "on"
  BY <1>0, <1>4, WritesKeeps DEF TraceInv, Writes
<1>6. sockets \in Seq(SocketType) /\ Len(sockets) \in Nat
  BY DEF TraceInv, KernelOK
<1>7. /\ sockets' \in Seq(SocketType)
      /\ Len(sockets') = Len(sockets)
  <2> DEFINE new == [sockets[s] EXCEPT !.bound = TRUE]
  <2>0. sockets[s] \in SocketType
    BY <1>1, <1>6
  <2>1. new \in SocketType
    BY <2>0 DEF SocketType
  <2>2. sockets' = [sockets EXCEPT ![s] = new]
    BY <1>0
  <2> HIDE DEF new
  <2> QED BY <1>1, <1>6, <2>1, <2>2
<1>8. KernelOK'
  BY <1>0, <1>5, <1>7 DEF TraceInv, KernelOK
<1> QED
  BY <1>5, <1>8 DEF TraceInv

LEMMA ListenKeeps ==
  ASSUME TraceInv, NEW p \in Pids, NEW fd \in Fds, Listen(p, fd)
  PROVE  TraceInv'
<1> DEFINE s == Table(p)[fd]
           note == SocketNote(s)
           line == [Line EXCEPT !.sys = "listen", !.fd = fd, !.note = note]
           at == IF sockets[s].bound THEN s ELSE 0
<1>0. /\ Writes(p, line, at, TRUE) /\ s # 0
      /\ UNCHANGED <<kernelVars, marked>>
  BY DEF Listen
<1>1. s \in 1..Len(sockets)
  BY <1>0, TablesAre DEF TraceInv
<1>2. note.family \in Family
  <2> HIDE DEF s
  <2> QED BY <1>1, SocketNoteFamily DEF TraceInv
<1> HIDE DEF s, note, at
<1>3. /\ [line EXCEPT !.pid = p].sys = "listen" /\ [line EXCEPT !.pid = p].note = note
      /\ [line EXCEPT !.pid = p].outcome = "succeeded"
      /\ [line EXCEPT !.pid = p].says = {}
  BY DEF Line
<1>4. Explained([line EXCEPT !.pid = p])
  <2> DEFINE r == [line EXCEPT !.pid = p]
  <2> HIDE DEF r
  <2>1. Explained(r)
    BY <1>2, <1>3, ListenExplained DEF r
  <2> QED BY <2>1 DEF r
<1> HIDE DEF line
<1>5. TracedOK' /\ tracing' = "on" /\ tracing = "on"
  BY <1>0, <1>4, WritesKeeps DEF TraceInv, Writes
<1>8. KernelOK'
  BY <1>0, <1>5 DEF TraceInv, KernelOK, kernelVars
<1> QED
  BY <1>5, <1>8 DEF TraceInv

(* A call that sets one entry of the table of its thread.                  *)
LEMMA EntryKeeps ==
  ASSUME TraceInv, NEW p \in Pids, NEW fd \in Fds, NEW s \in 0..Len(sockets), NEW line,
         Writes(p, line, 0, FALSE), fds' = [fds EXCEPT ![tableOf[p]][fd] = s],
         UNCHANGED <<leader, tableOf, sockets, marked>>
  PROVE  TraceInv'
<1>1. TracedOK' /\ tracing' = "on" /\ tracing = "on"
  BY WritesKeeps DEF TraceInv, Writes
<1>2. KernelOK
  BY DEF TraceInv
<1>3. KernelOK'
  BY <1>1, <1>2, EntrySet
<1> QED
  BY <1>1, <1>3 DEF TraceInv

LEMMA Dup2Keeps ==
  ASSUME TraceInv, NEW p \in Pids, NEW from \in Fds, NEW to \in Fds, Dup2(p, from, to)
  PROVE  TraceInv'
<1> DEFINE line == [Line EXCEPT !.sys = "dup2", !.fd = from, !.target = to]
           s == Table(p)[from]
<1>1. /\ Writes(p, line, 0, FALSE) /\ fds' = [fds EXCEPT ![tableOf[p]][to] = s]
      /\ UNCHANGED <<leader, tableOf, sockets, marked>>
  BY DEF Dup2
<1>2. s \in 0..Len(sockets)
  BY TablesAre DEF TraceInv
<1> HIDE DEF line, s
<1> QED
  BY <1>1, <1>2, EntryKeeps

LEMMA CloseKeeps ==
  ASSUME TraceInv, NEW p \in Pids, NEW fd \in Fds, NEW outcome, Close(p, fd, outcome)
  PROVE  TraceInv'
<1> DEFINE line == [Line EXCEPT !.sys = "close", !.fd = fd, !.outcome = outcome]
           s == 0
<1>1. /\ Writes(p, line, 0, FALSE) /\ fds' = [fds EXCEPT ![tableOf[p]][fd] = s]
      /\ UNCHANGED <<leader, tableOf, sockets, marked>>
  BY DEF Close
<1>2. s \in 0..Len(sockets)
  BY TablesAre DEF TraceInv
<1> HIDE DEF line, s
<1> QED
  BY <1>1, <1>2, EntryKeeps

LEMMA ReceiveKeeps ==
  ASSUME TraceInv, NEW p \in Pids, NEW s \in DOMAIN sockets, NEW fd \in Fds,
         Receive(p, s, fd)
  PROVE  TraceInv'
<1> DEFINE line == [Line EXCEPT !.sys = "recvmsg",
                             !.note = [NoNote EXCEPT !.family = "unix"]]
<1>1. /\ Writes(p, line, 0, FALSE) /\ fds' = [fds EXCEPT ![tableOf[p]][fd] = s]
      /\ UNCHANGED <<leader, tableOf, sockets, marked>>
  BY DEF Receive
<1>2. s \in 0..Len(sockets)
  BY DEF TraceInv, KernelOK
<1> HIDE DEF line
<1> QED
  BY <1>1, <1>2, EntryKeeps

LEMMA EmptyTable == IsTableOf(NoTable) \/ Len(sockets) \notin Nat
BY DEF IsTableOf, NoTable

LEMMA CloseAllKeeps ==
  ASSUME TraceInv, NEW p \in Pids, NEW flags, CloseAll(p, flags)
  PROVE  TraceInv'
<1> DEFINE line == [Line EXCEPT !.sys = "close_range", !.flags = flags]
           t == IF "CLOEXEC" \in flags THEN Table(p) ELSE NoTable
<1>1. Writes(p, line, 0, FALSE) /\ UNCHANGED <<leader, sockets, marked>>
  BY DEF CloseAll
<1> HIDE DEF line
<1>2. TracedOK' /\ tracing' = "on" /\ tracing = "on"
  BY <1>1, WritesKeeps DEF TraceInv, Writes
<1>3. KernelOK /\ leader \in [Pids -> 0..NumPids]
  BY DEF TraceInv, KernelOK
<1>4. IsTableOf(Table(p)) /\ IsTableOf(NoTable)
  <2>1. Len(sockets) \in Nat /\ IsTableOf(Table(p))
    BY <1>3, TablesAre DEF IsTableOf
  <2> QED BY <2>1, EmptyTable
<1>5. IsTableOf(t)
  BY <1>4
<1>6. CASE "UNSHARE" \in flags
  <2>1. tableOf' = [tableOf EXCEPT ![p] = Len(fds) + 1] /\ fds' = Append(fds, t)
    BY <1>6 DEF CloseAll
  <2> HIDE DEF t
  <2>2. KernelOK'
    BY <1>1, <1>2, <1>3, <1>5, <2>1, TableAdded
  <2> QED BY <1>2, <2>2 DEF TraceInv
<1>7. CASE "UNSHARE" \notin flags /\ "CLOEXEC" \notin flags
  <2> DEFINE none == NoTable
  <2>1. tableOf' = tableOf /\ fds' = [fds EXCEPT ![tableOf[p]] = none]
    BY <1>7 DEF CloseAll
  <2> HIDE DEF none
  <2>2. KernelOK'
    BY <1>1, <1>2, <1>3, <1>4, <2>1, TableReplaced DEF none
  <2> QED BY <1>2, <2>2 DEF TraceInv
<1>8. CASE "UNSHARE" \notin flags /\ "CLOEXEC" \in flags
  <2>1. tableOf' = tableOf /\ fds' = fds
    BY <1>8 DEF CloseAll
  <2>2. KernelOK'
    BY <1>1, <1>2, <1>3, <2>1 DEF KernelOK
  <2> QED BY <1>2, <2>2 DEF TraceInv
<1> QED
  BY <1>6, <1>7, <1>8

LEMMA ExecveKeeps ==
  ASSUME TraceInv, NEW p \in Pids, NEW closed, Execve(p, closed)
  PROVE  TraceInv'
<1> DEFINE line == [Line EXCEPT !.sys = "execve", !.text = "absolute",
                            !.where = "outside"]
           t == [fd \in Fds |-> IF fd \in closed THEN 0 ELSE Table(p)[fd]]
           r == [line EXCEPT !.pid = p]
<1>1. /\ Writes(p, line, 0, TRUE) /\ UNCHANGED <<leader, sockets, marked>>
      /\ tableOf' = [tableOf EXCEPT ![p] = Len(fds) + 1] /\ fds' = Append(fds, t)
  BY DEF Execve
<1>2. r.sys = "execve" /\ r.flags = {} /\ r.text = "absolute" /\ r.outcome = "succeeded"
  BY DEF Line
<1>3. Explained(r)
  <2> HIDE DEF r
  <2> QED BY <1>2, ExecveExplained
<1>4. KernelOK /\ leader \in [Pids -> 0..NumPids]
  BY DEF TraceInv, KernelOK
<1>5. IsTableOf(t)
  BY <1>4, TablesAre DEF IsTableOf
<1> HIDE DEF line, t
<1>6. TracedOK' /\ tracing' = "on" /\ tracing = "on"
  BY <1>1, <1>3, WritesKeeps DEF TraceInv, Writes
<1>7. KernelOK'
  BY <1>1, <1>4, <1>5, <1>6, TableAdded
<1> QED
  BY <1>6, <1>7 DEF TraceInv

LEMMA ExitKeeps ==
  ASSUME TraceInv, NEW p \in Pids, Exit(p)
  PROVE  TraceInv'
<1> DEFINE line == [Line EXCEPT !.sys = "exit_group", !.outcome = "unknown"]
<1>1. /\ Writes(p, line, 0, FALSE) /\ UNCHANGED kernelVars
      /\ marked' = marked \union {q \in Pids : leader[q] = leader[p]}
  BY DEF Exit
<1> HIDE DEF line
<1>2. TracedOK' /\ tracing' = "on" /\ tracing = "on"
  BY <1>1, WritesKeeps DEF TraceInv, Writes
<1>3. KernelOK'
  BY <1>1, <1>2 DEF TraceInv, KernelOK, kernelVars
<1> QED
  BY <1>2, <1>3 DEF TraceInv

LEMMA CallKeeps ==
  ASSUME TraceInv, NEW p \in Pids, NEW line \in SingleCalls \union {Delete},
         Calls(p, line)
  PROVE  TraceInv'
<1>1. Writes(p, line, line.at, Matters(line)) /\ UNCHANGED <<kernelVars, marked>>
  BY DEF Calls
<1>2. Matters(line) => Explained([line EXCEPT !.pid = p])
  <2>1. CASE line \in SingleCalls
    BY <2>1, SingleExplained
  <2>2. CASE line = Delete
    <3> DEFINE r == [line EXCEPT !.pid = p]
    <3>1. r.sys = "unlink" /\ r.text = "absolute" /\ r.outcome = "succeeded"
      BY <2>2 DEF Delete, Line
    <3> HIDE DEF r
    <3>2. Explained(r)
      BY <3>1, DeleteExplained
    <3> QED BY <3>2 DEF r
  <2> QED BY <2>1, <2>2
<1>3. TracedOK' /\ tracing' = "on" /\ tracing = "on"
  <2> DEFINE m == Matters(line)
             at == line.at
  <2>1. Writes(p, line, at, m) /\ (m => Explained([line EXCEPT !.pid = p]))
    BY <1>1, <1>2
  <2> HIDE DEF m, at
  <2> QED BY <2>1, WritesKeeps DEF TraceInv, Writes
<1>4. KernelOK'
  BY <1>1, <1>3 DEF TraceInv, KernelOK, kernelVars
<1> QED
  BY <1>3, <1>4 DEF TraceInv

(* The trace ends: a call is lost only of a thread that has no marker.     *)
IsLost(lost) == \A f \in lost : f.line = 0 /\ \E p \in Pids : Live(p)

LEMMA StopKeeps ==
  ASSUME TraceInv, NEW broken, NEW lost, TraceStops(broken, lost), IsLost(lost)
  PROVE  TraceInv'
<1>1. /\ tracing = "on" /\ tracing' = "off" /\ facts' = facts \union lost
      /\ UNCHANGED <<leader, tableOf, fds, sockets, trace, marked, events, gaps>>
  BY DEF TraceStops, kernelVars
<1>2. KernelOK'
  BY <1>1 DEF TraceInv, KernelOK
<1>3. \A f \in facts : f.line # 0
  BY <1>1 DEF TraceInv, TracedOK
<1>4. ASSUME NEW f \in facts', f.line = 0
      PROVE  \E p \in Pids : Live(p)'
  <2>1. f \in lost
    BY <1>1, <1>3, <1>4
  <2>2. PICK p \in Pids : Live(p)
    BY <2>1 DEF IsLost
  <2>3. Live(p)'
    BY <1>1, <2>2 DEF Live
  <2> QED BY <2>3
<1>5. (\E S : trace \in Seq(S))'
  <2>1. PICK S : trace \in Seq(S)
    BY DEF TraceInv, TracedOK
  <2> QED BY <1>1, <2>1
<1>6. ASSUME NEW f \in facts', f.relevant, f.line # 0
      PROVE  f.line \in 1..Len(trace) /\ Explained(trace[f.line])
  <2>1. f \in facts
    BY <1>1, <1>6 DEF IsLost
  <2> QED BY <1>6, <2>1 DEF TraceInv, TracedOK
<1>7. Len(trace) <= MaxLines
  BY DEF TraceInv, TracedOK
<1>8. TracedOK'
  BY <1>1, <1>4, <1>5, <1>6, <1>7 DEF TracedOK
<1> QED
  BY <1>2, <1>8 DEF TraceInv

LEMMA NormalizedKeeps ==
  ASSUME TraceInv, Normalized
  PROVE  TraceInv'
<1>1. /\ tracing = "off" /\ tracing' = "read"
      /\ UNCHANGED <<leader, tableOf, fds, sockets, facts, trace, marked, cut>>
  BY DEF Normalized, kernelVars
<1>2. events' = EventsOf(trace, Pids, Fds) /\ gaps' = GapsOf(trace)
  BY DEF Normalized
<1>3. KernelOK'
  BY <1>1 DEF TraceInv, KernelOK
<1>4. \A p \in Pids : Live(p)' <=> Live(p)
  BY <1>1 DEF Live
<1>5. (\E S : trace \in Seq(S))'
  <2>1. PICK S : trace \in Seq(S)
    BY DEF TraceInv, TracedOK
  <2> QED BY <1>1, <2>1
<1>6. events' = EventsOf(trace', Pids, Fds) /\ gaps' = GapsOf(trace')
  BY <1>1, <1>2
<1>7. TracedOK'
  BY <1>1, <1>4, <1>5, <1>6 DEF TraceInv, TracedOK
<1> QED
  BY <1>3, <1>7 DEF TraceInv

(* Every step of the kernel, of strace and of the reader.                  *)
LEMMA TraceNextKeeps == TraceInv /\ [TraceNext]_traceVars => TraceInv'
<1> SUFFICES ASSUME TraceInv, [TraceNext]_traceVars
             PROVE  TraceInv'
  OBVIOUS
<1>1. ASSUME NEW p \in Pids, NEW child \in Pids, NEW flags \in CloneFlags,
             Clone(p, child, flags)
      PROVE  TraceInv'
  BY <1>1, CloneKeeps
<1>2. ASSUME NEW p \in Pids, NEW family \in {"unix", "tcp"}, NEW fd \in Fds,
             MakeSocket(p, family, fd)
      PROVE  TraceInv'
  BY <1>2, SocketKeeps DEF Family
<1>3. ASSUME NEW p \in Pids, NEW fd \in Fds, Bind(p, fd) \/ Listen(p, fd)
      PROVE  TraceInv'
  BY <1>3, BindKeeps, ListenKeeps
<1>4. ASSUME NEW p \in Pids, NEW fd \in Fds, NEW outcome, Close(p, fd, outcome)
      PROVE  TraceInv'
  BY <1>4, CloseKeeps
<1>5. ASSUME NEW p \in Pids, SingleCall(p) \/ Calls(p, Delete)
      PROVE  TraceInv'
  BY <1>5, CallKeeps DEF SingleCall
<1>6. ASSUME NEW p \in Pids, RareCall(p)
      PROVE  TraceInv'
  <2>1. ASSUME NEW from \in Fds, NEW to \in Fds, Dup2(p, from, to)
        PROVE  TraceInv'
    BY <2>1, Dup2Keeps
  <2>2. ASSUME NEW flags, CloseAll(p, flags)
        PROVE  TraceInv'
    BY <2>2, CloseAllKeeps
  <2>3. ASSUME NEW s \in DOMAIN sockets, NEW fd \in Fds, Receive(p, s, fd)
        PROVE  TraceInv'
    BY <2>3, ReceiveKeeps
  <2>4. ASSUME NEW closed, Execve(p, closed)
        PROVE  TraceInv'
    BY <2>4, ExecveKeeps
  <2> QED BY <1>4, <1>6, <2>1, <2>2, <2>3, <2>4 DEF RareCall
<1>7. ASSUME NEW p \in Pids, Exit(p)
      PROVE  TraceInv'
  BY <1>7, ExitKeeps
<1>8. ASSUME TraceEnds
      PROVE  TraceInv'
  <2> DEFINE broken == FALSE
             lost == {}
  <2>1. TraceStops(broken, lost) /\ IsLost(lost)
    BY <1>8 DEF TraceEnds, IsLost
  <2> HIDE DEF broken, lost
  <2> QED BY <2>1, StopKeeps
<1>9. ASSUME TraceKilled
      PROVE  TraceInv'
  <2>1. PICK p \in Pids :
          /\ Live(p)
          /\ \/ TraceStops(FALSE, {}) \/ TraceStops(TRUE, {})
             \/ TraceStops(FALSE, {LostCall(p)})
    BY <1>9 DEF TraceKilled
  <2>2. LostCall(p).line = 0
    BY DEF LostCall, Fact
  <2>3. IsLost({}) /\ IsLost({LostCall(p)})
    BY <2>1, <2>2 DEF IsLost
  <2>4. PICK broken \in BOOLEAN, lost \in {{}, {LostCall(p)}} : TraceStops(broken, lost)
    BY <2>1
  <2>5. IsLost(lost)
    BY <2>3
  <2> QED BY <2>4, <2>5, StopKeeps
<1>10. ASSUME Normalized
       PROVE  TraceInv'
  BY <1>10, NormalizedKeeps
<1>11. CASE UNCHANGED traceVars
  <2>1. UNCHANGED <<leader, tableOf, fds, sockets, facts, trace, marked, cut, tracing,
                    events, gaps>>
    BY <1>11 DEF traceVars, kernelVars
  <2>2. KernelOK'
    BY <2>1 DEF TraceInv, KernelOK
  <2>3. \A p \in Pids : Live(p)' <=> Live(p)
    BY <2>1 DEF Live
  <2>4. (\E S : trace \in Seq(S))'
    <3>1. PICK S : trace \in Seq(S)
      BY DEF TraceInv, TracedOK
    <3> QED BY <2>1, <3>1
  <2>5. EventsOf(trace', Pids, Fds) = EventsOf(trace, Pids, Fds)
        /\ GapsOf(trace') = GapsOf(trace)
    BY <2>1
  <2>6. TracedOK'
    BY <2>1, <2>3, <2>4, <2>5 DEF TraceInv, TracedOK
  <2> QED BY <2>2, <2>6 DEF TraceInv
<1> QED
  BY <1>1, <1>2, <1>3, <1>4, <1>5, <1>6, <1>7, <1>8, <1>9, <1>10, <1>11 DEF TraceNext

(* A relevant call of a complete trace is told by an event, or counted.    *)
LEMMA AccountsForAll == TraceInv => HealthyTraceAccountsForAll
<1> SUFFICES ASSUME TraceInv, tracing = "read", IntegrityComplete,
                    NEW f \in facts, f.relevant,
                    ~(f.line \in DOMAIN trace /\ Mistaken(trace[f.line]))
             PROVE  Accounted(f)
  BY DEF HealthyTraceAccountsForAll
<1>1. events = EventsOf(trace, Pids, Fds) /\ gaps = GapsOf(trace)
  BY DEF TraceInv, TracedOK
<1>2. PICK S : trace \in Seq(S)
  BY DEF TraceInv, TracedOK
<1>3. f.line # 0
  <2>1. \A p \in Pids : ~Live(p)
    BY DEF IntegrityComplete, TraceFiles, Live
  <2> QED BY <2>1 DEF TraceInv, TracedOK
<1>4. f.line \in 1..Len(trace) /\ Explained(trace[f.line])
  BY <1>3 DEF TraceInv, TracedOK
<1>5. Len(trace) \in Nat /\ DOMAIN trace = 1..Len(trace)
  BY <1>2
<1> DEFINE i == f.line
           r == trace[i]
<1>6. CASE Silent(r)
  <2>1. Tells(r) /\ i \in 1..Len(trace)
    BY <1>4, <1>5, <1>6 DEF Explained
  <2> HIDE DEF i
  <2>2. \E e \in EventsOf(trace, Pids, Fds) : e.line = i /\ e.kind # "process.start"
    BY <1>5, <2>1, ToldIsEvent
  <2> QED BY <1>1, <2>2 DEF Accounted, i
<1>7. CASE ~Silent(r)
  <2>1. GapCategory(r) # "none"
    BY <1>7, NoneMeansSilent
  <2> DEFINE g == [line |-> i, category |-> GapCategory(r)]
  <2>2. g \in GapsOf(trace) /\ g.line = i
    BY <1>4, <1>5, <2>1 DEF GapsOf
  <2> HIDE DEF g
  <2> QED BY <1>1, <2>2 DEF Accounted
<1> QED
  BY <1>6, <1>7

(* When the trace files are structurally complete, everything the process  *)
(* tree did that the policy cares about is an event or a counted gap,      *)
(* unless its arguments say the name of an address family                  *)
(* (strace-normalizer.ts, policyRelevantTraceGapCategory; strace-parser.ts *)
(* readExperimentStraceDetailed).                                          *)
THEOREM HealthyTraceHolds == TraceSpec => []HealthyTraceAccountsForAll
<1>1. TraceInit => TraceInv
  BY InitTraced
<1>2. TraceInv /\ [TraceNext]_traceVars => TraceInv'
  BY TraceNextKeeps
<1>3. TraceInv => HealthyTraceAccountsForAll
  BY AccountsForAll
<1> QED
  BY <1>1, <1>2, <1>3, PTL DEF TraceSpec

(* The descriptor tables after the first lines.                            *)
StatesFold(records, pids, these) ==
  [fold |-> "states", of |-> records, closed |-> Closed(these),
   start |-> [of |-> [p \in pids |-> p], tables |-> [p \in pids |-> Closed(these)]]]

StateAt(records, pids, these, m) == FoldOn(StatesFold(records, pids, these), 1..m)

LEMMA StatesUnfold ==
  ASSUME NEW records, NEW pids, NEW these
  PROVE  /\ StateAt(records, pids, these, 0) = StatesFold(records, pids, these).start
         /\ \A m \in Nat : StateAt(records, pids, these, m + 1) =
              StateAfter(StateAt(records, pids, these, m), records[m + 1], Closed(these))
<1> DEFINE t == StatesFold(records, pids, these)
<1>1. /\ t.fold \in LeftFolds
      /\ \A i, v : Put(t, i, v) = StateAfter(v, records[i], Closed(these))
  BY DEF StatesFold, LeftFolds, Put
<1> HIDE DEF t
<1>2. FoldOn(t, 1..0) = t.start
  <2>1. 0 \in Nat
    OBVIOUS
  <2> QED BY <1>1, <2>1, LeftUnfolds
<1>3. ASSUME NEW m \in Nat
      PROVE  FoldOn(t, 1..(m + 1)) = StateAfter(FoldOn(t, 1..m), records[m + 1], Closed(these))
  <2>1. FoldOn(t, 1..(m + 1)) = Put(t, m + 1, FoldOn(t, 1..m))
    BY <1>1, LeftUnfolds
  <2> QED BY <1>1, <2>1
<1> QED
  BY <1>2, <1>3 DEF t, StateAt

LEMMA PassState ==
  ASSUME NEW records, NEW pids, NEW these
  PROVE  \A m \in Nat : /\ PassAfter(records, pids, these, m).line = m
                        /\ PassAfter(records, pids, these, m).state
                             = StateAt(records, pids, these, m)
<1> DEFINE P(m) == PassAfter(records, pids, these, m)
           A(m) == StateAt(records, pids, these, m)
           owner == OwnersOf(records, pids)
           G == {m \in Nat : P(m).line = m /\ P(m).state = A(m)}
<1>1. PassFold(records, pids, these).start.state = StatesFold(records, pids, these).start
      /\ PassFold(records, pids, these).start.line = 0
  BY DEF PassFold, StatesFold
<1>2. P(0) = PassFold(records, pids, these).start
      /\ \A m \in Nat : Passes(P(m), records[m + 1], owner, these, P(m + 1))
  BY PassUnfolds
<1>3. A(0) = StatesFold(records, pids, these).start
      /\ \A m \in Nat : A(m + 1) = StateAfter(A(m), records[m + 1], Closed(these))
  BY StatesUnfold
<1> HIDE DEF P, A, owner
<1>4. 0 \in G
  BY <1>1, <1>2, <1>3
<1>5. ASSUME NEW m \in Nat, m \in G
      PROVE  m + 1 \in G
  <2>1. Passes(P(m), records[m + 1], owner, these, P(m + 1))
    BY <1>2
  <2>2. A(m + 1) = StateAfter(A(m), records[m + 1], Closed(these))
    BY <1>3
  <2>3. P(m).line = m /\ P(m).state = A(m)
    BY <1>5
  <2>4. P(m + 1).line = m + 1
    BY <2>1, <2>3 DEF Passes
  <2>5. P(m + 1).state = A(m + 1)
    BY <2>1, <2>2, <2>3 DEF Passes, StateAfter
  <2> QED BY <2>4, <2>5
<1> HIDE DEF G
<1>6. \A m \in Nat : m \in G
  BY <1>4, <1>5, Counting
<1> QED
  BY <1>6 DEF G, P, A

(* Where an event comes from.                                              *)
FromEffect(e, records, pids, these, i) ==
  LET r == records[i]
      owner == OwnersOf(records, pids)
  IN \E f \in EffectsOf(Maintain(StateAt(records, pids, these, i - 1), r, Closed(these)),
                        r, owner) :
       e = EffectEvent(i, r, owner, f)

LEMMA EventFrom ==
  ASSUME NEW records, NEW pids, NEW these, NEW n \in Nat, DOMAIN records = 1..n,
         NEW e \in EventsOf(records, pids, these)
  PROVE  \/ e \in ChildStarts(records, OwnersOf(records, pids))
         \/ e \in RootStarts(records, OwnersOf(records, pids))
         \/ \E i \in 1..n : FromEffect(e, records, pids, these, i)
<1> DEFINE P(m) == PassAfter(records, pids, these, m)
           owner == OwnersOf(records, pids)
           G == {m \in Nat : \A d \in P(m).events :
                   \E i \in 1..m : FromEffect(d, records, pids, these, i)}
<1>1. PassFold(records, pids, these).start.events = {}
  BY DEF PassFold
<1>2. P(0) = PassFold(records, pids, these).start
      /\ \A m \in Nat : Passes(P(m), records[m + 1], owner, these, P(m + 1))
  BY PassUnfolds
<1>3. \A m \in Nat : P(m).line = m /\ P(m).state = StateAt(records, pids, these, m)
  BY PassState
<1>0. e \in P(n).events \union ChildStarts(records, owner) \union RootStarts(records, owner)
  BY EventsAreFold DEF PassAfter
<1> HIDE DEF P, owner
<1>4. 0 \in G
  BY <1>1, <1>2
<1>5. ASSUME NEW m \in Nat, m \in G
      PROVE  m + 1 \in G
  <2> SUFFICES ASSUME NEW d \in P(m + 1).events
               PROVE  \E i \in 1..(m + 1) : FromEffect(d, records, pids, these, i)
    OBVIOUS
  <2> DEFINE r == records[m + 1]
  <2>1. P(m + 1).events = P(m).events \union NewEvents(P(m), r, owner, these)
    BY <1>2 DEF Passes
  <2>2. CASE d \in P(m).events
    <3>1. PICK i \in 1..m : FromEffect(d, records, pids, these, i)
      BY <1>5, <2>2
    <3> QED BY <3>1
  <2>3. CASE d \in NewEvents(P(m), r, owner, these)
    <3> DEFINE state == Maintain(StateAt(records, pids, these, m), r, Closed(these))
    <3>1. NewEvents(P(m), r, owner, these) =
            {EffectEvent(m + 1, r, owner, f) : f \in EffectsOf(state, r, owner)}
      BY <1>3 DEF NewEvents
    <3>2. PICK f \in EffectsOf(state, r, owner) : d = EffectEvent(m + 1, r, owner, f)
      BY <2>3, <3>1
    <3>3. (m + 1) - 1 = m
      OBVIOUS
    <3>4. FromEffect(d, records, pids, these, m + 1)
      BY <3>2, <3>3 DEF FromEffect, owner
    <3> QED BY <3>4
  <2> QED BY <2>1, <2>2, <2>3
<1> HIDE DEF G
<1>6. n \in G
  BY <1>4, <1>5, Counting
<1>7. e \in P(n).events => \E i \in 1..n : FromEffect(e, records, pids, these, i)
  BY <1>6 DEF G
<1> QED
  BY <1>0, <1>7 DEF owner

(* One more record.                                                        *)
LEMMA OwnersAppended ==
  ASSUME NEW S, NEW records \in Seq(S), NEW r, NEW pids
  PROVE  OwnersOf(Append(records, r), pids) = OwnerAfter(OwnersOf(records, pids), r)
<1> DEFINE n == Len(records)
           more == Append(records, r)
           t == OwnersFold(records, pids)
           u == OwnersFold(more, pids)
<1>1. /\ n \in Nat /\ DOMAIN records = 1..n /\ DOMAIN more = 1..(n + 1)
      /\ more[n + 1] = r /\ \A i \in 1..n : more[i] = records[i]
  BY Appended
<1>2. /\ t.fold \in LeftFolds /\ u.fold \in LeftFolds /\ t.start = u.start
      /\ \A i, v : Put(t, i, v) = OwnerAfter(v, records[i])
      /\ \A i, v : Put(u, i, v) = OwnerAfter(v, more[i])
  BY FoldsAre DEF OwnersFold
<1>3. OwnersOf(records, pids) = FoldOn(t, 1..n)
  BY <1>1, OwnersAreFold
<1>4. OwnersOf(more, pids) = FoldOn(u, 1..(n + 1))
  <2> HIDE DEF more, n
  <2>1. n + 1 \in Nat
    BY <1>1
  <2> QED BY <1>1, <2>1, OwnersAreFold DEF u
<1> HIDE DEF n, more, t, u
<1>5. SameUpTo(u, t, n)
  BY <1>1, <1>2 DEF SameUpTo
<1>6. FoldOn(u, 1..n) = FoldOn(t, 1..n)
  <2>1. n \in 0..n
    BY <1>1
  <2> QED BY <1>1, <1>2, <1>5, <2>1, LeftSame
<1>7. FoldOn(u, 1..(n + 1)) = Put(u, n + 1, FoldOn(u, 1..n))
  BY <1>1, <1>2, LeftUnfolds
<1> QED
  BY <1>1, <1>2, <1>3, <1>4, <1>6, <1>7 DEF more

SameStates(records, more, pids, these) ==
  \A m \in 0..Len(records) : StateAt(more, pids, these, m) = StateAt(records, pids, these, m)

LEMMA StateAppended ==
  ASSUME NEW S, NEW records \in Seq(S), NEW r, NEW pids, NEW these
  PROVE  /\ SameStates(records, Append(records, r), pids, these)
         /\ StateAt(Append(records, r), pids, these, Len(records) + 1) =
              StateAfter(StateAt(records, pids, these, Len(records)), r, Closed(these))
<1> DEFINE n == Len(records)
           more == Append(records, r)
           t == StatesFold(records, pids, these)
           u == StatesFold(more, pids, these)
<1>1. /\ n \in Nat /\ more[n + 1] = r /\ \A i \in 1..n : more[i] = records[i]
  BY Appended
<1>2. /\ t.fold \in LeftFolds /\ u.fold \in LeftFolds /\ t.start = u.start
      /\ \A i, v : Put(t, i, v) = StateAfter(v, records[i], Closed(these))
      /\ \A i, v : Put(u, i, v) = StateAfter(v, more[i], Closed(these))
  BY DEF StatesFold, LeftFolds, Put
<1> HIDE DEF n, more, t, u
<1>3. SameUpTo(u, t, n)
  BY <1>1, <1>2 DEF SameUpTo
<1>4. \A m \in 0..n : FoldOn(u, 1..m) = FoldOn(t, 1..m)
  BY <1>1, <1>2, <1>3, LeftSame
<1>5. FoldOn(u, 1..(n + 1)) = Put(u, n + 1, FoldOn(u, 1..n))
  BY <1>1, <1>2, LeftUnfolds
<1>6. n \in 0..n
  BY <1>1
<1>7. FoldOn(u, 1..(n + 1)) = StateAfter(FoldOn(t, 1..n), r, Closed(these))
  BY <1>1, <1>2, <1>4, <1>5, <1>6
<1> QED
  BY <1>4, <1>7 DEF n, more, t, u, StateAt, SameStates

(* The effects of a record that is no listen: where they are and what they *)
(* name is what the record says.                                           *)
RecordOK(r) ==
  /\ r.at \in Nat
  /\ r.sys \in {"bind", "connect"} <=> r.at # 0

LEMMA PlaceOfFileEffects ==
  ASSUME NEW kind, NEW places, NEW e \in FileEffects(kind, places)
  PROVE  e.kind = kind /\ e.place \in places /\ e.at = 0
BY DEF FileEffects, FileEffect, None

LEMMA EffectRight ==
  ASSUME NEW r, RecordOK(r), r.sys # "listen", NEW state, NEW owner,
         NEW e \in EffectsOf(state, r, owner)
  PROVE  /\ e.kind # "process.start" /\ e.at = r.at
         /\ e.place \in {r.where, r.note.place, "none"}
         /\ r.sys # "clone"
<1> DEFINE AsRecorded == /\ e.kind # "process.start" /\ e.at = r.at
                    /\ e.place \in {r.where, r.note.place, "none"}
                    /\ r.sys # "clone"
<1>0. PathOf(r) \subseteq {r.where}
  BY DEF PathOf
<1>1. ASSUME e \in ExecEffects(r)
      PROVE  AsRecorded
  <2>1. r.sys \in {"execve", "execveat"} /\ e \in FileEffects("process.exec", PathOf(r))
    BY <1>1 DEF ExecEffects
  <2>2. e.kind = "process.exec" /\ e.place \in PathOf(r) /\ e.at = 0
    BY <2>1, PlaceOfFileEffects
  <2>3. r.at = 0
    BY <2>1 DEF RecordOK
  <2> QED BY <1>0, <2>1, <2>2, <2>3
<1>2. ASSUME e \in FileEffectsOf(r)
      PROVE  AsRecorded
  <2>1. CASE r.sys \in Opens
    <3> DEFINE kind == IF TruncatingOpen(r) THEN "file.write" ELSE "file.open"
               places == IF Succeeded(r) THEN {r.where} ELSE PathOf(r)
    <3>1. FileEffectsOf(r) = FileEffects(kind, places)
      BY <2>1 DEF FileEffectsOf, Opens, ReadOrWrite
    <3>2. kind # "process.start" /\ places \subseteq {r.where}
      BY <1>0
    <3> HIDE DEF kind, places
    <3>3. e.kind = kind /\ e.place \in places /\ e.at = 0
      BY <1>2, <3>1, PlaceOfFileEffects
    <3>4. r.at = 0 /\ r.sys # "clone"
      BY <2>1 DEF RecordOK, Opens
    <3> QED BY <3>2, <3>3, <3>4
  <2>2. CASE r.sys \notin Opens /\ r.sys \in DOMAIN ReadOrWrite
             /\ r.note.family = "file" /\ (Succeeded(r) => r.moved)
    <3>1. r.sys \in {"read", "write", "getdents"}
      BY <2>2 DEF ReadOrWrite
    <3>2. FileEffectsOf(r) = FileEffects(ReadOrWrite[r.sys], {r.note.place})
      BY <2>2, <3>1 DEF FileEffectsOf, Opens, ReadOrWrite
    <3>3. ReadOrWrite[r.sys] \in {"file.read", "file.write"}
      BY <3>1 DEF ReadOrWrite
    <3>4. e.kind = ReadOrWrite[r.sys] /\ e.place \in {r.note.place} /\ e.at = 0
      BY <1>2, <3>2, PlaceOfFileEffects
    <3>5. r.at = 0 /\ r.sys # "clone"
      BY <3>1 DEF RecordOK
    <3> QED BY <3>3, <3>4, <3>5
  <2>3. CASE r.sys \notin Opens
             /\ ~(r.sys \in DOMAIN ReadOrWrite
                  /\ r.note.family = "file" /\ (Succeeded(r) => r.moved))
    <3>1. CASE r.sys \in {"unlink", "unlinkat"}
      <4>1. FileEffectsOf(r) = FileEffects("file.delete", PathOf(r))
        BY <2>3, <3>1 DEF FileEffectsOf
      <4>2. e.kind = "file.delete" /\ e.place \in PathOf(r) /\ e.at = 0
        BY <1>2, <4>1, PlaceOfFileEffects
      <4>3. r.at = 0
        BY <3>1 DEF RecordOK
      <4> QED BY <1>0, <3>1, <4>2, <4>3
    <3>2. CASE r.sys \notin {"unlink", "unlinkat"}
      <4>1. FileEffectsOf(r) = {}
        BY <2>3, <3>2 DEF FileEffectsOf
      <4> QED BY <1>2, <4>1
    <3> QED BY <3>1, <3>2
  <2> QED BY <2>1, <2>2, <2>3
<1>3. ASSUME e \in NetworkEffects(state, r)
      PROVE  AsRecorded
  <2> DEFINE at == EndpointAt(state, r)
             effect(kind) == [None EXCEPT !.kind = kind, !.at = at]
  <2>1. \A kind : /\ effect(kind).kind = kind /\ effect(kind).at = at
                  /\ effect(kind).place = "none"
    BY DEF None
  <2>2. \/ /\ r.sys = "connect"
           /\ NetworkEffects(state, r) = {effect("network.connect_attempt")}
        \/ /\ r.sys = "bind"
           /\ NetworkEffects(state, r) = {effect("network.listen")}
    BY <1>3 DEF NetworkEffects
  <2> HIDE DEF effect, at
  <2>3. r.sys \in {"bind", "connect"} /\ r.at # 0
    BY <2>2 DEF RecordOK
  <2>4. at = r.at
    BY <2>3 DEF EndpointAt, at
  <2> QED BY <1>3, <2>1, <2>2, <2>3, <2>4
<1>4. ASSUME e \in ExitEffects(r, owner)
      PROVE  AsRecorded
  <2>1. /\ r.sys \in {"exit_group", "killed"}
        /\ e = [None EXCEPT !.kind = "process.exit"]
    BY <1>4 DEF ExitEffects
  <2>2. e.kind = "process.exit" /\ e.at = 0 /\ e.place = "none"
    BY <2>1 DEF None
  <2>3. r.at = 0
    BY <2>1 DEF RecordOK
  <2> QED BY <2>1, <2>2, <2>3
<1>5. \/ e \in ExecEffects(r) \/ e \in NetworkEffects(state, r)
      \/ e \in FileEffectsOf(r) \/ e \in ExitEffects(r, owner)
  BY DEF EffectsOf
<1> QED
  BY <1>1, <1>2, <1>3, <1>4, <1>5

(* The effect of a listen names what the descriptor is bound to.           *)
LEMMA ListenEffect ==
  ASSUME NEW r, r.sys = "listen", NEW state, NEW owner,
         NEW e \in EffectsOf(state, r, owner)
  PROVE  e.kind = "network.listen" /\ e.at = EndpointAt(state, r)
<1>1. ExecEffects(r) = {}
  BY DEF ExecEffects
<1>2. FileEffectsOf(r) = {}
  BY DEF FileEffectsOf, Opens, ReadOrWrite
<1>3. ExitEffects(r, owner) = {}
  BY DEF ExitEffects
<1>4. e \in NetworkEffects(state, r)
  BY <1>1, <1>2, <1>3 DEF EffectsOf
<1> DEFINE at == EndpointAt(state, r)
           effect == [None EXCEPT !.kind = "network.listen", !.at = at]
<1>5. NetworkEffects(state, r) \subseteq {effect}
  BY DEF NetworkEffects
<1>6. effect.kind = "network.listen" /\ effect.at = at
  BY DEF None
<1> QED
  BY <1>4, <1>5, <1>6

-----------------------------------------------------------------------------
(* Descriptor tables, of the kernel and of the normalizer: the table that  *)
(* each thread has, and the tables.                                        *)
IsTables(T, S) ==
  /\ T = [of |-> T.of, tables |-> T.tables]
  /\ T.tables \in Seq([Fds -> S])
  /\ T.of \in [Pids -> 1..Len(T.tables)]

Slot(T, p, fd) == T.tables[T.of[p]][fd]

LEMMA TablesHold ==
  ASSUME NEW S, NEW T, IsTables(T, S)
  PROVE  /\ Len(T.tables) \in Nat /\ DOMAIN T.tables = 1..Len(T.tables)
         /\ \A k \in 1..Len(T.tables) : T.tables[k] \in [Fds -> S]
         /\ \A p \in Pids : T.of[p] \in 1..Len(T.tables)
         /\ \A p \in Pids : T.tables[T.of[p]] \in [Fds -> S]
         /\ \A p \in Pids, fd \in Fds : Slot(T, p, fd) \in S
<1>1. T.tables \in Seq([Fds -> S]) /\ T.of \in [Pids -> 1..Len(T.tables)]
  BY DEF IsTables
<1>2. \A k \in 1..Len(T.tables) : T.tables[k] \in [Fds -> S]
  <2> DEFINE X == [Fds -> S]
  <2> HIDE DEF X
  <2>1. T.tables \in Seq(X)
    BY <1>1 DEF X
  <2>2. \A k \in 1..Len(T.tables) : T.tables[k] \in X
    BY <2>1
  <2> QED BY <2>2 DEF X
<1>3. \A p \in Pids : T.of[p] \in 1..Len(T.tables)
  BY <1>1
<1>4. \A p \in Pids : T.tables[T.of[p]] \in [Fds -> S]
  BY <1>2, <1>3
<1>5. \A p \in Pids, fd \in Fds : Slot(T, p, fd) \in S
  BY <1>4 DEF Slot
<1>6. Len(T.tables) \in Nat /\ DOMAIN T.tables = 1..Len(T.tables)
  BY <1>1
<1> QED
  BY <1>2, <1>3, <1>4, <1>5, <1>6

LEMMA TablesWiden ==
  ASSUME NEW S, NEW R, S \subseteq R, NEW T, IsTables(T, S)
  PROVE  IsTables(T, R)
<1>1. [Fds -> S] \subseteq [Fds -> R] /\ T.tables \in Seq([Fds -> S])
  BY DEF IsTables
<1>2. T.tables \in Seq([Fds -> R])
  <2> DEFINE X == [Fds -> S]
             Y == [Fds -> R]
  <2> HIDE DEF X, Y
  <2>1. X \subseteq Y /\ T.tables \in Seq(X)
    BY <1>1 DEF X, Y
  <2>2. T.tables \in Seq(Y)
    BY <2>1
  <2> QED BY <2>2 DEF Y
<1> QED
  BY <1>2 DEF IsTables

(* What a call does to the tables.                                         *)
SetsTable(T, U, p, t) ==
  /\ U.of = T.of
  /\ \A q \in Pids, x \in Fds :
       Slot(U, q, x) = IF T.of[q] = T.of[p] THEN t[x] ELSE Slot(T, q, x)

SetsEntry(T, U, p, fd, e) ==
  /\ U.of = T.of
  /\ \A q \in Pids, x \in Fds :
       Slot(U, q, x) = IF T.of[q] = T.of[p] /\ x = fd THEN e ELSE Slot(T, q, x)

AddsTable(T, U, c, t) ==
  /\ \A q \in Pids, x \in Fds : Slot(U, q, x) = IF q = c THEN t[x] ELSE Slot(T, q, x)
  /\ \A q \in Pids \ {c} : U.of[q] = T.of[q] /\ U.of[q] # U.of[c]

SharesTable(T, U, c, p) ==
  /\ \A q \in Pids, x \in Fds : Slot(U, q, x) = Slot(T, IF q = c THEN p ELSE q, x)
  /\ \A q \in Pids : U.of[q] = T.of[IF q = c THEN p ELSE q]

WithTable(T, p, t) == [of |-> T.of, tables |-> [T.tables EXCEPT ![T.of[p]] = t]]

WithEntry(T, p, fd, e) ==
  [of |-> T.of, tables |-> [T.tables EXCEPT ![T.of[p]][fd] = e]]

WithNew(T, c, t) ==
  [of |-> [T.of EXCEPT ![c] = Len(T.tables) + 1], tables |-> Append(T.tables, t)]

WithShared(T, c, p) == [of |-> [T.of EXCEPT ![c] = T.of[p]], tables |-> T.tables]

(* A member of a sequence is replaced.                                     *)
LEMMA Replaced ==
  ASSUME NEW X, NEW s \in Seq(X), NEW k \in 1..Len(s), NEW t \in X
  PROVE  /\ [s EXCEPT ![k] = t] \in Seq(X) /\ Len([s EXCEPT ![k] = t]) = Len(s)
         /\ \A i \in 1..Len(s) : [s EXCEPT ![k] = t][i] = IF i = k THEN t ELSE s[i]
<1> DEFINE n == Len(s)
           u == [s EXCEPT ![k] = t]
<1>1. n \in Nat /\ DOMAIN s = 1..n /\ \A i \in 1..n : s[i] \in X
  OBVIOUS
<1>2. u = [i \in 1..n |-> IF i = k THEN t ELSE s[i]]
  BY <1>1
<1>3. \A i \in 1..n : u[i] = (IF i = k THEN t ELSE s[i])
  BY <1>2
<1>4. \A i \in 1..n : u[i] \in X
  BY <1>1, <1>3
<1>5. u \in [1..n -> X]
  BY <1>2, <1>4
<1>6. u \in Seq(X) /\ Len(u) = n
  <2> HIDE DEF u, n
  <2> QED BY <1>1, <1>5
<1> QED
  BY <1>3, <1>6

LEMMA TableIsSet ==
  ASSUME NEW S, NEW T, IsTables(T, S), NEW p \in Pids, NEW t \in [Fds -> S]
  PROVE  IsTables(WithTable(T, p, t), S) /\ SetsTable(T, WithTable(T, p, t), p, t)
<1> DEFINE X == [Fds -> S]
           k == T.of[p]
           U == WithTable(T, p, t)
<1>1. T.tables \in Seq(X) /\ t \in X /\ k \in 1..Len(T.tables)
  BY TablesHold DEF IsTables
<1>2. U = [of |-> U.of, tables |-> U.tables] /\ U.of = T.of
      /\ U.tables = [T.tables EXCEPT ![k] = t]
  BY DEF WithTable
<1> HIDE DEF X, k, U
<1>3. /\ U.tables \in Seq(X) /\ Len(U.tables) = Len(T.tables)
      /\ \A i \in 1..Len(T.tables) : U.tables[i] = IF i = k THEN t ELSE T.tables[i]
  BY <1>1, <1>2, Replaced
<1>4. IsTables(U, S)
  BY <1>2, <1>3 DEF IsTables, X
<1>5. SetsTable(T, U, p, t)
  <2>1. \A q \in Pids : T.of[q] \in 1..Len(T.tables)
    BY TablesHold
  <2> QED BY <1>2, <1>3, <2>1 DEF SetsTable, Slot, k
<1> QED
  BY <1>4, <1>5 DEF U

LEMMA EntryIsSet ==
  ASSUME NEW S, NEW T, IsTables(T, S), NEW p \in Pids, NEW fd \in Fds, NEW e \in S
  PROVE  /\ IsTables(WithEntry(T, p, fd, e), S)
         /\ SetsEntry(T, WithEntry(T, p, fd, e), p, fd, e)
<1> DEFINE t == [T.tables[T.of[p]] EXCEPT ![fd] = e]
           U == WithEntry(T, p, fd, e)
<1>1. T.tables[T.of[p]] \in [Fds -> S]
  BY TablesHold
<1>2. t \in [Fds -> S] /\ \A x \in Fds : t[x] = IF x = fd THEN e ELSE Slot(T, p, x)
  BY <1>1 DEF Slot
<1>3. U = WithTable(T, p, t)
  BY DEF WithTable, WithEntry
<1> HIDE DEF t, U
<1>4. IsTables(U, S) /\ SetsTable(T, U, p, t)
  BY <1>2, <1>3, TableIsSet
<1>5. ASSUME NEW q \in Pids, NEW x \in Fds
      PROVE  Slot(U, q, x) = IF T.of[q] = T.of[p] /\ x = fd THEN e ELSE Slot(T, q, x)
  <2>1. Slot(U, q, x) = IF T.of[q] = T.of[p] THEN t[x] ELSE Slot(T, q, x)
    BY <1>4 DEF SetsTable
  <2>2. T.of[q] = T.of[p] => Slot(T, q, x) = Slot(T, p, x)
    BY DEF Slot
  <2> QED BY <1>2, <2>1, <2>2
<1>6. U.of = T.of
  BY <1>4 DEF SetsTable
<1> QED
  BY <1>4, <1>5, <1>6 DEF SetsEntry, U

LEMMA TableIsNew ==
  ASSUME NEW S, NEW T, IsTables(T, S), NEW c \in Pids, NEW t \in [Fds -> S]
  PROVE  IsTables(WithNew(T, c, t), S) /\ AddsTable(T, WithNew(T, c, t), c, t)
<1> DEFINE X == [Fds -> S]
           n == Len(T.tables)
           U == WithNew(T, c, t)
<1>1. T.tables \in Seq(X) /\ t \in X /\ T.of \in [Pids -> 1..n]
  BY DEF IsTables
<1>2. U = [of |-> U.of, tables |-> U.tables] /\ U.of = [T.of EXCEPT ![c] = n + 1]
      /\ U.tables = Append(T.tables, t)
  BY DEF WithNew
<1>3. X \union {t} = X
  BY <1>1
<1> HIDE DEF X, U
<1>4. /\ U.tables \in Seq(X) /\ n \in Nat /\ Len(U.tables) = n + 1
      /\ U.tables[n + 1] = t /\ \A i \in 1..n : U.tables[i] = T.tables[i]
  BY <1>1, <1>2, <1>3, Appended
<1> HIDE DEF n
<1>5. \A q \in Pids : T.of[q] \in 1..n
  BY <1>1
<1>6. U.of \in [Pids -> 1..(n + 1)]
      /\ \A q \in Pids : U.of[q] = IF q = c THEN n + 1 ELSE T.of[q]
  BY <1>1, <1>2, <1>4
<1>7. IsTables(U, S)
  BY <1>2, <1>4, <1>6 DEF IsTables, X
<1>8. \A q \in Pids : U.tables[U.of[q]] = IF q = c THEN t ELSE T.tables[T.of[q]]
  BY <1>4, <1>5, <1>6
<1>9. AddsTable(T, U, c, t)
  BY <1>4, <1>5, <1>6, <1>8 DEF AddsTable, Slot
<1> QED
  BY <1>7, <1>9 DEF U

LEMMA TableIsShared ==
  ASSUME NEW S, NEW T, IsTables(T, S), NEW c \in Pids, NEW p \in Pids
  PROVE  IsTables(WithShared(T, c, p), S) /\ SharesTable(T, WithShared(T, c, p), c, p)
<1> DEFINE U == WithShared(T, c, p)
<1>1. T.tables \in Seq([Fds -> S]) /\ T.of \in [Pids -> 1..Len(T.tables)]
  BY DEF IsTables
<1>2. U = [of |-> U.of, tables |-> U.tables] /\ U.of = [T.of EXCEPT ![c] = T.of[p]]
      /\ U.tables = T.tables
  BY DEF WithShared
<1> HIDE DEF U
<1>3. U.of \in [Pids -> 1..Len(T.tables)]
      /\ \A q \in Pids : U.of[q] = T.of[IF q = c THEN p ELSE q]
  BY <1>1, <1>2
<1>4. IsTables(U, S)
  BY <1>1, <1>2, <1>3 DEF IsTables
<1>5. SharesTable(T, U, c, p)
  BY <1>2, <1>3 DEF SharesTable, Slot
<1> QED
  BY <1>4, <1>5 DEF U

-----------------------------------------------------------------------------
(* The tables of the normalizer follow those of the kernel: threads share  *)
(* a table in both or in neither, and a descriptor of a known socket has   *)
(* the entry of that socket.                                               *)
Follows(K, T, made, known) ==
  /\ \A p, q \in made : K.of[p] = K.of[q] <=> T.of[p] = T.of[q]
  /\ \A p \in made, fd \in Fds :
       Slot(K, p, fd) \in DOMAIN known => Slot(T, p, fd) = known[Slot(K, p, fd)]

(* A socket is held by one descriptor of one table.                        *)
Single(K, made) ==
  \A p, q \in made : \A a, b \in Fds :
    Slot(K, p, a) # 0 /\ Slot(K, p, a) = Slot(K, q, b) => K.of[p] = K.of[q] /\ a = b

(* Nothing is known that was not.                                          *)
Narrows(less, known) ==
  \A s \in DOMAIN less : s \in DOMAIN known /\ less[s] = known[s]

LEMMA FollowsNarrower ==
  ASSUME NEW K, NEW T, NEW made, NEW known, NEW less, Follows(K, T, made, known),
         Narrows(less, known)
  PROVE  Follows(K, T, made, less)
BY DEF Follows, Narrows

LEMMA FollowsEntry ==
  ASSUME NEW made \in SUBSET Pids, NEW p \in made, NEW fd \in Fds, NEW K, NEW K2,
         NEW T, NEW T2, NEW known, NEW s, NEW e, Follows(K, T, made, known),
         SetsEntry(K, K2, p, fd, s), SetsEntry(T, T2, p, fd, e),
         s \in DOMAIN known => e = known[s]
  PROVE  Follows(K2, T2, made, known)
<1>1. K2.of = K.of /\ T2.of = T.of
  BY DEF SetsEntry
<1>2. ASSUME NEW q \in made, NEW x \in Fds, Slot(K2, q, x) \in DOMAIN known
      PROVE  Slot(T2, q, x) = known[Slot(K2, q, x)]
  <2>1. /\ Slot(K2, q, x) = IF K.of[q] = K.of[p] /\ x = fd THEN s ELSE Slot(K, q, x)
        /\ Slot(T2, q, x) = IF T.of[q] = T.of[p] /\ x = fd THEN e ELSE Slot(T, q, x)
    BY DEF SetsEntry
  <2>2. K.of[q] = K.of[p] <=> T.of[q] = T.of[p]
    BY DEF Follows
  <2>3. Slot(K, q, x) \in DOMAIN known => Slot(T, q, x) = known[Slot(K, q, x)]
    BY DEF Follows
  <2> QED BY <1>2, <2>1, <2>2, <2>3
<1> QED
  BY <1>1, <1>2 DEF Follows

LEMMA FollowsTable ==
  ASSUME NEW made \in SUBSET Pids, NEW p \in made, NEW K, NEW K2, NEW T, NEW T2,
         NEW known, NEW t, NEW u, Follows(K, T, made, known),
         SetsTable(K, K2, p, t), SetsTable(T, T2, p, u),
         \A fd \in Fds : t[fd] \notin DOMAIN known
  PROVE  Follows(K2, T2, made, known)
<1>1. K2.of = K.of /\ T2.of = T.of
  BY DEF SetsTable
<1>2. ASSUME NEW q \in made, NEW x \in Fds, Slot(K2, q, x) \in DOMAIN known
      PROVE  Slot(T2, q, x) = known[Slot(K2, q, x)]
  <2>1. /\ Slot(K2, q, x) = IF K.of[q] = K.of[p] THEN t[x] ELSE Slot(K, q, x)
        /\ Slot(T2, q, x) = IF T.of[q] = T.of[p] THEN u[x] ELSE Slot(T, q, x)
    BY DEF SetsTable
  <2>2. K.of[q] = K.of[p] <=> T.of[q] = T.of[p]
    BY DEF Follows
  <2>3. Slot(K, q, x) \in DOMAIN known => Slot(T, q, x) = known[Slot(K, q, x)]
    BY DEF Follows
  <2> QED BY <1>2, <2>1, <2>2, <2>3
<1> QED
  BY <1>1, <1>2 DEF Follows

LEMMA FollowsNew ==
  ASSUME NEW made \in SUBSET Pids, NEW c \in Pids, NEW K, NEW K2, NEW T, NEW T2,
         NEW known, NEW t, NEW u, Follows(K, T, made, known),
         AddsTable(K, K2, c, t), AddsTable(T, T2, c, u),
         \A fd \in Fds : t[fd] \in DOMAIN known => u[fd] = known[t[fd]]
  PROVE  Follows(K2, T2, made \union {c}, known)
<1>1. ASSUME NEW p \in made \union {c}, NEW q \in made \union {c}
      PROVE  K2.of[p] = K2.of[q] <=> T2.of[p] = T2.of[q]
  <2>1. \A r \in Pids \ {c} : /\ K2.of[r] = K.of[r] /\ K2.of[r] # K2.of[c]
                              /\ T2.of[r] = T.of[r] /\ T2.of[r] # T2.of[c]
    BY DEF AddsTable
  <2>2. CASE p = c \/ q = c
    BY <2>1, <2>2
  <2>3. CASE p # c /\ q # c
    <3>1. K.of[p] = K.of[q] <=> T.of[p] = T.of[q]
      BY <2>3 DEF Follows
    <3> QED BY <2>1, <2>3, <3>1
  <2> QED BY <2>2, <2>3
<1>2. ASSUME NEW q \in made \union {c}, NEW x \in Fds, Slot(K2, q, x) \in DOMAIN known
      PROVE  Slot(T2, q, x) = known[Slot(K2, q, x)]
  <2>1. /\ Slot(K2, q, x) = IF q = c THEN t[x] ELSE Slot(K, q, x)
        /\ Slot(T2, q, x) = IF q = c THEN u[x] ELSE Slot(T, q, x)
    BY DEF AddsTable
  <2>2. q # c /\ Slot(K, q, x) \in DOMAIN known => Slot(T, q, x) = known[Slot(K, q, x)]
    BY DEF Follows
  <2> QED BY <1>2, <2>1, <2>2
<1> QED
  BY <1>1, <1>2 DEF Follows

LEMMA FollowsShared ==
  ASSUME NEW made \in SUBSET Pids, NEW c \in Pids, NEW p \in made, NEW K, NEW K2,
         NEW T, NEW T2, NEW known, Follows(K, T, made, known),
         SharesTable(K, K2, c, p), SharesTable(T, T2, c, p)
  PROVE  Follows(K2, T2, made \union {c}, known)
<1> DEFINE From(q) == IF q = c THEN p ELSE q
<1>1. \A q \in made \union {c} : From(q) \in made
  OBVIOUS
<1>2. /\ \A q \in Pids : K2.of[q] = K.of[From(q)] /\ T2.of[q] = T.of[From(q)]
      /\ \A q \in Pids, x \in Fds : /\ Slot(K2, q, x) = Slot(K, From(q), x)
                                    /\ Slot(T2, q, x) = Slot(T, From(q), x)
  BY DEF SharesTable
<1> HIDE DEF From
<1>3. ASSUME NEW a \in made \union {c}, NEW b \in made \union {c}
      PROVE  K2.of[a] = K2.of[b] <=> T2.of[a] = T2.of[b]
  <2>1. K.of[From(a)] = K.of[From(b)] <=> T.of[From(a)] = T.of[From(b)]
    BY <1>1 DEF Follows
  <2> QED BY <1>2, <2>1
<1>4. ASSUME NEW q \in made \union {c}, NEW x \in Fds, Slot(K2, q, x) \in DOMAIN known
      PROVE  Slot(T2, q, x) = known[Slot(K2, q, x)]
  <2>1. Slot(K, From(q), x) \in DOMAIN known
          => Slot(T, From(q), x) = known[Slot(K, From(q), x)]
    BY <1>1 DEF Follows
  <2>2. Slot(K2, q, x) = Slot(K, From(q), x) /\ Slot(T2, q, x) = Slot(T, From(q), x)
    BY <1>2
  <2> QED BY <1>4, <2>1, <2>2
<1> QED
  BY <1>3, <1>4 DEF Follows

(* A bind tells of one socket more, if a single descriptor holds it.       *)
LEMMA FollowsBind ==
  ASSUME NEW made \in SUBSET Pids, NEW p \in made, NEW fd \in Fds, NEW K, NEW T,
         NEW T2, NEW known, NEW more, NEW e, Follows(K, T, made, known),
         SetsEntry(T, T2, p, fd, e), Slot(K, p, fd) # 0,
         \A s \in DOMAIN more :
           IF s = Slot(K, p, fd) THEN Single(K, made) /\ more[s] = e
           ELSE s \in DOMAIN known /\ more[s] = known[s]
  PROVE  Follows(K, T2, made, more)
<1>1. T2.of = T.of
  BY DEF SetsEntry
<1>2. ASSUME NEW q \in made, NEW x \in Fds, Slot(K, q, x) \in DOMAIN more
      PROVE  Slot(T2, q, x) = more[Slot(K, q, x)]
  <2>1. Slot(T2, q, x) = IF T.of[q] = T.of[p] /\ x = fd THEN e ELSE Slot(T, q, x)
    BY DEF SetsEntry
  <2>2. K.of[q] = K.of[p] <=> T.of[q] = T.of[p]
    BY DEF Follows
  <2>3. CASE Slot(K, q, x) = Slot(K, p, fd)
    <3>1. Single(K, made) /\ more[Slot(K, q, x)] = e
      BY <1>2, <2>3
    <3>2. K.of[q] = K.of[p] /\ x = fd
      BY <2>3, <3>1 DEF Single
    <3> QED BY <2>1, <2>2, <3>1, <3>2
  <2>4. CASE Slot(K, q, x) # Slot(K, p, fd)
    <3>1. ~(K.of[q] = K.of[p] /\ x = fd)
      BY <2>4 DEF Slot
    <3>2. Slot(K, q, x) \in DOMAIN known /\ more[Slot(K, q, x)] = known[Slot(K, q, x)]
      BY <1>2, <2>4
    <3>3. Slot(T, q, x) = known[Slot(K, q, x)]
      BY <3>2 DEF Follows
    <3> QED BY <2>1, <2>2, <3>1, <3>2, <3>3
  <2> QED BY <2>3, <2>4
<1> QED
  BY <1>1, <1>2 DEF Follows

LEMMA SingleEntry ==
  ASSUME NEW made \in SUBSET Pids, NEW p \in made, NEW fd \in Fds, NEW K, NEW K2,
         NEW s, Single(K, made), SetsEntry(K, K2, p, fd, s),
         s # 0 => \A q \in made, x \in Fds : Slot(K, q, x) # s
  PROVE  Single(K2, made)
<1> SUFFICES ASSUME NEW q \in made, NEW r \in made, NEW a \in Fds, NEW b \in Fds,
                    Slot(K2, q, a) # 0, Slot(K2, q, a) = Slot(K2, r, b)
             PROVE  K2.of[q] = K2.of[r] /\ a = b
  BY DEF Single
<1>1. /\ Slot(K2, q, a) = IF K.of[q] = K.of[p] /\ a = fd THEN s ELSE Slot(K, q, a)
      /\ Slot(K2, r, b) = IF K.of[r] = K.of[p] /\ b = fd THEN s ELSE Slot(K, r, b)
      /\ K2.of = K.of
  BY DEF SetsEntry
<1>2. Slot(K, q, a) # 0 /\ Slot(K, q, a) = Slot(K, r, b) => K.of[q] = K.of[r] /\ a = b
  BY DEF Single
<1> QED
  BY <1>1, <1>2

LEMMA SingleTable ==
  ASSUME NEW made \in SUBSET Pids, NEW p \in made, NEW K, NEW K2, NEW t,
         Single(K, made), SetsTable(K, K2, p, t), \A fd \in Fds : t[fd] = 0
  PROVE  Single(K2, made)
<1> SUFFICES ASSUME NEW q \in made, NEW r \in made, NEW a \in Fds, NEW b \in Fds,
                    Slot(K2, q, a) # 0, Slot(K2, q, a) = Slot(K2, r, b)
             PROVE  K2.of[q] = K2.of[r] /\ a = b
  BY DEF Single
<1>1. /\ Slot(K2, q, a) = IF K.of[q] = K.of[p] THEN t[a] ELSE Slot(K, q, a)
      /\ Slot(K2, r, b) = IF K.of[r] = K.of[p] THEN t[b] ELSE Slot(K, r, b)
      /\ K2.of = K.of /\ t[a] = 0 /\ t[b] = 0
  BY DEF SetsTable
<1>2. Slot(K, q, a) # 0 /\ Slot(K, q, a) = Slot(K, r, b) => K.of[q] = K.of[r] /\ a = b
  BY DEF Single
<1> QED
  BY <1>1, <1>2

LEMMA SingleShared ==
  ASSUME NEW made \in SUBSET Pids, NEW c \in Pids, NEW p \in made, NEW K, NEW K2,
         Single(K, made), SharesTable(K, K2, c, p)
  PROVE  Single(K2, made \union {c})
<1> SUFFICES ASSUME NEW q \in made \union {c}, NEW r \in made \union {c},
                    NEW a \in Fds, NEW b \in Fds,
                    Slot(K2, q, a) # 0, Slot(K2, q, a) = Slot(K2, r, b)
             PROVE  K2.of[q] = K2.of[r] /\ a = b
  BY DEF Single
<1> DEFINE From(x) == IF x = c THEN p ELSE x
<1>1. From(q) \in made /\ From(r) \in made
  OBVIOUS
<1>2. /\ Slot(K2, q, a) = Slot(K, From(q), a) /\ Slot(K2, r, b) = Slot(K, From(r), b)
      /\ K2.of[q] = K.of[From(q)] /\ K2.of[r] = K.of[From(r)]
  BY DEF SharesTable
<1> HIDE DEF From
<1>3. Slot(K, From(q), a) # 0 /\ Slot(K, From(q), a) = Slot(K, From(r), b)
        => K.of[From(q)] = K.of[From(r)] /\ a = b
  BY <1>1 DEF Single
<1> QED
  BY <1>2, <1>3

-----------------------------------------------------------------------------
(* What a line does to the tables of the normalizer.                       *)
LEMMA EntryOfState ==
  ASSUME NEW S, NEW T, IsTables(T, S), NEW r, NEW fd, NEW e
  PROVE  SetEntry(T, r, fd, e) = WithEntry(T, r.pid, fd, e)
<1>1. PICK of, tables : T = [of |-> of, tables |-> tables]
  BY DEF IsTables
<1>2. T.of = of /\ T.tables = tables
  BY <1>1
<1>3. [T EXCEPT !.tables = [T.tables EXCEPT ![T.of[r.pid]][fd] = e]]
        = WithEntry(T, r.pid, fd, e)
  BY <1>1, <1>2 DEF WithEntry
<1> QED
  BY <1>3 DEF SetEntry

LEMMA AfterClone ==
  ASSUME NEW S, NEW T, IsTables(T, S), NEW closed, NEW r, r.sys = "clone",
         r.outcome = "succeeded"
  PROVE  StateAfter(T, r, closed) =
           IF "CLONE_FILES" \in r.flags THEN WithShared(T, r.target, r.pid)
           ELSE WithNew(T, r.target, T.tables[T.of[r.pid]])
<1>1. PICK of, tables : T = [of |-> of, tables |-> tables]
  BY DEF IsTables
<1>2. T.of = of /\ T.tables = tables
  BY <1>1
<1>3. Maintain(T, r, closed) = ForkTable(T, r)
  BY DEF Maintain, Forks, Succeeded
<1>4. StateAfter(T, r, closed) = ForkTable(T, r)
  BY <1>3 DEF StateAfter, RecordBind
<1>5. [T EXCEPT !.of[r.target] = T.of[r.pid]] = WithShared(T, r.target, r.pid)
  BY <1>1, <1>2 DEF WithShared
<1> QED
  BY <1>4, <1>5 DEF ForkTable, WithNew

LEMMA AfterEntry ==
  ASSUME NEW S, NEW T, IsTables(T, S), NEW closed, NEW r
  PROVE  /\ r.sys = "close" =>
              StateAfter(T, r, closed) = WithEntry(T, r.pid, r.fd, Unbound)
         /\ r.sys = "socket" /\ Succeeded(r) =>
              StateAfter(T, r, closed) = WithEntry(T, r.pid, r.target, Unbound)
         /\ r.sys = "dup2" /\ Succeeded(r) =>
              StateAfter(T, r, closed)
                = WithEntry(T, r.pid, r.target, Slot(T, r.pid, r.fd))
<1>1. ASSUME r.sys = "close"
      PROVE  StateAfter(T, r, closed) = WithEntry(T, r.pid, r.fd, Unbound)
  <2>1. Maintain(T, r, closed) = SetEntry(T, r, r.fd, Unbound)
    BY <1>1 DEF Maintain, Forks
  <2>2. StateAfter(T, r, closed) = SetEntry(T, r, r.fd, Unbound)
    BY <1>1, <2>1 DEF StateAfter, RecordBind
  <2> QED BY <2>2, EntryOfState
<1>2. ASSUME r.sys = "socket", Succeeded(r)
      PROVE  StateAfter(T, r, closed) = WithEntry(T, r.pid, r.target, Unbound)
  <2>1. Maintain(T, r, closed) = SetEntry(T, r, r.target, Unbound)
    BY <1>2 DEF Maintain, Forks
  <2>2. StateAfter(T, r, closed) = SetEntry(T, r, r.target, Unbound)
    BY <1>2, <2>1 DEF StateAfter, RecordBind
  <2> QED BY <2>2, EntryOfState
<1>3. ASSUME r.sys = "dup2", Succeeded(r)
      PROVE  StateAfter(T, r, closed)
               = WithEntry(T, r.pid, r.target, Slot(T, r.pid, r.fd))
  <2>1. Maintain(T, r, closed) = SetEntry(T, r, r.target, Entry(T, r, r.fd))
    BY <1>3 DEF Maintain, Forks, Succeeded, Unclear
  <2>2. StateAfter(T, r, closed) = SetEntry(T, r, r.target, Entry(T, r, r.fd))
    BY <1>3, <2>1 DEF StateAfter, RecordBind
  <2>3. Entry(T, r, r.fd) = Slot(T, r.pid, r.fd)
    BY DEF Entry, Slot
  <2> QED BY <2>2, <2>3, EntryOfState
<1> QED
  BY <1>1, <1>2, <1>3

LEMMA AfterBind ==
  ASSUME NEW S, NEW T, IsTables(T, S), NEW closed, NEW r, r.sys = "bind", r.at # 0
  PROVE  StateAfter(T, r, closed) =
           IF Succeeded(r) /\ ~Netlink(r)
           THEN WithEntry(T, r.pid, r.fd, [at |-> r.at, note |-> r.note]) ELSE T
<1>1. Maintain(T, r, closed) = T
  BY DEF Maintain, Forks
<1>2. EndpointAt(T, r) = r.at
  BY DEF EndpointAt
<1>3. StateAfter(T, r, closed) =
        IF Succeeded(r) /\ ~Netlink(r)
        THEN SetEntry(T, r, r.fd, [at |-> r.at, note |-> r.note]) ELSE T
  BY <1>1, <1>2 DEF StateAfter, RecordBind
<1> QED
  BY <1>3, EntryOfState

LEMMA AfterCloseRange ==
  ASSUME NEW S, NEW T, IsTables(T, S), NEW closed, NEW r, r.sys = "close_range",
         r.outcome = "succeeded"
  PROVE  StateAfter(T, r, closed) =
           LET own == IF "UNSHARE" \in r.flags
                      THEN WithNew(T, r.pid, T.tables[T.of[r.pid]]) ELSE T
           IN IF "CLOEXEC" \in r.flags THEN own ELSE WithTable(own, r.pid, closed)
<1> DEFINE own == IF "UNSHARE" \in r.flags
                  THEN WithNew(T, r.pid, T.tables[T.of[r.pid]]) ELSE T
<1>1. Maintain(T, r, closed) = CloseRange(T, r, closed)
  BY DEF Maintain, Forks
<1>2. StateAfter(T, r, closed) = CloseRange(T, r, closed)
  BY <1>1 DEF StateAfter, RecordBind
<1>3. CloseRange(T, r, closed) =
        IF "CLOEXEC" \in r.flags THEN own
        ELSE [own EXCEPT !.tables[own.of[r.pid]] = closed]
  BY DEF CloseRange, WithNew
<1>4. PICK of, tables : own = [of |-> of, tables |-> tables]
  BY DEF IsTables, WithNew
<1> HIDE DEF own
<1>5. own.of = of /\ own.tables = tables
  BY <1>4
<1>6. [own EXCEPT !.tables[own.of[r.pid]] = closed] = WithTable(own, r.pid, closed)
  BY <1>4, <1>5 DEF WithTable
<1> QED
  BY <1>2, <1>3, <1>6 DEF own

LEMMA AfterOther ==
  ASSUME NEW T, NEW closed, NEW r,
         r.sys \notin {"clone", "close", "close_range", "dup2", "socket", "accept",
                       "bind"}
  PROVE  Maintain(T, r, closed) = T /\ StateAfter(T, r, closed) = T
<1>1. Maintain(T, r, closed) = T
  BY DEF Maintain, Forks
<1> QED
  BY <1>1 DEF StateAfter, RecordBind

(* A table of one's own, then emptied.                                     *)
LEMMA NewThenSet ==
  ASSUME NEW T, NEW U, NEW V, NEW c \in Pids, NEW t, NEW u,
         AddsTable(T, U, c, t), SetsTable(U, V, c, u)
  PROVE  AddsTable(T, V, c, u)
<1>1. \A q \in Pids \ {c} : U.of[q] = T.of[q] /\ U.of[q] # U.of[c]
  BY DEF AddsTable
<1>2. V.of = U.of
  BY DEF SetsTable
<1>3. ASSUME NEW q \in Pids, NEW x \in Fds
      PROVE  Slot(V, q, x) = IF q = c THEN u[x] ELSE Slot(T, q, x)
  <2>1. Slot(V, q, x) = IF U.of[q] = U.of[c] THEN u[x] ELSE Slot(U, q, x)
    BY DEF SetsTable
  <2>2. Slot(U, q, x) = IF q = c THEN t[x] ELSE Slot(T, q, x)
    BY DEF AddsTable
  <2> QED BY <1>1, <2>1, <2>2
<1> QED
  BY <1>1, <1>2, <1>3 DEF AddsTable

-----------------------------------------------------------------------------
(* What the trace tells of the sockets, and the tables it leads to.        *)
Opaque == \E i \in DOMAIN trace : trace[i].sys \in {"recvmsg", "execve"}
Copied == \E i \in DOMAIN trace : Copies(trace[i])
Made == {p \in Pids : leader[p] # 0}
Kernel == [of |-> tableOf, tables |-> fds]
Now == StateAt(trace, Pids, Fds, Len(trace))

Notes == [family : {"none", "tcp", "udp", "unix", "netlink"}, id : Nat, at : {0},
          place : {"none"}]

(* An entry that names a socket states the address it is bound to.         *)
IsSound(e) ==
  e.note.id # 0 => /\ e.note.id \in 1..Len(sockets) /\ sockets[e.note.id].bound
                   /\ e.at = e.note.id
Entries == {e \in [at : Nat, note : Notes] : IsSound(e)}

BindEntry(s) ==
  [at |-> s, note |-> [NoNote EXCEPT !.family = sockets[s].family, !.id = s]]

ToldSockets == {s \in 1..Len(sockets) : sockets[s].bound /\ ~Untold(s)}
Known == [s \in ToldSockets |-> BindEntry(s)]

FollowOK ==
  /\ IsTables(Now, Entries)
  /\ ~Opaque => Follows(Kernel, Now, Made, Known)
  /\ ~Opaque /\ ~Copied => Single(Kernel, Made)

LEMMA KernelTables ==
  ASSUME KernelOK
  PROVE  /\ IsTables(Kernel, Nat)
         /\ \A p \in Pids, fd \in Fds : /\ Slot(Kernel, p, fd) = Table(p)[fd]
                                        /\ Table(p)[fd] \in 0..Len(sockets)
<1>1. fds \in Seq([Fds -> Nat]) /\ tableOf \in [Pids -> DOMAIN fds]
  BY DEF KernelOK
<1>2. DOMAIN fds = 1..Len(fds)
  BY <1>1
<1>3. Kernel.of = tableOf /\ Kernel.tables = fds
  BY DEF Kernel
<1>4. IsTables(Kernel, Nat)
  BY <1>1, <1>2, <1>3 DEF IsTables, Kernel
<1>5. \A p \in Pids, fd \in Fds : Slot(Kernel, p, fd) = Table(p)[fd]
  BY <1>3 DEF Slot, Table
<1> QED
  BY <1>4, <1>5, TablesAre

LEMMA LineTells ==
  ASSUME TraceInv, NEW r, trace' = Append(trace, r)
  PROVE  /\ Now' = StateAfter(Now, r, Closed(Fds))
         /\ ~Opaque' => ~Opaque /\ r.sys \notin {"recvmsg", "execve"}
         /\ ~Copied' => ~Copied /\ ~Copies(r)
         /\ \A s : Untold(s) => Untold(s)'
         /\ r.sys = "bind" /\ ~Untold(r.at)' => ~Opaque' /\ ~Copied
<1>1. trace' = Append(trace, r)
  OBVIOUS
<1>2. PICK S : trace \in Seq(S)
  BY DEF TraceInv, TracedOK
<1> DEFINE n == Len(trace)
<1>3. /\ n \in Nat /\ DOMAIN trace = 1..n /\ Len(trace') = n + 1
      /\ DOMAIN trace' = 1..(n + 1) /\ trace'[n + 1] = r
      /\ \A i \in 1..n : trace'[i] = trace[i]
  BY <1>1, <1>2, Appended
<1>4. Now' = StateAfter(Now, r, Closed(Fds))
  <2>1. StateAt(Append(trace, r), Pids, Fds, Len(trace) + 1)
          = StateAfter(StateAt(trace, Pids, Fds, Len(trace)), r, Closed(Fds))
    BY <1>2, StateAppended
  <2> QED BY <1>1, <1>3, <2>1 DEF Now
<1> HIDE DEF n
<1>5. Opaque \/ r.sys \in {"recvmsg", "execve"} => Opaque'
  <2>1. \A i \in 1..n : i \in 1..(n + 1)
    BY <1>3
  <2>2. n + 1 \in 1..(n + 1)
    BY <1>3
  <2> QED BY <1>3, <2>1, <2>2 DEF Opaque
<1>6. Copied \/ Copies(r) => Copied'
  <2>1. \A i \in 1..n : i \in 1..(n + 1) /\ Copies(trace'[i]) = Copies(trace[i])
    BY <1>3
  <2>2. n + 1 \in 1..(n + 1) /\ Copies(trace'[n + 1]) = Copies(r)
    BY <1>3
  <2> QED BY <1>3, <2>1, <2>2 DEF Copied
<1>7. ASSUME NEW s, Untold(s)
      PROVE  Untold(s)'
  <2>1. PICK i \in 1..n :
          \/ trace[i].sys \in {"recvmsg", "execve"}
          \/ /\ Copies(trace[i])
             /\ \E j \in i..n : trace[j].sys = "bind" /\ trace[j].at = s
    BY <1>3, <1>7 DEF Untold, n
  <2>2. i \in 1..(n + 1) /\ trace'[i] = trace[i]
    BY <1>3
  <2>3. CASE trace[i].sys \in {"recvmsg", "execve"}
    BY <1>3, <2>2, <2>3 DEF Untold
  <2>4. CASE Copies(trace[i]) /\ \E j \in i..n : trace[j].sys = "bind" /\ trace[j].at = s
    <3>1. PICK j \in i..n : trace[j].sys = "bind" /\ trace[j].at = s
      BY <2>4
    <3>2. j \in i..(n + 1) /\ trace'[j] = trace[j]
      BY <1>3, <3>1
    <3>3. Copies(trace'[i]) /\ trace'[j].sys = "bind" /\ trace'[j].at = s
      BY <2>2, <2>4, <3>1, <3>2
    <3> QED BY <1>3, <2>2, <3>2, <3>3 DEF Untold
  <2> QED BY <2>1, <2>3, <2>4
<1>8. ASSUME r.sys = "bind", Copied
      PROVE  Untold(r.at)'
  <2>1. PICK i \in 1..n : Copies(trace[i])
    BY <1>3, <1>8 DEF Copied
  <2>2. i \in 1..(n + 1) /\ Copies(trace'[i]) /\ n + 1 \in i..(n + 1)
    BY <1>3, <2>1
  <2>3. trace'[n + 1].sys = "bind" /\ trace'[n + 1].at = r.at
    BY <1>3, <1>8
  <2> QED BY <1>3, <2>2, <2>3 DEF Untold
<1>9. Opaque' => Untold(r.at)'
  BY DEF Opaque, Untold
<1> QED
  BY <1>1, <1>4, <1>5, <1>6, <1>7, <1>8, <1>9

LEMMA WritesLine ==
  ASSUME NEW p \in Pids, NEW line, NEW at, NEW relevant, Writes(p, line, at, relevant)
  PROVE  p \in Made /\ trace' = Append(trace, [line EXCEPT !.pid = p])
BY DEF Writes, Live, Made

(* The sockets that are bound were bound before.                           *)
SocketsKept ==
  \A s \in 1..Len(sockets') :
    sockets'[s].bound => s \in 1..Len(sockets) /\ sockets'[s] = sockets[s]

SocketsGrow ==
  \A s \in 1..Len(sockets) :
    /\ s \in 1..Len(sockets')
    /\ sockets[s].bound => sockets'[s].bound

LEMMA KnownNarrows ==
  ASSUME SocketsKept, \A s : Untold(s) => Untold(s)'
  PROVE  Narrows(Known', Known)
<1>1. DOMAIN Known' = ToldSockets' /\ DOMAIN Known = ToldSockets
  BY DEF Known
<1>2. ASSUME NEW s \in ToldSockets'
      PROVE  s \in ToldSockets /\ Known'[s] = Known[s]
  <2>1. s \in 1..Len(sockets') /\ sockets'[s].bound /\ ~Untold(s)'
    BY <1>2 DEF ToldSockets
  <2>2. s \in 1..Len(sockets) /\ sockets'[s] = sockets[s] /\ ~Untold(s)
    BY <2>1 DEF SocketsKept
  <2>3. s \in ToldSockets
    BY <2>1, <2>2 DEF ToldSockets
  <2>4. Known'[s] = BindEntry(s)' /\ Known[s] = BindEntry(s)
    BY <1>2, <2>3 DEF Known
  <2>5. BindEntry(s)' = BindEntry(s)
    BY <2>2 DEF BindEntry
  <2> QED BY <2>3, <2>4, <2>5
<1> QED
  BY <1>1, <1>2 DEF Narrows

LEMMA EntriesGrow ==
  ASSUME SocketsGrow
  PROVE  Entries \subseteq Entries'
BY DEF SocketsGrow, Entries, IsSound

LEMMA UnboundSound == Unbound \in Entries
<1>1. Unbound \in [at : Nat, note : Notes]
  BY DEF Unbound, Notes, NoNote
<1>2. Unbound.note.id = 0
  BY DEF Unbound, NoNote
<1> QED
  BY <1>1, <1>2 DEF Entries, IsSound

(* A line of a call that leaves the tables alone.                          *)
LEMMA FollowsIdle ==
  ASSUME TraceInv, FollowOK, NEW r, trace' = Append(trace, r), UNCHANGED kernelVars,
         Now' = Now
  PROVE  FollowOK'
<1>1. UNCHANGED <<leader, tableOf, fds, sockets>>
  BY DEF kernelVars
<1>2. Made' = Made /\ Kernel' = Kernel /\ Entries' = Entries
  BY <1>1 DEF Made, Kernel, Entries, IsSound
<1>3. SocketsKept
  BY <1>1 DEF SocketsKept
<1>4. /\ ~Opaque' => ~Opaque
      /\ ~Copied' => ~Copied
      /\ \A s : Untold(s) => Untold(s)'
  BY LineTells
<1>5. Narrows(Known', Known)
  BY <1>3, <1>4, KnownNarrows
<1> DEFINE K == Kernel
           T == Now
           less == Known'
           known == Known
           made == Made
<1>6. ~Opaque => Follows(K, T, made, known)
  BY DEF FollowOK
<1> HIDE DEF K, T, less, known, made
<1>7. ~Opaque => Follows(K, T, made, less)
  BY <1>5, <1>6, FollowsNarrower DEF less, known
<1> QED
  BY <1>2, <1>4, <1>7 DEF FollowOK, K, T, less, made

(* A call that sets an entry, to a socket or to none.                      *)
LEMMA EntryFollows ==
  ASSUME TraceInv, FollowOK, NEW r, trace' = Append(trace, r), NEW p \in Made,
         NEW fd \in Fds, NEW s \in Nat, NEW e \in Entries,
         Now' = WithEntry(Now, p, fd, e), fds' = [fds EXCEPT ![tableOf[p]][fd] = s],
         leader' = leader, tableOf' = tableOf, SocketsKept, SocketsGrow,
         ~Opaque' /\ s \in DOMAIN Known => e = Known[s],
         ~Copied' /\ s # 0 => \A q \in Pids, x \in Fds : Table(q)[x] # s
  PROVE  FollowOK'
<1> DEFINE K == Kernel
           K2 == Kernel'
           T == Now
           T2 == Now'
           less == Known'
           known == Known
           made == Made
           S == Entries
           S2 == Entries'
<1>1. /\ ~Opaque' => ~Opaque
      /\ ~Copied' => ~Copied
      /\ \A x : Untold(x) => Untold(x)'
  BY LineTells
<1>2. Narrows(less, known) /\ S \subseteq S2
  BY <1>1, KnownNarrows, EntriesGrow
<1>3. made \in SUBSET Pids /\ p \in made /\ p \in Pids
  BY DEF Made
<1>4. K2 = WithEntry(K, p, fd, s) /\ T2 = WithEntry(T, p, fd, e)
  BY DEF Kernel, WithEntry
<1>5. /\ IsTables(K, Nat)
      /\ \A q \in Pids, x \in Fds : Slot(K, q, x) = Table(q)[x]
  BY KernelTables DEF TraceInv
<1>6. /\ IsTables(T, S)
      /\ ~Opaque => Follows(K, T, made, known)
      /\ ~Opaque /\ ~Copied => Single(K, made)
  BY DEF FollowOK
<1>7. Made' = made
  BY DEF Made
<1>8. e \in S /\ (~Opaque' /\ s \in DOMAIN known => e = known[s])
  OBVIOUS
<1> HIDE DEF K, K2, T, T2, less, known, made, S, S2
<1>9. SetsEntry(K, K2, p, fd, s)
  BY <1>3, <1>4, <1>5, EntryIsSet
<1>10. IsTables(T2, S) /\ SetsEntry(T, T2, p, fd, e)
  BY <1>3, <1>4, <1>6, <1>8, EntryIsSet
<1>11. IsTables(T2, S2)
  BY <1>2, <1>10, TablesWiden
<1>12. ASSUME ~Opaque'
       PROVE  Follows(K2, T2, made, less)
  <2>1. Follows(K, T, made, known) /\ (s \in DOMAIN known => e = known[s])
    BY <1>1, <1>6, <1>8, <1>12
  <2>2. Follows(K2, T2, made, known)
    BY <1>3, <1>9, <1>10, <2>1, FollowsEntry
  <2> QED BY <1>2, <2>2, FollowsNarrower
<1>13. ASSUME ~Opaque', ~Copied'
       PROVE  Single(K2, made)
  <2>1. Single(K, made)
    BY <1>1, <1>6, <1>13
  <2>2. s # 0 => \A q \in made, x \in Fds : Slot(K, q, x) # s
    BY <1>3, <1>5, <1>13
  <2> QED BY <1>3, <1>9, <2>1, <2>2, SingleEntry
<1> QED
  BY <1>7, <1>11, <1>12, <1>13 DEF FollowOK, K2, T2, less, made, S2

(* A call that empties a table.                                            *)
LEMMA TableFollows ==
  ASSUME TraceInv, FollowOK, NEW r, trace' = Append(trace, r), NEW p \in Made,
         Now' = WithTable(Now, p, Closed(Fds)),
         fds' = [fds EXCEPT ![tableOf[p]] = NoTable],
         UNCHANGED <<leader, tableOf, sockets>>
  PROVE  FollowOK'
<1> DEFINE K == Kernel
           K2 == Kernel'
           T == Now
           T2 == Now'
           less == Known'
           known == Known
           made == Made
           S == Entries
           t == NoTable
           u == Closed(Fds)
<1>0. SocketsKept
  BY DEF SocketsKept
<1>1. /\ ~Opaque' => ~Opaque
      /\ ~Copied' => ~Copied
      /\ \A x : Untold(x) => Untold(x)'
  BY LineTells
<1>2. Narrows(less, known) /\ Entries' = S
  BY <1>0, <1>1, KnownNarrows DEF Entries, IsSound
<1>3. made \in SUBSET Pids /\ p \in made /\ p \in Pids
  BY DEF Made
<1>4. K2 = WithTable(K, p, t) /\ T2 = WithTable(T, p, u)
  BY DEF Kernel, WithTable
<1>5. IsTables(K, Nat)
  BY KernelTables DEF TraceInv
<1>6. /\ IsTables(T, S)
      /\ ~Opaque => Follows(K, T, made, known)
      /\ ~Opaque /\ ~Copied => Single(K, made)
  BY DEF FollowOK
<1>7. Made' = made
  BY DEF Made
<1>8. t \in [Fds -> Nat] /\ \A fd \in Fds : t[fd] = 0 /\ t[fd] \notin DOMAIN known
  BY DEF NoTable, Known, ToldSockets
<1>9. u \in [Fds -> S]
  BY UnboundSound DEF Closed
<1> HIDE DEF K, K2, T, T2, less, known, made, S, t, u
<1>10. SetsTable(K, K2, p, t)
  BY <1>3, <1>4, <1>5, <1>8, TableIsSet
<1>11. IsTables(T2, S) /\ SetsTable(T, T2, p, u)
  BY <1>3, <1>4, <1>6, <1>9, TableIsSet
<1>12. ASSUME ~Opaque'
       PROVE  Follows(K2, T2, made, less)
  <2>1. Follows(K, T, made, known)
    BY <1>1, <1>6, <1>12
  <2>2. Follows(K2, T2, made, known)
    BY <1>3, <1>8, <1>10, <1>11, <2>1, FollowsTable
  <2> QED BY <1>2, <2>2, FollowsNarrower
<1>13. ASSUME ~Opaque', ~Copied'
       PROVE  Single(K2, made)
  <2>1. Single(K, made)
    BY <1>1, <1>6, <1>13
  <2> QED BY <1>3, <1>8, <1>10, <2>1, SingleTable
<1> QED
  BY <1>2, <1>7, <1>11, <1>12, <1>13 DEF FollowOK, K2, T2, less, made, S

(* A call that gives a thread a table of its own.                          *)
LEMMA NewFollows ==
  ASSUME TraceInv, FollowOK, NEW r, trace' = Append(trace, r), Copies(r),
         NEW c \in Pids, Made' = Made \union {c}, NEW t \in [Fds -> Nat], NEW u,
         \A fd \in Fds : t[fd] \in DOMAIN Known => u[fd] = Known[t[fd]] \/ Opaque,
         AddsTable(Kernel, Kernel', c, t), AddsTable(Now, Now', c, u),
         IsTables(Now', Entries), sockets' = sockets
  PROVE  FollowOK'
<1> DEFINE K == Kernel
           K2 == Kernel'
           T == Now
           T2 == Now'
           less == Known'
           known == Known
           made == Made
<1>0. SocketsKept
  BY DEF SocketsKept
<1>1. /\ ~Opaque' => ~Opaque
      /\ Copied'
      /\ \A x : Untold(x) => Untold(x)'
  BY LineTells
<1>2. Narrows(less, known) /\ Entries' = Entries
  BY <1>0, <1>1, KnownNarrows DEF Entries, IsSound
<1>3. made \in SUBSET Pids
  BY DEF Made
<1>4. AddsTable(K, K2, c, t) /\ AddsTable(T, T2, c, u)
  OBVIOUS
<1>5. ~Opaque => Follows(K, T, made, known)
  BY DEF FollowOK
<1>6. \A fd \in Fds : t[fd] \in DOMAIN known => u[fd] = known[t[fd]] \/ Opaque
  OBVIOUS
<1>7. Made' = made \union {c}
  OBVIOUS
<1> HIDE DEF K, K2, T, T2, less, known, made
<1>8. ASSUME ~Opaque'
      PROVE  Follows(K2, T2, made \union {c}, less)
  <2>1. /\ Follows(K, T, made, known)
        /\ \A fd \in Fds : t[fd] \in DOMAIN known => u[fd] = known[t[fd]]
    BY <1>1, <1>5, <1>6, <1>8
  <2>2. Follows(K2, T2, made \union {c}, known)
    BY <1>3, <1>4, <2>1, FollowsNew
  <2> QED BY <1>2, <2>2, FollowsNarrower
<1> QED
  BY <1>1, <1>2, <1>7, <1>8 DEF FollowOK, K2, T2, less

(* A call after which nothing is known of the sockets.                     *)
LEMMA OpaqueFollows ==
  ASSUME TraceInv, FollowOK, NEW r, trace' = Append(trace, r),
         r.sys \in {"recvmsg", "execve"}, sockets' = sockets
  PROVE  FollowOK'
<1>1. Opaque' /\ Now' = StateAfter(Now, r, Closed(Fds))
  BY LineTells
<1>2. StateAfter(Now, r, Closed(Fds)) = Now
  BY AfterOther
<1>3. Entries' = Entries
  BY DEF Entries, IsSound
<1> QED
  BY <1>1, <1>2, <1>3 DEF FollowOK

(* Each act of the kernel, and the line that tells of it.                  *)
LEMMA InitFollows == TraceInit => FollowOK
<1> SUFFICES ASSUME TraceInit PROVE FollowOK
  OBVIOUS
<1> DEFINE closed == Closed(Fds)
           n == NumPids
<1>1. trace = <<>> /\ Len(trace) = 0 /\ sockets = <<>> /\ Len(sockets) = 0
      /\ tableOf = [p \in Pids |-> 1] /\ fds = <<NoTable>>
      /\ leader = [p \in Pids |-> IF p = 1 THEN 1 ELSE 0]
  BY DEF TraceInit
<1>2. Now = [of |-> [p \in Pids |-> p], tables |-> [p \in Pids |-> closed]]
  <2>1. StateAt(trace, Pids, Fds, 0) = StatesFold(trace, Pids, Fds).start
    BY StatesUnfold
  <2> QED BY <1>1, <2>1 DEF Now, StatesFold
<1>3. closed \in [Fds -> Entries]
  BY UnboundSound DEF Closed
<1>4. n \in Nat /\ Pids = 1..n
  BY TraceAssumption DEF Pids
<1>5. /\ Now.tables \in Seq([Fds -> Entries]) /\ Len(Now.tables) = n
      /\ Now.of = [p \in Pids |-> p]
  <2> DEFINE X == [Fds -> Entries]
             s == [p \in 1..n |-> closed]
  <2>1. closed \in X
    BY <1>3
  <2> HIDE DEF X, closed, n
  <2>2. s \in Seq(X) /\ Len(s) = n
    BY <1>4, <2>1
  <2>3. Now.tables = s /\ Now.of = [p \in Pids |-> p]
    BY <1>2, <1>4
  <2> HIDE DEF s
  <2> QED BY <2>2, <2>3 DEF X
<1>6. Now.of \in [Pids -> 1..n]
  BY <1>4, <1>5
<1>7. IsTables(Now, Entries)
  BY <1>2, <1>5, <1>6 DEF IsTables
<1>8. Made = {1} /\ 1 \in Pids
  BY <1>1, <1>4, TraceAssumption DEF Made, Pids
<1>9. \A fd \in Fds : Slot(Kernel, 1, fd) = 0
  BY <1>1, <1>8 DEF Slot, Kernel, NoTable
<1>10. DOMAIN Known = {}
  BY <1>1 DEF Known, ToldSockets
<1>11. Follows(Kernel, Now, Made, Known)
  BY <1>8, <1>10 DEF Follows
<1>12. Single(Kernel, Made)
  BY <1>8, <1>9 DEF Single
<1> QED
  BY <1>7, <1>11, <1>12 DEF FollowOK

LEMMA CloneFollows ==
  ASSUME TraceInv, FollowOK, NEW p \in Pids, NEW child \in Pids,
         NEW flags \in CloneFlags, Clone(p, child, flags)
  PROVE  FollowOK'
<1> DEFINE line == [Line EXCEPT !.sys = "clone", !.flags = flags, !.target = child]
           r == [line EXCEPT !.pid = p]
<1>1. Writes(p, line, child, FALSE) /\ UNCHANGED <<sockets, marked>>
      /\ leader' = [leader EXCEPT ![child] =
                      IF "CLONE_THREAD" \in flags THEN leader[p] ELSE child]
  BY DEF Clone
<1>2. /\ r.sys = "clone" /\ r.flags = flags /\ r.target = child /\ r.pid = p
      /\ r.outcome = "succeeded"
  BY DEF Line
<1> HIDE DEF line
<1>3. p \in Made /\ trace' = Append(trace, r)
  BY <1>1, WritesLine
<1> HIDE DEF r
<1> DEFINE K == Kernel
           K2 == Kernel'
           T == Now
           T2 == Now'
           S == Entries
           closed == Closed(Fds)
           made == Made
<1>4. /\ T2 = StateAfter(T, r, closed)
      /\ ~Opaque' => ~Opaque
      /\ ~Copied' => ~Copied /\ ~Copies(r)
      /\ \A s : Untold(s) => Untold(s)'
  BY <1>3, LineTells
<1>5. /\ IsTables(T, S)
      /\ ~Opaque => Follows(K, T, made, Known)
      /\ ~Opaque /\ ~Copied => Single(K, made)
  BY DEF FollowOK
<1>6. IsTables(K, Nat) /\ K.of = tableOf /\ K.tables = fds
  BY KernelTables DEF TraceInv, Kernel
<1>7. Made' = made \union {child}
  <2>1. \A q \in Pids : leader'[q] # 0 <=> leader[q] # 0 \/ q = child
    <3>1. leader \in [Pids -> 0..NumPids] /\ leader[p] # 0 /\ child # 0
      BY <1>3 DEF TraceInv, KernelOK, Made, Pids
    <3> QED BY <1>1, <3>1
  <2> QED BY <2>1 DEF Made
<1>8. Entries' = S
  BY <1>1 DEF Entries, IsSound
<1>9. SocketsKept
  BY <1>1 DEF SocketsKept
<1>10. Narrows(Known', Known)
  BY <1>4, <1>9, KnownNarrows
<1>11. made \in SUBSET Pids /\ p \in made
  BY <1>3 DEF Made
<1>12. CASE "CLONE_FILES" \in flags
  <2>1. K2 = WithShared(K, child, p)
    BY <1>12 DEF Clone, Kernel, WithShared
  <2>2. T2 = WithShared(T, child, p)
    <3> HIDE DEF T, S, closed, T2
    <3> QED BY <1>2, <1>4, <1>5, <1>12, AfterClone
  <2> HIDE DEF K, K2, T, T2, S, made
  <2>3. SharesTable(K, K2, child, p)
    BY <1>6, <2>1, TableIsShared
  <2>4. IsTables(T2, S) /\ SharesTable(T, T2, child, p)
    BY <1>5, <2>2, TableIsShared
  <2>5. ~Opaque' => Follows(K2, T2, made \union {child}, Known')
    <3> DEFINE known == Known
               less == Known'
               all == made \union {child}
    <3>1. ~Opaque => Follows(K, T, made, known)
      BY <1>5
    <3>2. Narrows(less, known)
      BY <1>10
    <3> HIDE DEF known, less
    <3>3. ~Opaque => Follows(K2, T2, all, known)
      BY <1>11, <2>3, <2>4, <3>1, FollowsShared
    <3> HIDE DEF all
    <3>4. ~Opaque => Follows(K2, T2, all, less)
      BY <3>2, <3>3, FollowsNarrower
    <3> QED BY <1>4, <3>4 DEF all, less
  <2>6. ~Opaque' /\ ~Copied' => Single(K2, made \union {child})
    BY <1>4, <1>5, <1>11, <2>3, SingleShared
  <2> QED BY <1>7, <1>8, <2>4, <2>5, <2>6 DEF FollowOK, K2, T2, S
<1>13. CASE "CLONE_FILES" \notin flags
  <2> DEFINE t == K.tables[K.of[p]]
             u == T.tables[T.of[p]]
  <2>1. K2 = WithNew(K, child, t)
    BY <1>13 DEF Clone, Kernel, WithNew, Table
  <2>2. T2 = WithNew(T, child, u)
    <3> HIDE DEF T, S, closed, T2
    <3> QED BY <1>2, <1>4, <1>5, <1>13, AfterClone
  <2>3. t \in [Fds -> Nat] /\ u \in [Fds -> S]
    <3> HIDE DEF K, T, S
    <3> QED BY <1>5, <1>6, TablesHold
  <2>4. \A fd \in Fds : t[fd] \in DOMAIN Known => u[fd] = Known[t[fd]] \/ Opaque
    BY <1>5, <1>11 DEF Follows, Slot
  <2>5. Copies(r)
    BY <1>2, <1>13 DEF Copies
  <2> HIDE DEF t, u
  <2>6. AddsTable(K, K2, child, t)
    <3> HIDE DEF K, K2
    <3> QED BY <1>6, <2>1, <2>3, TableIsNew
  <2>7. IsTables(T2, S) /\ AddsTable(T, T2, child, u)
    <3> HIDE DEF T, T2, S
    <3> QED BY <1>5, <2>2, <2>3, TableIsNew
  <2> QED BY <1>1, <1>3, <1>7, <2>3, <2>4, <2>5, <2>6, <2>7, NewFollows
<1> QED
  BY <1>12, <1>13

LEMMA MakeSocketFollows ==
  ASSUME TraceInv, FollowOK, NEW p \in Pids, NEW family \in Family, NEW fd \in Fds,
         MakeSocket(p, family, fd)
  PROVE  FollowOK'
<1> DEFINE line == [Line EXCEPT !.sys = "socket", !.target = fd]
           r == [line EXCEPT !.pid = p]
           new == [family |-> family, bound |-> FALSE]
           s == Len(sockets) + 1
           e == Unbound
<1>1. /\ Writes(p, line, 0, FALSE) /\ sockets' = Append(sockets, new)
      /\ fds' = [fds EXCEPT ![tableOf[p]][fd] = s]
      /\ leader' = leader /\ tableOf' = tableOf
  BY DEF MakeSocket
<1>2. /\ r.sys = "socket" /\ r.target = fd /\ r.pid = p /\ Succeeded(r)
  BY DEF Line, Succeeded
<1>20. ~new.bound
  OBVIOUS
<1> HIDE DEF line, new
<1>3. p \in Made /\ trace' = Append(trace, r)
  BY <1>1, WritesLine
<1> HIDE DEF r
<1>4. Now' = StateAfter(Now, r, Closed(Fds)) /\ IsTables(Now, Entries)
  BY <1>3, LineTells DEF FollowOK
<1>5. Now' = WithEntry(Now, p, fd, e)
  BY <1>2, <1>4, AfterEntry
<1>6. sockets \in Seq(SocketType) /\ Len(sockets) \in Nat
  BY DEF TraceInv, KernelOK
<1>7. /\ Len(sockets') = Len(sockets) + 1 /\ sockets'[Len(sockets) + 1] = new
      /\ \A i \in 1..Len(sockets) : sockets'[i] = sockets[i]
  BY <1>1, <1>6, Appended
<1>8. SocketsKept
  BY <1>6, <1>7, <1>20 DEF SocketsKept
<1>9. SocketsGrow
  BY <1>6, <1>7 DEF SocketsGrow
<1>10. s \in Nat /\ s \notin DOMAIN Known
  BY <1>6 DEF Known, ToldSockets
<1>11. \A q \in Pids, x \in Fds : Table(q)[x] # s
  <2>1. \A q \in Pids, x \in Fds : Table(q)[x] \in 0..Len(sockets)
    BY KernelTables DEF TraceInv
  <2> QED BY <1>6, <2>1
<1>12. e \in Entries
  BY UnboundSound
<1> HIDE DEF s, e
<1> QED
  BY <1>1, <1>3, <1>5, <1>8, <1>9, <1>10, <1>11, <1>12, EntryFollows

LEMMA CloseFollows ==
  ASSUME TraceInv, FollowOK, NEW p \in Pids, NEW fd \in Fds, NEW outcome,
         Close(p, fd, outcome)
  PROVE  FollowOK'
<1> DEFINE line == [Line EXCEPT !.sys = "close", !.fd = fd, !.outcome = outcome]
           r == [line EXCEPT !.pid = p]
           s == 0
           e == Unbound
<1>1. /\ Writes(p, line, 0, FALSE) /\ sockets' = sockets
      /\ fds' = [fds EXCEPT ![tableOf[p]][fd] = s]
      /\ leader' = leader /\ tableOf' = tableOf
  BY DEF Close
<1>2. /\ r.sys = "close" /\ r.fd = fd /\ r.pid = p
  BY DEF Line
<1> HIDE DEF line
<1>3. p \in Made /\ trace' = Append(trace, r)
  BY <1>1, WritesLine
<1> HIDE DEF r
<1>4. Now' = StateAfter(Now, r, Closed(Fds)) /\ IsTables(Now, Entries)
  BY <1>3, LineTells DEF FollowOK
<1>5. Now' = WithEntry(Now, p, fd, e)
  BY <1>2, <1>4, AfterEntry
<1>6. SocketsKept /\ SocketsGrow
  BY <1>1 DEF SocketsKept, SocketsGrow
<1>7. s \in Nat /\ s = 0 /\ s \notin DOMAIN Known
  BY DEF Known, ToldSockets
<1>8. e \in Entries
  BY UnboundSound
<1> HIDE DEF s, e
<1> QED
  BY <1>1, <1>3, <1>5, <1>6, <1>7, <1>8, EntryFollows

LEMMA Dup2Follows ==
  ASSUME TraceInv, FollowOK, NEW p \in Pids, NEW from \in Fds, NEW to \in Fds,
         Dup2(p, from, to)
  PROVE  FollowOK'
<1> DEFINE line == [Line EXCEPT !.sys = "dup2", !.fd = from, !.target = to]
           r == [line EXCEPT !.pid = p]
           s == Table(p)[from]
           e == Slot(Now, p, from)
<1>1. /\ Writes(p, line, 0, FALSE) /\ sockets' = sockets
      /\ fds' = [fds EXCEPT ![tableOf[p]][to] = s]
      /\ leader' = leader /\ tableOf' = tableOf
  BY DEF Dup2
<1>2. /\ r.sys = "dup2" /\ r.fd = from /\ r.target = to /\ r.pid = p /\ Succeeded(r)
  BY DEF Line, Succeeded
<1> HIDE DEF line
<1>3. p \in Made /\ trace' = Append(trace, r)
  BY <1>1, WritesLine
<1> HIDE DEF r
<1>4. Now' = StateAfter(Now, r, Closed(Fds)) /\ IsTables(Now, Entries)
  BY <1>3, LineTells DEF FollowOK
<1>5. Now' = WithEntry(Now, p, to, e)
  BY <1>2, <1>4, AfterEntry
<1>6. SocketsKept /\ SocketsGrow
  BY <1>1 DEF SocketsKept, SocketsGrow
<1>7. s \in Nat /\ s = Slot(Kernel, p, from)
  <2>1. Table(p)[from] \in 0..Len(sockets) /\ Slot(Kernel, p, from) = Table(p)[from]
        /\ Len(sockets) \in Nat
    BY KernelTables, TablesAre DEF TraceInv
  <2> QED BY <2>1
<1>8. e \in Entries
  BY <1>4, TablesHold
<1>9. Copied' /\ (~Opaque' => ~Opaque)
  <2>1. Copies(r)
    BY <1>2 DEF Copies
  <2> QED BY <1>3, <2>1, LineTells
<1>10. ~Opaque' /\ s \in DOMAIN Known => e = Known[s]
  BY <1>3, <1>7, <1>9 DEF FollowOK, Follows
<1> HIDE DEF s, e
<1> QED
  BY <1>1, <1>3, <1>5, <1>6, <1>7, <1>8, <1>9, <1>10, EntryFollows

LEMMA ReceiveFollows ==
  ASSUME TraceInv, FollowOK, NEW p \in Pids, NEW s \in DOMAIN sockets, NEW fd \in Fds,
         Receive(p, s, fd)
  PROVE  FollowOK'
<1> DEFINE line == [Line EXCEPT !.sys = "recvmsg",
                             !.note = [NoNote EXCEPT !.family = "unix"]]
           r == [line EXCEPT !.pid = p]
<1>1. Writes(p, line, 0, FALSE) /\ sockets' = sockets /\ r.sys = "recvmsg"
  BY DEF Receive, Line
<1> HIDE DEF line
<1>2. trace' = Append(trace, r)
  BY <1>1, WritesLine
<1> HIDE DEF r
<1> QED
  BY <1>1, <1>2, OpaqueFollows

LEMMA ExecveFollows ==
  ASSUME TraceInv, FollowOK, NEW p \in Pids, NEW closed, Execve(p, closed)
  PROVE  FollowOK'
<1> DEFINE line == [Line EXCEPT !.sys = "execve", !.text = "absolute",
                            !.where = "outside"]
           r == [line EXCEPT !.pid = p]
<1>1. Writes(p, line, 0, TRUE) /\ sockets' = sockets /\ r.sys = "execve"
  BY DEF Execve, Line
<1> HIDE DEF line
<1>2. trace' = Append(trace, r)
  BY <1>1, WritesLine
<1> HIDE DEF r
<1> QED
  BY <1>1, <1>2, OpaqueFollows

(* The calls that change nothing, of which the normalizer learns nothing.  *)
LEMMA IdleFollows ==
  ASSUME TraceInv, FollowOK, NEW p \in Pids, NEW line, NEW at, NEW relevant,
         Writes(p, line, at, relevant), UNCHANGED kernelVars,
         NEW sys, [line EXCEPT !.pid = p].sys = sys,
         sys \notin {"clone", "close", "close_range", "dup2", "socket", "accept", "bind"}
  PROVE  FollowOK'
<1> DEFINE r == [line EXCEPT !.pid = p]
<1>1. trace' = Append(trace, r) /\ r.sys = sys
  BY WritesLine
<1> HIDE DEF r
<1>2. Now' = StateAfter(Now, r, Closed(Fds))
  BY <1>1, LineTells
<1>3. Now' = Now
  BY <1>1, <1>2, AfterOther
<1> QED
  BY <1>1, <1>3, FollowsIdle

LEMMA ListenFollows ==
  ASSUME TraceInv, FollowOK, NEW p \in Pids, NEW fd \in Fds, Listen(p, fd)
  PROVE  FollowOK'
<1> DEFINE line == [Line EXCEPT !.sys = "listen", !.fd = fd,
                                !.note = SocketNote(Table(p)[fd])]
           sys == [line EXCEPT !.pid = p].sys
           at == IF sockets[Table(p)[fd]].bound THEN Table(p)[fd] ELSE 0
<1>1. Writes(p, line, at, TRUE) /\ UNCHANGED kernelVars /\ sys = "listen"
  BY DEF Listen, Line
<1>2. [line EXCEPT !.pid = p].sys = sys
  OBVIOUS
<1> HIDE DEF line, sys, at
<1> QED
  BY <1>1, <1>2, IdleFollows

LEMMA ExitFollows ==
  ASSUME TraceInv, FollowOK, NEW p \in Pids, Exit(p)
  PROVE  FollowOK'
<1> DEFINE line == [Line EXCEPT !.sys = "exit_group", !.outcome = "unknown"]
           sys == [line EXCEPT !.pid = p].sys
<1>1. Writes(p, line, 0, FALSE) /\ UNCHANGED kernelVars /\ sys = "exit_group"
  BY DEF Exit, Line
<1>2. [line EXCEPT !.pid = p].sys = sys
  OBVIOUS
<1> HIDE DEF line, sys
<1> QED
  BY <1>1, <1>2, IdleFollows

LEMMA CloseAllFollows ==
  ASSUME TraceInv, FollowOK, NEW p \in Pids, NEW flags, CloseAll(p, flags)
  PROVE  FollowOK'
<1> DEFINE line == [Line EXCEPT !.sys = "close_range", !.flags = flags]
           r == [line EXCEPT !.pid = p]
           t == IF "CLOEXEC" \in flags THEN Table(p) ELSE NoTable
           T == Now
           T2 == Now'
           K == Kernel
           K2 == Kernel'
           S == Entries
           row == T.tables[T.of[p]]
           closed == Closed(Fds)
<1>1. Writes(p, line, 0, FALSE) /\ UNCHANGED <<leader, sockets, marked>>
  BY DEF CloseAll
<1>2. /\ r.sys = "close_range" /\ r.flags = flags /\ r.pid = p
      /\ r.outcome = "succeeded"
  BY DEF Line
<1> HIDE DEF line
<1>3. p \in Made /\ trace' = Append(trace, r)
  BY <1>1, WritesLine
<1> HIDE DEF r
<1>4. T2 = StateAfter(T, r, closed) /\ IsTables(T, S)
  BY <1>3, LineTells DEF FollowOK
<1>5. T2 = LET own == IF "UNSHARE" \in flags THEN WithNew(T, p, row) ELSE T
           IN IF "CLOEXEC" \in flags THEN own ELSE WithTable(own, p, closed)
  <2> HIDE DEF T, T2, S, closed
  <2> QED BY <1>2, <1>4, AfterCloseRange
<1>6. closed \in [Fds -> S] /\ row \in [Fds -> S]
  <2>1. closed \in [Fds -> S]
    BY UnboundSound DEF Closed
  <2> HIDE DEF T, S
  <2>2. row \in [Fds -> S]
    BY <1>4, TablesHold
  <2> QED BY <2>1, <2>2
<1>7. CASE "UNSHARE" \notin flags /\ "CLOEXEC" \notin flags
  <2>1. tableOf' = tableOf /\ fds' = [fds EXCEPT ![tableOf[p]] = NoTable]
    BY <1>7 DEF CloseAll
  <2>2. Now' = WithTable(Now, p, Closed(Fds))
    BY <1>5, <1>7
  <2> QED BY <1>1, <1>3, <2>1, <2>2, TableFollows
<1>8. CASE "UNSHARE" \notin flags /\ "CLOEXEC" \in flags
  <2>1. UNCHANGED kernelVars
    BY <1>1, <1>8 DEF CloseAll, kernelVars
  <2>2. Now' = Now
    BY <1>5, <1>8
  <2> QED BY <1>3, <2>1, <2>2, FollowsIdle
<1>9. CASE "UNSHARE" \in flags
  <2> DEFINE u == IF "CLOEXEC" \in flags THEN row ELSE closed
  <2>1. IsTables(K, Nat) /\ K.of = tableOf /\ K.tables = fds
    BY KernelTables DEF TraceInv, Kernel
  <2>2. t \in [Fds -> Nat]
    BY TablesAre DEF NoTable, TraceInv
  <2>3. K2 = WithNew(K, p, t)
    BY <1>9 DEF CloseAll, Kernel, WithNew
  <2>4. AddsTable(K, K2, p, t)
    <3> HIDE DEF K, K2, t
    <3> QED BY <2>1, <2>2, <2>3, TableIsNew
  <2>5. IsTables(T2, S) /\ AddsTable(T, T2, p, u)
    <3> DEFINE U == WithNew(T, p, row)
    <3> HIDE DEF T, T2, S, row, closed, U
    <3>1. IsTables(U, S) /\ AddsTable(T, U, p, row)
      BY <1>4, <1>6, TableIsNew DEF U
    <3>2. CASE "CLOEXEC" \in flags
      BY <1>5, <1>9, <3>1, <3>2 DEF U
    <3>3. CASE "CLOEXEC" \notin flags
      <4>1. T2 = WithTable(U, p, closed)
        BY <1>5, <1>9, <3>3 DEF U
      <4>2. IsTables(T2, S) /\ SetsTable(U, T2, p, closed)
        BY <1>6, <3>1, <4>1, TableIsSet
      <4>3. AddsTable(T, T2, p, closed)
        BY <3>1, <4>2, NewThenSet
      <4> QED BY <3>3, <4>2, <4>3
    <3> QED BY <3>2, <3>3
  <2>6. \A fd \in Fds : t[fd] \in DOMAIN Known => u[fd] = Known[t[fd]] \/ Opaque
    <3>1. CASE "CLOEXEC" \in flags
      <4>1. \A fd \in Fds : t[fd] = Slot(Kernel, p, fd) /\ u[fd] = Slot(Now, p, fd)
        BY <3>1, <2>1 DEF Slot, Table
      <4> HIDE DEF t, u
      <4> QED BY <1>3, <4>1 DEF FollowOK, Follows
    <3>2. CASE "CLOEXEC" \notin flags
      BY <3>2 DEF NoTable, Known, ToldSockets
    <3> QED BY <3>1, <3>2
  <2>7. Copies(r)
    BY <1>2, <1>9 DEF Copies
  <2>8. Made' = Made \union {p} /\ sockets' = sockets
    BY <1>1, <1>3 DEF Made
  <2> HIDE DEF t, u, row, closed
  <2> QED BY <1>3, <2>2, <2>4, <2>5, <2>6, <2>7, <2>8, NewFollows
<1> QED
  BY <1>7, <1>8, <1>9

LEMMA BindFollows ==
  ASSUME TraceInv, FollowOK, NEW p \in Pids, NEW fd \in Fds, Bind(p, fd)
  PROVE  FollowOK'
<1>0. PICK s, note : s = Table(p)[fd] /\ note = SocketNote(s)
  OBVIOUS
<1> DEFINE line == [Line EXCEPT !.sys = "bind", !.fd = fd, !.at = s, !.note = note]
           r == [line EXCEPT !.pid = p]
           e == [at |-> s, note |-> note]
           T == Now
           T2 == Now'
           K == Kernel
           S == Entries
           S2 == Entries'
           known == Known
           more == Known'
           made == Made
<1>1. /\ Writes(p, line, s, TRUE) /\ s # 0 /\ ~sockets[s].bound
      /\ sockets' = [sockets EXCEPT ![s].bound = TRUE]
      /\ UNCHANGED <<leader, tableOf, fds, marked>>
  BY <1>0 DEF Bind
<1>2. /\ r.sys = "bind" /\ r.fd = fd /\ r.pid = p /\ r.at = s /\ r.note = note
      /\ r.says = {} /\ Succeeded(r)
  BY DEF Line, Succeeded
<1> HIDE DEF line
<1>3. p \in Made /\ trace' = Append(trace, r)
  BY <1>1, WritesLine
<1> HIDE DEF r
<1>4. /\ s = Slot(K, p, fd) /\ s \in 1..Len(sockets) /\ Len(sockets) \in Nat
      /\ sockets \in Seq(SocketType)
  <2>1. Table(p)[fd] \in 0..Len(sockets) /\ Slot(Kernel, p, fd) = Table(p)[fd]
        /\ Len(sockets) \in Nat
    BY KernelTables, TablesAre DEF TraceInv
  <2>2. sockets \in Seq(SocketType)
    BY DEF TraceInv, KernelOK
  <2> HIDE DEF K
  <2> QED BY <1>0, <1>1, <2>1, <2>2 DEF K
<1>5. sockets[s] \in SocketType
  BY <1>4
<1>6. /\ note = [NoNote EXCEPT !.family = sockets[s].family, !.id = s]
      /\ note.family \in Family /\ note.id = s /\ note \in Notes
  <2>1. sockets[s].family \in Family
    BY <1>5 DEF SocketType
  <2>2. note = [NoNote EXCEPT !.family = sockets[s].family, !.id = s]
    BY <1>0, <1>1 DEF SocketNote
  <2> DEFINE family == sockets[s].family
  <2>3. note = [family |-> family, id |-> s, at |-> 0, place |-> "none"]
    BY <2>2 DEF NoNote
  <2>4. s \in Nat /\ family \in {"unix", "tcp"}
    BY <1>4, <2>1 DEF Family
  <2> HIDE DEF family
  <2>5. note \in Notes
    BY <2>3, <2>4 DEF Notes
  <2>6. note.family \in Family /\ note.id = s
    BY <2>3, <2>4 DEF Family
  <2> QED BY <2>2, <2>5, <2>6
<1>7. /\ Len(sockets') = Len(sockets) /\ sockets'[s].bound
      /\ sockets'[s].family = sockets[s].family
      /\ \A x \in 1..Len(sockets) : x # s => sockets'[x] = sockets[x]
  <2> DEFINE new == [sockets[s] EXCEPT !.bound = TRUE]
             X == SocketType
  <2>1. new.bound /\ new.family = sockets[s].family /\ new \in X
    BY <1>5 DEF SocketType
  <2>2. sockets' = [sockets EXCEPT ![s] = new] /\ sockets \in Seq(X)
    BY <1>1, <1>4
  <2> HIDE DEF new, X
  <2>3. Len(sockets') = Len(sockets)
        /\ \A x \in 1..Len(sockets) : sockets'[x] = IF x = s THEN new ELSE sockets[x]
    BY <1>4, <2>1, <2>2, Replaced
  <2> QED BY <1>4, <2>1, <2>3
<1>8. /\ T2 = StateAfter(T, r, Closed(Fds))
      /\ ~Opaque' => ~Opaque
      /\ ~Copied' => ~Copied
      /\ \A x : Untold(x) => Untold(x)'
      /\ ~Untold(s)' => ~Opaque' /\ ~Copied
  BY <1>2, <1>3, LineTells
<1>9. /\ IsTables(T, S)
      /\ ~Opaque => Follows(K, T, made, known)
      /\ ~Opaque /\ ~Copied => Single(K, made)
  BY DEF FollowOK
<1>10. S \subseteq S2
  <2>1. SocketsGrow
    BY <1>4, <1>7 DEF SocketsGrow
  <2> QED BY <2>1, EntriesGrow
<1>11. e \in S2
  <2>1. e \in [at : Nat, note : Notes] /\ e.at = s /\ e.note = note
    BY <1>4, <1>6
  <2> HIDE DEF e
  <2>2. s \in 1..Len(sockets') /\ e.note.id = s /\ sockets'[e.note.id].bound
    BY <1>4, <1>6, <1>7, <2>1
  <2>3. IsSound(e)'
    BY <2>1, <2>2 DEF IsSound
  <2> QED BY <2>1, <2>3 DEF Entries
<1>12. T2 = WithEntry(T, p, fd, e)
  <2>1. ~Netlink(r)
    BY <1>2, <1>6 DEF Netlink, Family
  <2> HIDE DEF T, T2, S
  <2> QED BY <1>1, <1>2, <1>8, <1>9, <2>1, AfterBind
<1>13. \A x \in DOMAIN more :
         IF x = s THEN ~Opaque' /\ ~Copied /\ more[x] = e
         ELSE x \in DOMAIN known /\ more[x] = known[x]
  <2> SUFFICES ASSUME NEW x \in DOMAIN more
               PROVE  IF x = s THEN ~Opaque' /\ ~Copied /\ more[x] = e
                      ELSE x \in DOMAIN known /\ more[x] = known[x]
    OBVIOUS
  <2>1. x \in ToldSockets' /\ more[x] = BindEntry(x)'
    BY DEF Known
  <2>2. x \in 1..Len(sockets) /\ sockets'[x].bound /\ ~Untold(x)'
    BY <1>7, <2>1 DEF ToldSockets
  <2>3. CASE x = s
    <3>1. BindEntry(x)' = [at |-> s, note |-> [NoNote EXCEPT !.family = sockets[s].family,
                                                         !.id = s]]
      BY <1>7, <2>3 DEF BindEntry
    <3> QED BY <1>6, <1>8, <2>1, <2>2, <2>3, <3>1
  <2>4. CASE x # s
    <3>1. sockets'[x] = sockets[x] /\ ~Untold(x)
      BY <1>7, <1>8, <2>2, <2>4
    <3>2. x \in ToldSockets
      BY <2>2, <3>1 DEF ToldSockets
    <3>3. known[x] = BindEntry(x) /\ BindEntry(x)' = BindEntry(x) /\ x \in DOMAIN known
      BY <3>1, <3>2 DEF Known, BindEntry
    <3> QED BY <2>1, <2>4, <3>3
  <2> QED BY <2>3, <2>4
<1>14. made \in SUBSET Pids /\ p \in made /\ Made' = made /\ Kernel' = K
  BY <1>1, <1>3 DEF Made, Kernel
<1> HIDE DEF K, T, T2, S, S2, known, more, made, e
<1>15. IsTables(T, S2)
  BY <1>9, <1>10, TablesWiden
<1>16. IsTables(T2, S2) /\ SetsEntry(T, T2, p, fd, e)
  BY <1>11, <1>12, <1>15, EntryIsSet
<1>17. ASSUME ~Opaque'
       PROVE  Follows(K, T2, made, more)
  <2>1. Follows(K, T, made, known)
    BY <1>8, <1>9, <1>17
  <2>2. \A x \in DOMAIN more :
          IF x = Slot(K, p, fd) THEN Single(K, made) /\ more[x] = e
          ELSE x \in DOMAIN known /\ more[x] = known[x]
    BY <1>4, <1>8, <1>9, <1>13
  <2>3. Slot(K, p, fd) # 0
    BY <1>1, <1>4
  <2> QED BY <1>14, <1>16, <2>1, <2>2, <2>3, FollowsBind
<1>18. ~Opaque' /\ ~Copied' => Single(K, made)
  BY <1>8, <1>9
<1> QED
  BY <1>14, <1>16, <1>17, <1>18 DEF FollowOK, K, T2, S2, more, made

(* The first call of a trace, when no socket is made.                      *)
LEMMA SingleCallFollows ==
  ASSUME TraceInv, FollowOK, NEW p \in Pids, NEW line \in SingleCalls,
         Calls(p, line), sockets = <<>>
  PROVE  FollowOK'
<1> DEFINE r == [line EXCEPT !.pid = p]
           sys == r.sys
<1>0. SingleLine(line)
  BY SingleLines
<1>1. Writes(p, line, line.at, Matters(line)) /\ UNCHANGED kernelVars
  BY DEF Calls
<1>2. /\ r.sys = line.sys /\ r.at = line.at /\ r.note = line.note /\ r.fd = line.fd
      /\ r.pid = p
  BY <1>0 DEF SingleLine, Line
<1>3. p \in Made /\ trace' = Append(trace, r)
  BY <1>1 DEF Writes, Live, Made
<1>4. sockets' = sockets
  BY <1>1 DEF kernelVars
<1>5. CASE line.sys # "bind"
  <2>1. Now' = StateAfter(Now, r, Closed(Fds))
    BY <1>3, LineTells
  <2>2. r.sys \notin {"clone", "close", "close_range", "dup2", "socket", "accept", "bind"}
    BY <1>0, <1>2, <1>5 DEF SingleLine
  <2> HIDE DEF r
  <2>3. Now' = Now
    BY <2>1, <2>2, AfterOther
  <2> QED BY <1>1, <1>3, <2>3, FollowsIdle
<1>6. CASE line.sys = "bind"
  <2> DEFINE e == [at |-> r.at, note |-> r.note]
             T == Now
             T2 == Now'
             K == Kernel
             S == Entries
  <2>1. e.note.id = 0 /\ e.at \in Nat /\ e.note \in Notes
    BY <1>0, <1>2, <1>6 DEF SingleLine, NoNote, Notes
  <2>2. e \in S
    BY <2>1 DEF Entries, IsSound
  <2>3. T2 = StateAfter(T, r, Closed(Fds)) /\ (~Opaque' => ~Opaque)
        /\ (~Copied' => ~Copied)
    BY <1>3, LineTells
  <2>4. r.sys = "bind" /\ r.at # 0
    BY <1>0, <1>2, <1>6 DEF SingleLine
  <2>5. IsTables(T, S)
    BY DEF FollowOK
  <2> HIDE DEF r
  <2>6. T2 = T \/ T2 = WithEntry(T, p, r.fd, e)
    BY <1>2, <2>3, <2>4, <2>5, AfterBind
  <2>7. p \in Pids /\ r.fd \in Fds
    BY <1>0, <1>2, <1>6 DEF SingleLine
  <2> HIDE DEF T, T2, S, e
  <2>8. IsTables(T2, S) /\ T2.of = T.of
    BY <2>2, <2>5, <2>6, <2>7, EntryIsSet DEF SetsEntry
  <2>9. Made' = Made /\ Kernel' = K /\ Entries' = S /\ DOMAIN Known' = {}
    BY <1>1, <1>4 DEF Made, Kernel, kernelVars, Entries, IsSound, Known, ToldSockets, S
  <2>10. ~Opaque' => Follows(K, T2, Made, Known')
    BY <2>3, <2>8, <2>9 DEF FollowOK, Follows, T
  <2>11. ~Opaque' /\ ~Copied' => Single(K, Made)
    BY <2>3 DEF FollowOK
  <2> QED BY <2>8, <2>9, <2>10, <2>11 DEF FollowOK, T2, S
<1> QED
  BY <1>5, <1>6

LEMMA DeleteFollows ==
  ASSUME TraceInv, FollowOK, NEW p \in Pids, Calls(p, Delete)
  PROVE  FollowOK'
<1> DEFINE line == Delete
           sys == [line EXCEPT !.pid = p].sys
           at == line.at
           relevant == Matters(line)
<1>1. Writes(p, line, at, relevant) /\ UNCHANGED kernelVars /\ sys = "unlink"
  BY DEF Calls, Delete, Line
<1>2. [line EXCEPT !.pid = p].sys = sys
  OBVIOUS
<1> HIDE DEF line, sys, at, relevant
<1> QED
  BY <1>1, <1>2, IdleFollows

-----------------------------------------------------------------------------
(* The line of a call says what the kernel did.                            *)
Agrees(r, f) ==
  /\ r.pid \in Made /\ f.process = leader[r.pid]
  /\ f.sys = r.sys /\ f.outcome = r.outcome
  /\ f.places = {r.where, r.where2, r.note.place} \ {"none"}
  /\ r.sys = "clone" => f.at = r.target /\ r.target \in Pids
  /\ r.sys \notin {"clone", "listen"} => f.at = r.at
  /\ RecordOK(r)

(* What the normalizer makes of a listen.                                  *)
Heard(f) ==
  LET at == EndpointAt(StateAt(trace, Pids, Fds, f.line - 1), trace[f.line])
  IN at \in {0, f.at} /\ (Untold(f.at) \/ at = f.at)

FactsOK ==
  /\ \A f \in facts : f.line \in 0..Len(trace)
  /\ \A f, g \in facts : f.line = g.line /\ f.line # 0 => f = g
  /\ \A i \in 1..Len(trace) : \E f \in facts : f.line = i /\ Agrees(trace[i], f)
  /\ \A f \in facts : f.line # 0 /\ f.sys = "listen" => Heard(f)

OwnersOK ==
  OwnersOf(trace, Pids) = [p \in Pids |-> IF leader[p] = 0 THEN p ELSE leader[p]]

(* Each process but the first is started by one line.                      *)
StartsOK ==
  /\ leader[1] = 1
  /\ \A i, j \in 1..Len(trace) :
       StartsProcess(trace[i]) /\ StartsProcess(trace[j])
         /\ trace[i].target = trace[j].target => i = j
  /\ \A i \in 1..Len(trace) : StartsProcess(trace[i]) =>
       /\ trace[i].target \in Pids \ {1}
       /\ leader[trace[i].target] = trace[i].target
  /\ \A p \in Pids : leader[p] \notin {0, 1} =>
       \E i \in 1..Len(trace) : StartsProcess(trace[i]) /\ trace[i].target = leader[p]
  /\ trace # <<>> => trace[1].pid = 1
  /\ trace = <<>> => sockets = <<>> /\ \A p \in Made : p = 1

RecordsOK == FactsOK /\ OwnersOK /\ StartsOK

LEMMA TraceAppended ==
  ASSUME TraceInv, NEW r, trace' = Append(trace, r)
  PROVE  /\ Len(trace) \in Nat /\ DOMAIN trace = 1..Len(trace)
         /\ Len(trace') = Len(trace) + 1
         /\ trace'[Len(trace) + 1] = r
         /\ \A i \in 1..Len(trace) : trace'[i] = trace[i]
         /\ trace' # <<>>
         /\ trace = <<>> <=> Len(trace) = 0
<1>1. PICK S : trace \in Seq(S)
  BY DEF TraceInv, TracedOK
<1>2. /\ Len(trace) \in Nat /\ DOMAIN trace = 1..Len(trace)
      /\ Len(trace') = Len(trace) + 1
      /\ trace'[Len(trace) + 1] = r
      /\ \A i \in 1..Len(trace) : trace'[i] = trace[i]
  BY <1>1, Appended
<1>3. trace' # <<>>
  BY <1>2
<1>4. trace = <<>> <=> Len(trace) = 0
  BY <1>1
<1> QED
  BY <1>2, <1>3, <1>4

(* One line and one fact more.                                             *)
LEMMA FactAdded ==
  ASSUME TraceInv, FactsOK, NEW r, trace' = Append(trace, r), NEW f0,
         facts' = facts \union {f0}, f0.line = Len(trace) + 1, Agrees(r, f0)',
         \A q \in Made : q \in Made' /\ leader'[q] = leader[q],
         r.sys = "listen" => Heard(f0)'
  PROVE  FactsOK'
<1> DEFINE n == Len(trace)
<1>1. /\ n \in Nat /\ Len(trace') = n + 1 /\ trace'[n + 1] = r
      /\ \A i \in 1..n : trace'[i] = trace[i]
  BY TraceAppended
<1>2. \A s : Untold(s) => Untold(s)'
  BY LineTells
<1>3. \A m \in 0..n : StateAt(trace', Pids, Fds, m) = StateAt(trace, Pids, Fds, m)
  <2>1. PICK S : trace \in Seq(S)
    BY DEF TraceInv, TracedOK
  <2>2. SameStates(trace, trace', Pids, Fds)
    BY <2>1, StateAppended
  <2> QED BY <2>2 DEF SameStates
<1>4. \A f \in facts' : f.line \in 0..Len(trace')
  <2>1. \A f \in facts : f.line \in 0..n
    BY DEF FactsOK
  <2> HIDE DEF n
  <2>2. \A f \in facts : f.line \in 0..(n + 1)
    BY <1>1, <2>1
  <2>3. f0.line \in 0..(n + 1)
    BY <1>1 DEF n
  <2> QED BY <1>1, <2>2, <2>3
<1>5. \A f, g \in facts' : f.line = g.line /\ f.line # 0 => f = g
  <2>1. \A f \in facts : f.line # f0.line
    BY <1>1 DEF FactsOK
  <2> QED BY <2>1 DEF FactsOK
<1>6. ASSUME NEW i \in 1..Len(trace')
      PROVE  \E f \in facts' : f.line = i /\ Agrees(trace[i], f)'
  <2>1. CASE i = n + 1
    <3>1. f0.line = i /\ f0 \in facts' /\ trace'[i] = r
      BY <1>1, <2>1
    <3>2. Agrees(trace[i], f0)'
      BY <3>1 DEF Agrees
    <3> QED BY <3>1, <3>2
  <2>2. CASE i # n + 1
    <3>1. i \in 1..n /\ trace'[i] = trace[i]
      BY <1>1, <2>2
    <3>2. PICK f \in facts : f.line = i /\ Agrees(trace[i], f)
      BY <3>1 DEF FactsOK
    <3> DEFINE x == trace[i]
    <3>3. x.pid \in Made' /\ leader'[x.pid] = leader[x.pid]
      BY <3>2 DEF Agrees
    <3>4. x.pid \in Made /\ trace'[i] = x
      BY <3>1, <3>2 DEF Agrees
    <3> HIDE DEF x
    <3>5. Agrees(trace[i], f)'
      BY <3>2, <3>3, <3>4 DEF Agrees, x
    <3> QED BY <3>2, <3>5
  <2> QED BY <2>1, <2>2
<1>7. ASSUME NEW f \in facts', f.line # 0, f.sys = "listen"
      PROVE  Heard(f)'
  <2>1. CASE f = f0
    <3>1. r.sys = "listen"
      BY <1>7, <2>1 DEF Agrees
    <3> QED BY <2>1, <3>1
  <2>2. CASE f \in facts
    <3>1. Heard(f) /\ f.line \in 0..n
      BY <1>7, <2>2 DEF FactsOK
    <3>2. f.line \in 1..n /\ f.line - 1 \in 0..n
      BY <1>1, <1>7, <3>1
    <3>3. /\ trace'[f.line] = trace[f.line]
          /\ StateAt(trace', Pids, Fds, f.line - 1) = StateAt(trace, Pids, Fds, f.line - 1)
      BY <1>1, <1>3, <3>2
    <3> QED BY <1>2, <3>1, <3>3 DEF Heard
  <2> QED BY <2>1, <2>2
<1> QED
  BY <1>4, <1>5, <1>6, <1>7 DEF FactsOK

(* A line as its thread writes it.                                         *)
IsLineOf(r, line, p) ==
  /\ r.pid = p /\ r.sys = line.sys /\ r.outcome = line.outcome
  /\ r.where = line.where /\ r.where2 = line.where2
  /\ r.note = line.note /\ r.at = line.at /\ r.target = line.target
  /\ RecordOK(r)

LEMMA FactsKept ==
  ASSUME TraceInv, FactsOK, NEW p \in Pids, NEW line, NEW at, NEW relevant,
         Writes(p, line, at, relevant),
         NEW r, trace' = Append(trace, r), IsLineOf(r, line, p),
         NEW f0, f0 = Fact(p, line, at, relevant),
         r.sys = "clone" => at = r.target /\ r.target \in Pids,
         r.sys \notin {"clone", "listen"} => at = r.at,
         r.sys = "listen" => Heard(f0)',
         \A q \in Made : q \in Made' /\ leader'[q] = leader[q]
  PROVE  FactsOK'
<1>1. p \in Made /\ facts' = facts \union {f0}
  BY DEF Writes, Live, Made
<1>2. /\ f0.line = Len(trace) + 1 /\ f0.process = leader[p] /\ f0.sys = r.sys
      /\ f0.outcome = r.outcome /\ f0.at = at
      /\ f0.places = {r.where, r.where2, r.note.place} \ {"none"}
  BY DEF Fact, IsLineOf
<1>3. r.pid = p /\ RecordOK(r)
  BY DEF IsLineOf
<1>4. r.pid \in Made' /\ f0.process = leader'[r.pid]
  BY <1>1, <1>2, <1>3
<1>5. Agrees(r, f0)'
  BY <1>2, <1>3, <1>4 DEF Agrees
<1> QED
  BY <1>1, <1>2, <1>5, FactAdded

(* The first line is of the first process.                                 *)
LEMMA FirstLine ==
  ASSUME TraceInv, StartsOK, NEW p \in Made, NEW r, trace' = Append(trace, r), r.pid = p
  PROVE  trace'[1].pid = 1
<1> DEFINE n == Len(trace)
<1>1. /\ n \in Nat /\ trace'[n + 1] = r
      /\ \A i \in 1..n : trace'[i] = trace[i]
      /\ (trace = <<>> <=> n = 0)
  BY TraceAppended
<1>2. CASE n = 0
  <2>1. p = 1
    BY <1>1, <1>2 DEF StartsOK
  <2> QED BY <1>1, <1>2, <2>1
<1>3. CASE n # 0
  <2>1. 1 \in 1..n
    BY <1>1, <1>3
  <2> QED BY <1>1, <1>3, <2>1 DEF StartsOK
<1> QED
  BY <1>2, <1>3

LEMMA IdleOwners ==
  ASSUME TraceInv, OwnersOK, StartsOK, NEW p \in Pids, Live(p),
         NEW r, trace' = Append(trace, r), r.sys # "clone", r.pid = p, leader' = leader
  PROVE  OwnersOK' /\ StartsOK'
<1> DEFINE n == Len(trace)
<1>1. /\ n \in Nat /\ Len(trace') = n + 1 /\ trace'[n + 1] = r
      /\ \A i \in 1..n : trace'[i] = trace[i]
      /\ trace' # <<>>
      /\ (trace = <<>> <=> n = 0)
  BY TraceAppended
<1>2. ~StartsProcess(r) /\ ~StartsThread(r)
  BY DEF StartsProcess, StartsThread, Forks
<1>3. OwnersOf(trace', Pids) = OwnersOf(trace, Pids)
  <2>1. PICK S : trace \in Seq(S)
    BY DEF TraceInv, TracedOK
  <2>2. OwnersOf(Append(trace, r), Pids) = OwnerAfter(OwnersOf(trace, Pids), r)
    BY <2>1, OwnersAppended
  <2> QED BY <1>2, <2>2 DEF OwnerAfter
<1>4. OwnersOK'
  BY <1>3 DEF OwnersOK
<1>5. ASSUME NEW i \in 1..Len(trace'), StartsProcess(trace'[i])
      PROVE  i \in 1..n /\ trace'[i] = trace[i] /\ StartsProcess(trace[i])
  BY <1>1, <1>2, <1>5
<1>6. \A i \in 1..n : i \in 1..Len(trace')
  BY <1>1
<1>7. trace'[1].pid = 1
  BY FirstLine DEF Live, Made
<1> HIDE DEF n
<1>8. \A i, j \in 1..Len(trace') :
        StartsProcess(trace'[i]) /\ StartsProcess(trace'[j])
          /\ trace'[i].target = trace'[j].target => i = j
  BY <1>5 DEF StartsOK, n
<1>9. \A i \in 1..Len(trace') : StartsProcess(trace'[i]) =>
        /\ trace'[i].target \in Pids \ {1}
        /\ leader'[trace'[i].target] = trace'[i].target
  BY <1>5 DEF StartsOK, n
<1>10. \A q \in Pids : leader'[q] \notin {0, 1} =>
         \E i \in 1..Len(trace') : StartsProcess(trace'[i]) /\ trace'[i].target = leader'[q]
  BY <1>1, <1>6 DEF StartsOK, n
<1>11. leader'[1] = 1
  BY DEF StartsOK
<1>13. StartsOK'
  BY <1>1, <1>7, <1>8, <1>9, <1>10, <1>11 DEF StartsOK
<1> QED
  BY <1>4, <1>13

(* A line of a call that makes no thread.                                  *)
LEMMA LineKeepsRecords ==
  ASSUME TraceInv, RecordsOK, NEW p \in Pids, NEW line, NEW at, NEW relevant,
         Writes(p, line, at, relevant), leader' = leader,
         NEW r, trace' = Append(trace, r), IsLineOf(r, line, p), r.sys # "clone",
         NEW f0, f0 = Fact(p, line, at, relevant),
         r.sys # "listen" => at = r.at,
         r.sys = "listen" => Heard(f0)'
  PROVE  RecordsOK'
<1>1. FactsOK /\ OwnersOK /\ StartsOK
  BY DEF RecordsOK
<1>2. \A q \in Made : q \in Made' /\ leader'[q] = leader[q]
  BY DEF Made
<1>3. FactsOK'
  BY <1>1, <1>2, FactsKept
<1>4. Live(p) /\ r.pid = p
  BY DEF Writes, IsLineOf
<1>5. OwnersOK' /\ StartsOK'
  BY <1>1, <1>4, IdleOwners
<1> QED
  BY <1>3, <1>5 DEF RecordsOK

-----------------------------------------------------------------------------
(* The lines of the calls that make no thread.                             *)
LEMMA QuietKeepsRecords ==
  ASSUME TraceInv, RecordsOK, NEW p \in Pids, NEW line, NEW at, NEW relevant,
         Writes(p, line, at, relevant), leader' = leader,
         line = [f \in DOMAIN Line |-> line[f]], line.sys \notin {"clone", "listen"},
         RecordOK(line), at = line.at
  PROVE  RecordsOK'
<1> DEFINE r == [line EXCEPT !.pid = p]
<1>1. /\ r.pid = p /\ r.sys = line.sys /\ r.outcome = line.outcome
      /\ r.where = line.where /\ r.where2 = line.where2
      /\ r.note = line.note /\ r.at = line.at /\ r.target = line.target
  BY DEF Line
<1>2. trace' = Append(trace, r)
  BY DEF Writes
<1>3. PICK f0 : f0 = Fact(p, line, at, relevant)
  OBVIOUS
<1> HIDE DEF r
<1>4. IsLineOf(r, line, p)
  BY <1>1 DEF IsLineOf, RecordOK
<1> QED
  BY <1>1, <1>2, <1>3, <1>4, LineKeepsRecords

LEMMA CloseRecords ==
  ASSUME TraceInv, RecordsOK, NEW p \in Pids, NEW fd \in Fds, NEW outcome,
         Close(p, fd, outcome)
  PROVE  RecordsOK'
<1> DEFINE line == [Line EXCEPT !.sys = "close", !.fd = fd, !.outcome = outcome]
           at == 0
           relevant == FALSE
<1>1. Writes(p, line, at, relevant) /\ leader' = leader
  BY DEF Close
<1>2. line = [f \in DOMAIN Line |-> line[f]] /\ line.sys = "close" /\ line.at = at
  BY DEF Line
<1>3. line.at \in Nat /\ line.at = 0
  BY <1>2
<1> HIDE DEF line, at, relevant
<1> QED
  BY <1>1, <1>2, <1>3, QuietKeepsRecords DEF RecordOK

LEMMA MakeSocketRecords ==
  ASSUME TraceInv, RecordsOK, NEW p \in Pids, NEW family, NEW fd \in Fds,
         MakeSocket(p, family, fd)
  PROVE  RecordsOK'
<1> DEFINE line == [Line EXCEPT !.sys = "socket", !.target = fd]
           at == 0
           relevant == FALSE
<1>1. Writes(p, line, at, relevant) /\ leader' = leader
  BY DEF MakeSocket
<1>2. line = [f \in DOMAIN Line |-> line[f]] /\ line.sys = "socket" /\ line.at = at
  BY DEF Line
<1>3. line.at \in Nat /\ line.at = 0
  BY <1>2
<1> HIDE DEF line, at, relevant
<1> QED
  BY <1>1, <1>2, <1>3, QuietKeepsRecords DEF RecordOK

LEMMA BindRecords ==
  ASSUME TraceInv, RecordsOK, NEW p \in Pids, NEW fd \in Fds, Bind(p, fd)
  PROVE  RecordsOK'
<1> DEFINE s == Table(p)[fd]
           note == SocketNote(s)
           line == [Line EXCEPT !.sys = "bind", !.fd = fd, !.at = s, !.note = note]
           relevant == TRUE
<1>1. Writes(p, line, s, relevant) /\ leader' = leader /\ s # 0
  BY DEF Bind
<1>2. line = [f \in DOMAIN Line |-> line[f]] /\ line.sys = "bind" /\ line.at = s
  BY DEF Line
<1>3. s \in Nat
  BY TablesAre DEF TraceInv
<1> HIDE DEF line, s, relevant
<1> QED
  BY <1>1, <1>2, <1>3, QuietKeepsRecords DEF RecordOK

LEMMA Dup2Records ==
  ASSUME TraceInv, RecordsOK, NEW p \in Pids, NEW from, NEW to, Dup2(p, from, to)
  PROVE  RecordsOK'
<1> DEFINE line == [Line EXCEPT !.sys = "dup2", !.fd = from, !.target = to]
           at == 0
           relevant == FALSE
<1>1. Writes(p, line, at, relevant) /\ leader' = leader
  BY DEF Dup2
<1>2. line = [f \in DOMAIN Line |-> line[f]] /\ line.sys = "dup2" /\ line.at = at
  BY DEF Line
<1>3. line.at \in Nat /\ line.at = 0
  BY <1>2
<1> HIDE DEF line, at, relevant
<1> QED
  BY <1>1, <1>2, <1>3, QuietKeepsRecords DEF RecordOK

LEMMA CloseAllRecords ==
  ASSUME TraceInv, RecordsOK, NEW p \in Pids, NEW flags, CloseAll(p, flags)
  PROVE  RecordsOK'
<1> DEFINE line == [Line EXCEPT !.sys = "close_range", !.flags = flags]
           at == 0
           relevant == FALSE
<1>1. Writes(p, line, at, relevant) /\ leader' = leader
  BY DEF CloseAll
<1>2. line = [f \in DOMAIN Line |-> line[f]] /\ line.sys = "close_range" /\ line.at = at
  BY DEF Line
<1>3. line.at \in Nat /\ line.at = 0
  BY <1>2
<1> HIDE DEF line, at, relevant
<1> QED
  BY <1>1, <1>2, <1>3, QuietKeepsRecords DEF RecordOK

LEMMA ReceiveRecords ==
  ASSUME TraceInv, RecordsOK, NEW p \in Pids, NEW s, NEW fd, Receive(p, s, fd)
  PROVE  RecordsOK'
<1> DEFINE line == [Line EXCEPT !.sys = "recvmsg",
                             !.note = [NoNote EXCEPT !.family = "unix"]]
           at == 0
           relevant == FALSE
<1>1. Writes(p, line, at, relevant) /\ leader' = leader
  BY DEF Receive
<1>2. line = [f \in DOMAIN Line |-> line[f]] /\ line.sys = "recvmsg" /\ line.at = at
  BY DEF Line
<1>3. line.at \in Nat /\ line.at = 0
  BY <1>2
<1> HIDE DEF line, at, relevant
<1> QED
  BY <1>1, <1>2, <1>3, QuietKeepsRecords DEF RecordOK

LEMMA ExecveRecords ==
  ASSUME TraceInv, RecordsOK, NEW p \in Pids, NEW closed, Execve(p, closed)
  PROVE  RecordsOK'
<1> DEFINE line == [Line EXCEPT !.sys = "execve", !.text = "absolute",
                            !.where = "outside"]
           at == 0
           relevant == TRUE
<1>1. Writes(p, line, at, relevant) /\ leader' = leader
  BY DEF Execve
<1>2. line = [f \in DOMAIN Line |-> line[f]] /\ line.sys = "execve" /\ line.at = at
  BY DEF Line
<1>3. line.at \in Nat /\ line.at = 0
  BY <1>2
<1> HIDE DEF line, at, relevant
<1> QED
  BY <1>1, <1>2, <1>3, QuietKeepsRecords DEF RecordOK

LEMMA ExitRecords ==
  ASSUME TraceInv, RecordsOK, NEW p \in Pids, Exit(p)
  PROVE  RecordsOK'
<1> DEFINE line == [Line EXCEPT !.sys = "exit_group", !.outcome = "unknown"]
           at == 0
           relevant == FALSE
<1>1. Writes(p, line, at, relevant) /\ leader' = leader
  BY DEF Exit, kernelVars
<1>2. line = [f \in DOMAIN Line |-> line[f]] /\ line.sys = "exit_group" /\ line.at = at
  BY DEF Line
<1>3. line.at \in Nat /\ line.at = 0
  BY <1>2
<1> HIDE DEF line, at, relevant
<1> QED
  BY <1>1, <1>2, <1>3, QuietKeepsRecords DEF RecordOK

LEMMA CallRecords ==
  ASSUME TraceInv, RecordsOK, NEW p \in Pids, NEW line \in SingleCalls \union {Delete},
         Calls(p, line)
  PROVE  RecordsOK'
<1> DEFINE at == line.at
           relevant == Matters(line)
<1>1. Writes(p, line, at, relevant) /\ leader' = leader
  BY DEF Calls, kernelVars
<1>2. /\ line = [f \in DOMAIN Line |-> line[f]]
      /\ line.sys \notin {"clone", "listen"} /\ RecordOK(line)
  <2>1. CASE line \in SingleCalls
    BY <2>1, SingleLines DEF SingleLine, RecordOK
  <2>2. CASE line = Delete
    BY <2>2 DEF Delete, Line, RecordOK
  <2> QED BY <2>1, <2>2
<1> HIDE DEF relevant
<1> QED
  BY <1>1, <1>2, QuietKeepsRecords

(* What a listen is taken to be bound to, by the tables of the normalizer. *)
LEMMA ListenIsHeard ==
  ASSUME TraceInv, FollowOK, NEW p \in Made, NEW fd \in Fds,
         NEW s, NEW note, s = Table(p)[fd], note = SocketNote(s), s # 0,
         NEW r, r.sys = "listen", r.pid = p, r.fd = fd, r.note = note, r.at = 0,
         NEW at, at = IF sockets[s].bound THEN s ELSE 0
  PROVE  /\ EndpointAt(Now, r) \in {0, at}
         /\ ~Untold(at) => EndpointAt(Now, r) = at
<1> DEFINE T == Now
           e == Slot(T, p, fd)
           S == Entries
<1>0. p \in Pids
  BY DEF Made
<1>1. s \in 1..Len(sockets) /\ s = Slot(Kernel, p, fd) /\ s \in Nat
  <2>1. Table(p)[fd] \in 0..Len(sockets) /\ Slot(Kernel, p, fd) = Table(p)[fd]
        /\ Len(sockets) \in Nat
    BY <1>0, KernelTables, TablesAre DEF TraceInv
  <2> QED BY <2>1
<1>2. sockets[s] \in SocketType
  BY <1>1 DEF TraceInv, KernelOK
<1>3. e \in S /\ Entry(T, r, fd) = e
  <2>1. IsTables(T, S)
    BY DEF FollowOK
  <2> HIDE DEF T, S
  <2>2. Slot(T, p, fd) \in S
    BY <1>0, <2>1, TablesHold
  <2> QED BY <2>2 DEF Entry, Slot
<1>4. IsSound(e) /\ e \in [at : Nat, note : Notes]
  BY <1>3 DEF Entries
<1> HIDE DEF T, S
<1>5. CASE note.at # 0
  <2>1. note.at = s /\ sockets[s].bound
    BY <1>5 DEF SocketNote, NoNote
  <2>2. EndpointAt(T, r) = note.at
    BY <1>5 DEF EndpointAt
  <2> QED BY <2>1, <2>2 DEF T
<1>6. CASE note.at = 0
  <2>1. note = [NoNote EXCEPT !.family = sockets[s].family, !.id = s]
    BY <1>1, <1>6 DEF SocketNote, NoNote
  <2>2. note.id = s
    BY <2>1 DEF NoNote
  <2>3. EndpointAt(T, r) = FallbackAt(T, r)
    BY <1>6 DEF EndpointAt
  <2>4. FallbackAt(T, r) = IF e # Unbound /\ Compatible(e, note) THEN e.at ELSE 0
    BY <1>3 DEF FallbackAt
  <2>5. Compatible(e, note) <=> e.note = note
    BY <1>6 DEF Compatible
  <2>6. e.note = note => sockets[s].bound /\ e.at = s
    BY <1>4, <2>2 DEF IsSound
  <2>7. EndpointAt(T, r) \in {0, at}
    BY <2>3, <2>4, <2>5, <2>6
  <2>8. ASSUME ~Untold(at)
        PROVE  EndpointAt(T, r) = at
    <3>1. CASE ~sockets[s].bound
      BY <2>3, <2>4, <2>5, <2>6, <3>1
    <3>2. CASE sockets[s].bound
      <4>1. at = s /\ ~Untold(s)
        BY <2>8, <3>2
      <4>2. ~Opaque
        BY <4>1 DEF Opaque, Untold
      <4>3. s \in ToldSockets
        BY <1>1, <3>2, <4>1 DEF ToldSockets
      <4>4. s \in DOMAIN Known /\ Known[s] = BindEntry(s)
        BY <4>3 DEF Known
      <4>5. e = BindEntry(s)
        <5>1. Follows(Kernel, T, Made, Known)
          BY <4>2 DEF FollowOK, T
        <5> QED BY <1>1, <4>4, <5>1 DEF Follows
      <4>6. e.note = note /\ e.at = s
        BY <2>1, <4>5 DEF BindEntry
      <4>7. e # Unbound
        BY <4>6 DEF Unbound
      <4> QED BY <2>3, <2>4, <2>5, <4>1, <4>6, <4>7
    <3> QED BY <3>1, <3>2
  <2> QED BY <2>7, <2>8 DEF T
<1> QED
  BY <1>5, <1>6

LEMMA ListenRecords ==
  ASSUME TraceInv, FollowOK, RecordsOK, NEW p \in Pids, NEW fd \in Fds, Listen(p, fd)
  PROVE  RecordsOK'
<1>1. PICK s, note, at : /\ s = Table(p)[fd] /\ note = SocketNote(s)
                         /\ at = IF sockets[s].bound THEN s ELSE 0
  OBVIOUS
<1> DEFINE line == [Line EXCEPT !.sys = "listen", !.fd = fd, !.note = note]
           r == [line EXCEPT !.pid = p]
           relevant == TRUE
<1>2. Writes(p, line, at, relevant) /\ leader' = leader /\ s # 0
  BY <1>1 DEF Listen, kernelVars
<1>3. PICK f0 : f0 = Fact(p, line, at, relevant)
  OBVIOUS
<1>4. /\ r.pid = p /\ r.sys = line.sys /\ r.outcome = line.outcome
      /\ r.where = line.where /\ r.where2 = line.where2
      /\ r.note = line.note /\ r.at = line.at /\ r.target = line.target
      /\ line.sys = "listen" /\ line.at = 0 /\ r.fd = fd /\ r.note = note
  BY DEF Line
<1>5. p \in Made /\ trace' = Append(trace, r)
  BY <1>2, WritesLine
<1>6. f0.line = Len(trace) + 1 /\ f0.at = at
  BY <1>3 DEF Fact
<1> HIDE DEF line, r, relevant
<1>7. IsLineOf(r, line, p)
  BY <1>4 DEF IsLineOf, RecordOK
<1>8. EndpointAt(Now, r) \in {0, at} /\ (~Untold(at) => EndpointAt(Now, r) = at)
  BY <1>1, <1>2, <1>4, <1>5, ListenIsHeard
<1>9. Heard(f0)'
  <2> DEFINE n == Len(trace)
  <2>1. n \in Nat /\ trace'[n + 1] = r
    BY <1>5, TraceAppended
  <2>2. StateAt(trace', Pids, Fds, n) = Now
    <3>1. PICK S : trace \in Seq(S)
      BY DEF TraceInv, TracedOK
    <3>2. SameStates(trace, trace', Pids, Fds)
      BY <1>5, <3>1, StateAppended
    <3>3. n \in 0..Len(trace)
      BY <2>1
    <3> QED BY <3>2, <3>3 DEF SameStates, Now
  <2>3. Untold(at) => Untold(at)'
    BY <1>5, LineTells
  <2>4. f0.line - 1 = n /\ trace'[f0.line] = r
    BY <1>6, <2>1
  <2> HIDE DEF n
  <2>5. EndpointAt(StateAt(trace', Pids, Fds, f0.line - 1), trace'[f0.line])
          = EndpointAt(Now, r)
    BY <2>2, <2>4
  <2> QED BY <1>6, <1>8, <2>3, <2>5 DEF Heard
<1> QED
  BY <1>2, <1>3, <1>4, <1>5, <1>7, <1>9, LineKeepsRecords DEF RecordsOK

(* Nothing that the kernel did or strace wrote changes.                    *)
LEMMA SameFollows ==
  ASSUME FollowOK, UNCHANGED <<leader, tableOf, fds, sockets, trace>>
  PROVE  FollowOK' /\ \A s : Untold(s)' <=> Untold(s)
<1>1. Now' = Now /\ Made' = Made /\ Kernel' = Kernel
  BY DEF Now, Made, Kernel
<1>2. Opaque' <=> Opaque
  BY DEF Opaque
<1>3. Copied' <=> Copied
  BY DEF Copied
<1>4. \A s : Untold(s)' <=> Untold(s)
  BY DEF Untold
<1>5. Entries' = Entries
  BY DEF Entries, IsSound
<1>6. ToldSockets' = ToldSockets
  BY <1>4 DEF ToldSockets
<1>7. Known' = Known
  BY <1>6 DEF Known, BindEntry
<1>8. FollowOK'
  BY <1>1, <1>2, <1>3, <1>5, <1>7 DEF FollowOK
<1> QED
  BY <1>4, <1>8

LEMMA SameLines ==
  ASSUME TraceInv, FollowOK, RecordsOK, UNCHANGED <<leader, tableOf, fds, sockets, trace>>,
         NEW lost, facts' = facts \union lost, \A f \in lost : f.line = 0
  PROVE  FollowOK' /\ RecordsOK'
<1>0. FollowOK' /\ \A s : Untold(s)' <=> Untold(s)
  BY SameFollows
<1>1. trace' = trace /\ leader' = leader
  OBVIOUS
<1>2. Len(trace) \in Nat
  BY DEF TraceInv, TracedOK
<1>3. FactsOK /\ OwnersOK /\ StartsOK
  BY DEF RecordsOK
<1>4. \A f \in facts' : f.line \in 0..Len(trace')
  BY <1>1, <1>2, <1>3 DEF FactsOK
<1>5. \A f, g \in facts' : f.line = g.line /\ f.line # 0 => f = g
  BY <1>3 DEF FactsOK
<1>6. ASSUME NEW i \in 1..Len(trace')
      PROVE  \E f \in facts' : f.line = i /\ Agrees(trace[i], f)'
  <2>1. PICK f \in facts : f.line = i /\ Agrees(trace[i], f)
    BY <1>1, <1>3, <1>6 DEF FactsOK
  <2>2. Agrees(trace[i], f)'
    BY <1>1, <2>1 DEF Agrees, Made
  <2> QED BY <2>1, <2>2
<1>7. ASSUME NEW f \in facts', f.line # 0, f.sys = "listen"
      PROVE  Heard(f)'
  <2>1. Heard(f)
    BY <1>3, <1>7 DEF FactsOK
  <2> QED BY <1>0, <1>1, <2>1 DEF Heard
<1>8. FactsOK'
  BY <1>4, <1>5, <1>6, <1>7 DEF FactsOK
<1>9. OwnersOK' /\ StartsOK'
  BY <1>3 DEF OwnersOK, StartsOK, Made
<1> QED
  BY <1>0, <1>8, <1>9 DEF RecordsOK

LEMMA StopRecords ==
  ASSUME TraceInv, FollowOK, RecordsOK, NEW broken, NEW lost, TraceStops(broken, lost),
         IsLost(lost)
  PROVE  FollowOK' /\ RecordsOK'
BY SameLines DEF TraceStops, kernelVars, IsLost

LEMMA SameRecords ==
  ASSUME TraceInv, FollowOK, RecordsOK, UNCHANGED <<kernelVars, facts, trace>>
  PROVE  FollowOK' /\ RecordsOK'
<1> DEFINE lost == {}
<1>1. facts' = facts \union lost /\ \A f \in lost : f.line = 0
  OBVIOUS
<1>2. UNCHANGED <<leader, tableOf, fds, sockets, trace>>
  BY DEF kernelVars
<1> HIDE DEF lost
<1> QED
  BY <1>1, <1>2, SameLines

-----------------------------------------------------------------------------
(* The lines that make a thread or a process.                              *)
LEMMA CloneStarts ==
  ASSUME TraceInv, OwnersOK, StartsOK, NEW p \in Made, NEW child \in Pids, NEW made,
         leader[child] = 0, leader' = [leader EXCEPT ![child] = made],
         NEW r, trace' = Append(trace, r), r.pid = p, r.target = child, r.sys = "clone",
         \/ StartsThread(r) /\ ~StartsProcess(r) /\ made = leader[p]
         \/ StartsProcess(r) /\ ~StartsThread(r) /\ made = child
  PROVE  OwnersOK' /\ StartsOK'
<1> DEFINE n == Len(trace)
<1>1. /\ n \in Nat /\ Len(trace') = n + 1 /\ trace'[n + 1] = r
      /\ \A i \in 1..n : trace'[i] = trace[i]
      /\ trace' # <<>>
  BY TraceAppended
<1>2. /\ p \in Pids /\ leader[p] # 0 /\ p # child /\ child # 1 /\ child # 0 /\ 1 \in Pids
      /\ leader \in [Pids -> 0..NumPids]
  <2>1. leader \in [Pids -> 0..NumPids]
    BY DEF TraceInv, KernelOK
  <2>2. leader[1] = 1 /\ child \in 1..NumPids /\ child \in Nat /\ NumPids \in Nat
    BY TraceAssumption DEF StartsOK, Pids
  <2>3. child # 0 /\ child # 1
    BY <2>2
  <2>4. 1 \in Pids
    BY <2>2, <2>3, TraceAssumption DEF Pids
  <2> QED BY <2>1, <2>3, <2>4 DEF Made
<1>3. /\ leader'[child] = made
      /\ \A q \in Pids \ {child} : leader'[q] = leader[q]
  BY <1>2
<1>4. made # 0
  BY <1>2
<1>5. OwnersOK'
  <2> DEFINE owner == OwnersOf(trace, Pids)
             new == OwnersOf(trace', Pids)
  <2>1. new = OwnerAfter(owner, r)
    <3>1. PICK S : trace \in Seq(S)
      BY DEF TraceInv, TracedOK
    <3>2. OwnersOf(Append(trace, r), Pids) = OwnerAfter(OwnersOf(trace, Pids), r)
      BY <3>1, OwnersAppended
    <3> QED BY <3>2
  <2>2. owner = [q \in Pids |-> IF leader[q] = 0 THEN q ELSE leader[q]]
    BY DEF OwnersOK
  <2> HIDE DEF owner, new
  <2>3. new = [owner EXCEPT ![child] = made]
    <3>1. owner[p] = leader[p]
      BY <1>2, <2>2
    <3> QED BY <2>1, <3>1 DEF OwnerAfter
  <2>4. new = [q \in Pids |-> IF leader'[q] = 0 THEN q ELSE leader'[q]]
    BY <1>2, <1>3, <1>4, <2>2, <2>3
  <2> QED BY <2>4 DEF OwnersOK, new
<1>6. \A i \in 1..n : StartsProcess(trace[i]) =>
        /\ trace[i].target \in Pids \ {1, child}
        /\ leader'[trace[i].target] = trace[i].target
  <2> SUFFICES ASSUME NEW i \in 1..n, StartsProcess(trace[i])
               PROVE  /\ trace[i].target \in Pids \ {1, child}
                      /\ leader'[trace[i].target] = trace[i].target
    OBVIOUS
  <2>1. trace[i].target \in Pids \ {1} /\ leader[trace[i].target] = trace[i].target
    BY DEF StartsOK
  <2>2. trace[i].target # child
    BY <1>2, <2>1
  <2> QED BY <1>3, <2>1, <2>2
<1>7. \A i \in 1..Len(trace') : i = n + 1 \/ (i \in 1..n /\ trace'[i] = trace[i])
  BY <1>1
<1>8. n + 1 \in 1..Len(trace') /\ \A i \in 1..n : i \in 1..Len(trace')
  BY <1>1
<1>9. trace'[1].pid = 1
  BY FirstLine
<1>10. ASSUME NEW i \in 1..Len(trace'), NEW j \in 1..Len(trace'),
              StartsProcess(trace'[i]), StartsProcess(trace'[j]),
              trace'[i].target = trace'[j].target
       PROVE  i = j
  <2>1. i \in 1..n /\ j \in 1..n => trace[i].target = trace[j].target
                                    /\ StartsProcess(trace[i]) /\ StartsProcess(trace[j])
    BY <1>1, <1>10
  <2>2. i \in 1..n /\ j \in 1..n => i = j
    BY <2>1 DEF StartsOK
  <2> HIDE DEF n
  <2> QED BY <1>1, <1>6, <1>7, <1>10, <2>2
<1>11. ASSUME NEW i \in 1..Len(trace'), StartsProcess(trace'[i])
       PROVE  trace'[i].target \in Pids \ {1}
              /\ leader'[trace'[i].target] = trace'[i].target
  <2>1. CASE i = n + 1
    BY <1>1, <1>2, <1>3, <1>11, <2>1
  <2>2. CASE i \in 1..n /\ trace'[i] = trace[i]
    BY <1>6, <1>11, <2>2
  <2> QED BY <1>7, <2>1, <2>2
<1>12. ASSUME NEW q \in Pids, leader'[q] \notin {0, 1}
       PROVE  \E i \in 1..Len(trace') : StartsProcess(trace'[i])
                                        /\ trace'[i].target = leader'[q]
  <2>1. ASSUME NEW x \in Pids, leader[x] \notin {0, 1}
        PROVE  \E i \in 1..Len(trace') : StartsProcess(trace'[i])
                                        /\ trace'[i].target = leader[x]
    <3>1. PICK i \in 1..n : StartsProcess(trace[i]) /\ trace[i].target = leader[x]
      BY <2>1 DEF StartsOK
    <3> QED BY <1>1, <1>8, <3>1
  <2>2. CASE q # child
    BY <1>3, <1>12, <2>1, <2>2
  <2>3. CASE q = child /\ made = leader[p]
    BY <1>2, <1>3, <1>12, <2>1, <2>3
  <2>4. CASE q = child /\ StartsProcess(r) /\ made = child
    BY <1>1, <1>3, <1>8, <2>4
  <2> QED BY <2>2, <2>3, <2>4
<1>13. leader'[1] = 1
  BY <1>2, <1>3 DEF StartsOK
<1> HIDE DEF n
<1>14. StartsOK'
  BY <1>1, <1>9, <1>10, <1>11, <1>12, <1>13 DEF StartsOK
<1> QED
  BY <1>5, <1>14

LEMMA CloneRecords ==
  ASSUME TraceInv, RecordsOK, NEW p \in Pids, NEW child \in Pids,
         NEW flags \in CloneFlags, Clone(p, child, flags)
  PROVE  RecordsOK'
<1> DEFINE line == [Line EXCEPT !.sys = "clone", !.flags = flags, !.target = child]
           r == [line EXCEPT !.pid = p]
           relevant == FALSE
           made == IF "CLONE_THREAD" \in flags THEN leader[p] ELSE child
<1>1. /\ Writes(p, line, child, relevant) /\ leader[child] = 0
      /\ leader' = [leader EXCEPT ![child] = made]
  BY DEF Clone
<1>2. PICK f0 : f0 = Fact(p, line, child, relevant)
  OBVIOUS
<1>3. /\ r.pid = p /\ r.sys = line.sys /\ r.outcome = line.outcome
      /\ r.where = line.where /\ r.where2 = line.where2
      /\ r.note = line.note /\ r.at = line.at /\ r.target = line.target
      /\ line.sys = "clone" /\ line.at = 0 /\ r.target = child
      /\ r.outcome = "succeeded" /\ r.flags = flags
  BY DEF Line
<1>4. p \in Made /\ trace' = Append(trace, r)
  BY <1>1, WritesLine
<1> HIDE DEF line, r, relevant
<1>5. IsLineOf(r, line, p)
  BY <1>3 DEF IsLineOf, RecordOK
<1>6. \/ StartsThread(r) /\ ~StartsProcess(r) /\ made = leader[p]
      \/ StartsProcess(r) /\ ~StartsThread(r) /\ made = child
  BY <1>3 DEF StartsThread, StartsProcess, Succeeded, Forks
<1>7. FactsOK /\ OwnersOK /\ StartsOK
  BY DEF RecordsOK
<1>8. OwnersOK' /\ StartsOK'
  <2> HIDE DEF made
  <2> QED BY <1>1, <1>3, <1>4, <1>6, <1>7, CloneStarts
<1>9. \A q \in Made : q \in Made' /\ leader'[q] = leader[q]
  BY <1>1 DEF Made, TraceInv, KernelOK
<1>10. FactsOK'
  BY <1>1, <1>2, <1>3, <1>4, <1>5, <1>7, <1>9, FactsKept
<1> QED
  BY <1>8, <1>10 DEF RecordsOK

LEMMA InitRecords == TraceInit => RecordsOK
<1> SUFFICES ASSUME TraceInit PROVE RecordsOK
  OBVIOUS
<1>1. /\ trace = <<>> /\ Len(trace) = 0 /\ facts = {} /\ sockets = <<>>
      /\ leader = [p \in Pids |-> IF p = 1 THEN 1 ELSE 0]
  BY DEF TraceInit
<1>2. FactsOK
  BY <1>1 DEF FactsOK
<1>3. OwnersOK
  <2>1. OwnersOf(trace, Pids) = [p \in Pids |-> p]
    <3>1. DOMAIN trace = 1..0 /\ 0 \in Nat
      BY <1>1
    <3>2. OwnersOf(trace, Pids) = FoldOn(OwnersFold(trace, Pids), 1..0)
      BY <3>1, OwnersAreFold
    <3>3. OwnersFold(trace, Pids).fold \in LeftFolds
          /\ OwnersFold(trace, Pids).start = [p \in Pids |-> p]
      BY DEF OwnersFold, LeftFolds
    <3>4. FoldOn(OwnersFold(trace, Pids), 1..0) = OwnersFold(trace, Pids).start
      <4> DEFINE t == OwnersFold(trace, Pids)
      <4>1. t.fold \in LeftFolds
        BY <3>3
      <4> HIDE DEF t
      <4> QED BY <3>1, <4>1, LeftUnfolds DEF t
    <3> QED BY <3>2, <3>3, <3>4
  <2>2. [p \in Pids |-> p] = [p \in Pids |-> IF leader[p] = 0 THEN p ELSE leader[p]]
    BY <1>1
  <2> QED BY <2>1, <2>2 DEF OwnersOK
<1>4. StartsOK
  <2>1. 1 \in Pids
    BY TraceAssumption DEF Pids
  <2> QED BY <1>1, <2>1 DEF StartsOK, Made
<1> QED
  BY <1>2, <1>3, <1>4 DEF RecordsOK

(* The inductive invariant of a traced tree and what is read of it.        *)
TreeInv == TraceInv /\ FollowOK /\ RecordsOK

LEMMA RareCallKeeps ==
  ASSUME TreeInv, NEW p \in Pids, RareCall(p)
  PROVE  FollowOK' /\ RecordsOK'
<1>0. TraceInv /\ FollowOK /\ RecordsOK
  BY DEF TreeInv
<1>1. ASSUME NEW from \in Fds, NEW to \in Fds, Dup2(p, from, to)
      PROVE  FollowOK' /\ RecordsOK'
  BY <1>0, <1>1, Dup2Follows, Dup2Records
<1>2. ASSUME NEW flags, CloseAll(p, flags)
      PROVE  FollowOK' /\ RecordsOK'
  BY <1>0, <1>2, CloseAllFollows, CloseAllRecords
<1>3. ASSUME NEW s \in DOMAIN sockets, NEW fd \in Fds, Receive(p, s, fd)
      PROVE  FollowOK' /\ RecordsOK'
  BY <1>0, <1>3, ReceiveFollows, ReceiveRecords
<1>4. ASSUME NEW closed, Execve(p, closed)
      PROVE  FollowOK' /\ RecordsOK'
  BY <1>0, <1>4, ExecveFollows, ExecveRecords
<1>5. ASSUME NEW fd \in Fds, NEW outcome, Close(p, fd, outcome)
      PROVE  FollowOK' /\ RecordsOK'
  BY <1>0, <1>5, CloseFollows, CloseRecords
<1> QED
  BY <1>1, <1>2, <1>3, <1>4, <1>5 DEF RareCall

LEMMA TreeNextKeeps == TreeInv /\ [TraceNext]_traceVars => TreeInv'
<1> SUFFICES ASSUME TreeInv, [TraceNext]_traceVars
             PROVE  TreeInv'
  OBVIOUS
<1>0. TraceInv /\ FollowOK /\ RecordsOK /\ TraceInv'
  BY TraceNextKeeps DEF TreeInv
<1> SUFFICES FollowOK' /\ RecordsOK'
  BY <1>0 DEF TreeInv
<1>1. ASSUME NEW p \in Pids, NEW child \in Pids, NEW flags \in CloneFlags,
             Clone(p, child, flags)
      PROVE  FollowOK' /\ RecordsOK'
  BY <1>0, <1>1, CloneFollows, CloneRecords
<1>2. ASSUME NEW p \in Pids, NEW family \in {"unix", "tcp"}, NEW fd \in Fds,
             MakeSocket(p, family, fd)
      PROVE  FollowOK' /\ RecordsOK'
  BY <1>0, <1>2, MakeSocketFollows, MakeSocketRecords DEF Family
<1>3. ASSUME NEW p \in Pids, NEW fd \in Fds, Bind(p, fd)
      PROVE  FollowOK' /\ RecordsOK'
  BY <1>0, <1>3, BindFollows, BindRecords
<1>4. ASSUME NEW p \in Pids, NEW fd \in Fds, Listen(p, fd)
      PROVE  FollowOK' /\ RecordsOK'
  BY <1>0, <1>4, ListenFollows, ListenRecords
<1>5. ASSUME NEW p \in Pids, NEW fd \in Fds, NEW outcome, Close(p, fd, outcome)
      PROVE  FollowOK' /\ RecordsOK'
  BY <1>0, <1>5, CloseFollows, CloseRecords
<1>6. ASSUME NEW p \in Pids, SingleCall(p)
      PROVE  FollowOK' /\ RecordsOK'
  <2>1. PICK line \in SingleCalls : trace = <<>> /\ Calls(p, line)
    BY <1>6 DEF SingleCall
  <2>2. sockets = <<>>
    BY <1>0, <2>1 DEF RecordsOK, StartsOK
  <2>3. FollowOK'
    BY <1>0, <2>1, <2>2, SingleCallFollows
  <2>4. RecordsOK'
    BY <1>0, <2>1, CallRecords
  <2> QED BY <2>3, <2>4
<1>7. ASSUME NEW p \in Pids, Calls(p, Delete)
      PROVE  FollowOK' /\ RecordsOK'
  BY <1>0, <1>7, DeleteFollows, CallRecords
<1>8. ASSUME NEW p \in Pids, RareCall(p)
      PROVE  FollowOK' /\ RecordsOK'
  BY <1>8, RareCallKeeps
<1>9. ASSUME NEW p \in Pids, Exit(p)
      PROVE  FollowOK' /\ RecordsOK'
  BY <1>0, <1>9, ExitFollows, ExitRecords
<1>10. ASSUME TraceEnds
       PROVE  FollowOK' /\ RecordsOK'
  <2> DEFINE broken == FALSE
             lost == {}
  <2>1. TraceStops(broken, lost) /\ IsLost(lost)
    BY <1>10 DEF TraceEnds, IsLost
  <2> HIDE DEF broken, lost
  <2> QED BY <1>0, <2>1, StopRecords
<1>11. ASSUME TraceKilled
       PROVE  FollowOK' /\ RecordsOK'
  <2>1. PICK p \in Pids :
          /\ Live(p)
          /\ \/ TraceStops(FALSE, {}) \/ TraceStops(TRUE, {})
             \/ TraceStops(FALSE, {LostCall(p)})
    BY <1>11 DEF TraceKilled
  <2>2. LostCall(p).line = 0
    BY DEF LostCall, Fact
  <2>3. IsLost({}) /\ IsLost({LostCall(p)})
    BY <2>1, <2>2 DEF IsLost
  <2>4. PICK broken \in BOOLEAN, lost \in {{}, {LostCall(p)}} : TraceStops(broken, lost)
    BY <2>1
  <2>5. IsLost(lost)
    BY <2>3
  <2> QED BY <1>0, <2>4, <2>5, StopRecords
<1>12. CASE Normalized \/ UNCHANGED traceVars
  <2>1. UNCHANGED <<kernelVars, facts, trace>>
    BY <1>12 DEF Normalized, traceVars
  <2> QED BY <1>0, <2>1, SameRecords
<1> QED
  BY <1>1, <1>2, <1>3, <1>4, <1>5, <1>6, <1>7, <1>8, <1>9, <1>10, <1>11, <1>12
     DEF TraceNext

-----------------------------------------------------------------------------
(* What is read of the trace.                                              *)

(* The fact of a line, and the process that owns it.                       *)
LEMMA FactOfLine ==
  ASSUME TreeInv, NEW i \in 1..Len(trace)
  PROVE  /\ FactAt(i) \in facts /\ FactAt(i).line = i /\ Agrees(trace[i], FactAt(i))
         /\ trace[i].pid \in Made
         /\ OwnersOf(trace, Pids)[trace[i].pid] = FactAt(i).process
         /\ FactAt(i).process # 0
<1>1. FactsOK /\ OwnersOK /\ TraceInv
  BY DEF TreeInv, RecordsOK
<1>2. PICK f \in facts : f.line = i /\ Agrees(trace[i], f)
  BY <1>1 DEF FactsOK
<1>3. i # 0
  <2>1. Len(trace) \in Nat
    BY <1>1 DEF TraceInv, TracedOK
  <2> QED BY <2>1
<1>4. FactAt(i) = f
  <2>1. \A g \in facts : g.line = i <=> g = f
    BY <1>1, <1>2, <1>3 DEF FactsOK
  <2> QED BY <2>1 DEF FactAt
<1> DEFINE q == trace[i].pid
<1>5. q \in Made /\ f.process = leader[q]
  BY <1>2 DEF Agrees
<1> HIDE DEF q
<1>6. OwnersOf(trace, Pids)[q] = leader[q] /\ leader[q] # 0
  BY <1>1, <1>5 DEF OwnersOK, Made
<1> QED
  BY <1>2, <1>4, <1>5, <1>6 DEF q

(* What an event says of its line.                                         *)
Faithful(e) ==
  LET f == FactAt(e.line) IN
  CASE e.kind = "process.start" /\ e.at # 0 ->
         f.sys = "clone" /\ e.process = f.at /\ e.at = f.process
    [] e.kind = "process.start" /\ e.at = 0 -> e.process = 1
    [] e.kind = "network.listen" /\ f.sys = "listen" ->
         /\ e.process = f.process /\ e.at \in {0, f.at}
         /\ Untold(f.at) \/ e.at = f.at
    [] OTHER -> /\ e.process = f.process /\ e.outcome = f.outcome
                /\ e.place \in f.places \union {"none"}
                /\ e.at = f.at

LEMMA EffectFaithful ==
  ASSUME TreeInv, NEW i \in 1..Len(trace), NEW e, FromEffect(e, trace, Pids, Fds, i)
  PROVE  Faithful(e) /\ e.kind # "process.start"
<1> DEFINE r == trace[i]
           f == FactAt(i)
           owner == OwnersOf(trace, Pids)
           state == StateAt(trace, Pids, Fds, i - 1)
           after == Maintain(state, r, Closed(Fds))
<1>1. PICK ef \in EffectsOf(after, r, owner) : e = EffectEvent(i, r, owner, ef)
  BY DEF FromEffect
<1>2. /\ f \in facts /\ f.line = i /\ Agrees(r, f) /\ r.pid \in Made
      /\ owner[r.pid] = f.process
  BY FactOfLine
<1> HIDE DEF owner, after, f, r
<1>3. /\ e.line = i /\ e.kind = ef.kind /\ e.process = f.process /\ e.at = ef.at
      /\ e.place = ef.place /\ e.outcome = r.outcome
  BY <1>1, <1>2 DEF EffectEvent
<1>4. FactAt(e.line) = f
  BY <1>3 DEF f
<1>5. CASE r.sys # "listen"
  <2>1. /\ ef.kind # "process.start" /\ ef.at = r.at
        /\ ef.place \in {r.where, r.note.place, "none"}
        /\ r.sys # "clone"
    BY <1>2, <1>5, EffectRight DEF Agrees
  <2>2. /\ f.at = r.at /\ f.sys = r.sys /\ f.outcome = r.outcome
        /\ f.places = {r.where, r.where2, r.note.place} \ {"none"}
    BY <1>2, <1>5, <2>1 DEF Agrees
  <2>3. e.place \in f.places \union {"none"}
    BY <1>3, <2>1, <2>2
  <2>4. Faithful(e)
    BY <1>3, <1>4, <1>5, <2>1, <2>2, <2>3 DEF Faithful
  <2> QED BY <1>3, <2>1, <2>4
<1>6. CASE r.sys = "listen"
  <2>1. ef.kind = "network.listen" /\ ef.at = EndpointAt(after, r)
    BY <1>6, ListenEffect
  <2>2. after = state
    BY <1>6, AfterOther DEF after
  <2>3. f.sys = "listen"
    BY <1>2, <1>6 DEF Agrees
  <2>4. Heard(f)
    <3>1. i # 0
      <4>1. Len(trace) \in Nat
        BY DEF TreeInv, TraceInv, TracedOK
      <4> QED BY <4>1
    <3> QED BY <1>2, <2>3, <3>1 DEF TreeInv, RecordsOK, FactsOK
  <2>5. e.at \in {0, f.at} /\ (Untold(f.at) \/ e.at = f.at)
    BY <1>2, <1>3, <2>1, <2>2, <2>4 DEF Heard, r
  <2>6. Faithful(e)
    BY <1>3, <1>4, <2>1, <2>3, <2>5 DEF Faithful
  <2> QED BY <1>3, <2>1, <2>6
<1> QED
  BY <1>5, <1>6

(* The start of a child, and of the first process.                         *)
LEMMA ChildFaithful ==
  ASSUME TreeInv, NEW e \in ChildStarts(trace, OwnersOf(trace, Pids))
  PROVE  /\ Faithful(e) /\ e.kind = "process.start"
         /\ \E i \in 1..Len(trace) :
              /\ StartsProcess(trace[i]) /\ e.process = trace[i].target
              /\ e = StartEvent(i, trace[i].target, OwnersOf(trace, Pids)[trace[i].pid])
<1> DEFINE owner == OwnersOf(trace, Pids)
<1>0. DOMAIN trace = 1..Len(trace)
  BY DEF TreeInv, TraceInv, TracedOK
<1>1. PICK i \in 1..Len(trace) :
        /\ StartsProcess(trace[i])
        /\ e = StartEvent(i, trace[i].target, owner[trace[i].pid])
  BY <1>0 DEF ChildStarts
<1> DEFINE r == trace[i]
           f == FactAt(i)
<1>2. /\ Agrees(r, f) /\ owner[r.pid] = f.process /\ f.process # 0
  BY FactOfLine
<1>3. r.sys = "clone"
  BY <1>1 DEF StartsProcess, Forks
<1>4. f.sys = "clone" /\ f.at = r.target
  BY <1>2, <1>3 DEF Agrees
<1>5. /\ e.line = i /\ e.kind = "process.start" /\ e.process = r.target
      /\ e.at = f.process
  BY <1>1, <1>2 DEF StartEvent
<1>6. FactAt(e.line) = f
  BY <1>5
<1> HIDE DEF f, r
<1>7. Faithful(e)
  BY <1>2, <1>4, <1>5, <1>6 DEF Faithful
<1> QED
  BY <1>1, <1>5, <1>7 DEF r

LEMMA RootFaithful ==
  ASSUME TreeInv, NEW e \in RootStarts(trace, OwnersOf(trace, Pids))
  PROVE  Faithful(e) /\ e.kind = "process.start" /\ e.process = 1
<1> DEFINE owner == OwnersOf(trace, Pids)
           owners == {owner[trace[i].pid] : i \in DOMAIN trace}
           children == {d.process : d \in ChildStarts(trace, owner)}
           First(p) == CHOOSE i \in DOMAIN trace :
                         /\ owner[trace[i].pid] = p
                         /\ \A j \in 1..(i - 1) : owner[trace[j].pid] # p
<1>0. DOMAIN trace = 1..Len(trace)
  BY DEF TreeInv, TraceInv, TracedOK
<1>1. PICK p \in owners \ children : e = StartEvent(First(p), p, 0)
  BY DEF RootStarts
<1>2. e.kind = "process.start" /\ e.process = p /\ e.at = 0
  BY <1>1 DEF StartEvent
<1>3. p = 1
  <2> SUFFICES ASSUME p # 1 PROVE FALSE
    OBVIOUS
  <2>1. PICK i \in 1..Len(trace) : p = owner[trace[i].pid]
    BY <1>0, <1>1
  <2>2. trace[i].pid \in Made /\ p = leader[trace[i].pid]
    <3>1. Agrees(trace[i], FactAt(i)) /\ p = FactAt(i).process
      BY <2>1, FactOfLine
    <3> QED BY <3>1 DEF Agrees
  <2>3. leader[trace[i].pid] \notin {0, 1} /\ trace[i].pid \in Pids
    BY <2>2 DEF Made
  <2>4. PICK j \in 1..Len(trace) : StartsProcess(trace[j]) /\ trace[j].target = p
    BY <2>2, <2>3 DEF TreeInv, RecordsOK, StartsOK
  <2> DEFINE d == StartEvent(j, trace[j].target, owner[trace[j].pid])
  <2>5. d \in ChildStarts(trace, owner) /\ d.process = p
    BY <1>0, <2>4 DEF ChildStarts, StartEvent
  <2> HIDE DEF d
  <2>6. p \in children
    BY <2>5
  <2> QED BY <1>1, <2>6
<1>4. Faithful(e)
  BY <1>2, <1>3 DEF Faithful
<1> QED
  BY <1>2, <1>3, <1>4

LEMMA ReadIsFaithful ==
  ASSUME TreeInv, tracing = "read", NEW e \in events
  PROVE  /\ Faithful(e)
         /\ e.kind = "process.start" =>
              \/ e \in ChildStarts(trace, OwnersOf(trace, Pids))
              \/ e \in RootStarts(trace, OwnersOf(trace, Pids))
<1>1. events = EventsOf(trace, Pids, Fds)
  BY DEF TreeInv, TraceInv, TracedOK
<1>2. Len(trace) \in Nat /\ DOMAIN trace = 1..Len(trace)
  BY DEF TreeInv, TraceInv, TracedOK
<1>3. \/ e \in ChildStarts(trace, OwnersOf(trace, Pids))
      \/ e \in RootStarts(trace, OwnersOf(trace, Pids))
      \/ \E i \in 1..Len(trace) : FromEffect(e, trace, Pids, Fds, i)
  BY <1>1, <1>2, EventFrom
<1> QED
  BY <1>3, ChildFaithful, RootFaithful, EffectFaithful

LEMMA StartIsEvent ==
  ASSUME TreeInv, tracing = "read"
  PROVE  /\ ChildStarts(trace, OwnersOf(trace, Pids)) \subseteq events
         /\ RootStarts(trace, OwnersOf(trace, Pids)) \subseteq events
<1>1. events = EventsOf(trace, Pids, Fds)
  BY DEF TreeInv, TraceInv, TracedOK
<1>2. Len(trace) \in Nat /\ DOMAIN trace = 1..Len(trace)
  BY DEF TreeInv, TraceInv, TracedOK
<1> DEFINE n == Len(trace)
           folded == FoldOn(PassFold(trace, Pids, Fds), 1..n).events
<1>3. EventsOf(trace, Pids, Fds) =
        folded \union ChildStarts(trace, OwnersOf(trace, Pids))
          \union RootStarts(trace, OwnersOf(trace, Pids))
  <2>1. n \in Nat /\ DOMAIN trace = 1..n
    BY <1>2
  <2> HIDE DEF n
  <2> QED BY <2>1, EventsAreFold
<1> HIDE DEF n, folded
<1> QED
  BY <1>1, <1>3

StartsOf(p) == {e \in events : e.kind = "process.start" /\ e.process = p}

(* The first process is started once, at the first line.                   *)
LEMMA RootStartsOnce ==
  ASSUME TreeInv, tracing = "read", trace # <<>>
  PROVE  \E e : StartsOf(1) = {e}
<1> DEFINE owner == OwnersOf(trace, Pids)
           owners == {owner[trace[i].pid] : i \in DOMAIN trace}
           children == {d.process : d \in ChildStarts(trace, owner)}
           First(p) == CHOOSE i \in DOMAIN trace :
                         /\ owner[trace[i].pid] = p
                         /\ \A j \in 1..(i - 1) : owner[trace[j].pid] # p
           e == StartEvent(First(1), 1, 0)
<1>0. Len(trace) \in Nat /\ DOMAIN trace = 1..Len(trace)
  BY DEF TreeInv, TraceInv, TracedOK
<1>1. StartsOK /\ TraceInv
  BY DEF TreeInv, RecordsOK
<1>2. 1 \in 1..Len(trace)
  <2>1. PICK S : trace \in Seq(S)
    BY <1>1 DEF TraceInv, TracedOK
  <2>2. Len(trace) # 0
    BY <2>1
  <2> QED BY <1>0, <2>2
<1>3. 1 \in owners
  <2>1. Agrees(trace[1], FactAt(1)) /\ owner[trace[1].pid] = FactAt(1).process
    BY <1>2, FactOfLine
  <2>2. trace[1].pid = 1 /\ leader[1] = 1
    BY <1>1 DEF StartsOK
  <2>3. owner[trace[1].pid] = 1
    BY <2>1, <2>2 DEF Agrees
  <2> QED BY <1>0, <1>2, <2>3
<1>4. 1 \notin children
  <2> SUFFICES ASSUME NEW d \in ChildStarts(trace, owner) PROVE d.process # 1
    OBVIOUS
  <2>1. PICK i \in 1..Len(trace) : StartsProcess(trace[i]) /\ d.process = trace[i].target
    BY ChildFaithful
  <2> QED BY <1>1, <2>1 DEF StartsOK
<1>5. e \in RootStarts(trace, owner)
  BY <1>3, <1>4 DEF RootStarts
<1>6. e \in events /\ e.kind = "process.start" /\ e.process = 1
  BY <1>5, StartIsEvent DEF StartEvent
<1>7. ASSUME NEW d \in StartsOf(1)
      PROVE  d = e
  <2>1. \/ d \in ChildStarts(trace, owner)
        \/ d \in RootStarts(trace, owner)
    BY <1>7, ReadIsFaithful DEF StartsOf
  <2>2. d.process = 1
    BY <1>7 DEF StartsOf
  <2>3. d \in RootStarts(trace, owner)
    BY <1>4, <2>1, <2>2
  <2>4. PICK p \in owners \ children : d = StartEvent(First(p), p, 0)
    BY <2>3 DEF RootStarts
  <2>5. p = 1
    BY <2>2, <2>4 DEF StartEvent
  <2> QED BY <2>4, <2>5
<1> HIDE DEF e
<1>8. e \in StartsOf(1)
  BY <1>6 DEF StartsOf
<1> QED
  BY <1>7, <1>8

(* Any other process is started once, by the line that made it.            *)
LEMMA ChildStartsOnce ==
  ASSUME TreeInv, tracing = "read", NEW p \in Pids, leader[p] = p, p # 1
  PROVE  \E e : StartsOf(p) = {e}
<1> DEFINE owner == OwnersOf(trace, Pids)
<1>0. DOMAIN trace = 1..Len(trace)
  BY DEF TreeInv, TraceInv, TracedOK
<1>1. StartsOK
  BY DEF TreeInv, RecordsOK
<1>2. leader[p] \notin {0, 1}
  BY DEF Pids
<1>3. PICK i \in 1..Len(trace) : StartsProcess(trace[i]) /\ trace[i].target = p
  BY <1>1, <1>2 DEF StartsOK
<1> DEFINE e == StartEvent(i, trace[i].target, owner[trace[i].pid])
<1>4. e \in ChildStarts(trace, owner)
  BY <1>0, <1>3 DEF ChildStarts
<1>5. e \in events /\ e.kind = "process.start" /\ e.process = p
  BY <1>3, <1>4, StartIsEvent DEF StartEvent
<1>6. ASSUME NEW d \in StartsOf(p)
      PROVE  d = e
  <2>1. \/ d \in ChildStarts(trace, owner)
        \/ d \in RootStarts(trace, owner)
    BY <1>6, ReadIsFaithful DEF StartsOf
  <2>2. d.process = p
    BY <1>6 DEF StartsOf
  <2>3. d \in ChildStarts(trace, owner)
    BY <2>1, <2>2, RootFaithful
  <2>4. PICK j \in 1..Len(trace) :
          /\ StartsProcess(trace[j]) /\ d.process = trace[j].target
          /\ d = StartEvent(j, trace[j].target, owner[trace[j].pid])
    BY <2>3, ChildFaithful
  <2>5. j = i
    BY <1>1, <1>3, <2>2, <2>4 DEF StartsOK
  <2> QED BY <2>4, <2>5
<1> HIDE DEF e
<1>7. e \in StartsOf(p)
  BY <1>5 DEF StartsOf
<1> QED
  BY <1>6, <1>7

(* The normalizer reads no empty trace.                                    *)
NotEmpty == tracing = "read" => trace # <<>>

LEMMA NotEmptyKept == NotEmpty /\ [TraceNext]_traceVars => NotEmpty'
<1> SUFFICES ASSUME NotEmpty, [TraceNext]_traceVars, tracing' = "read"
             PROVE  trace' # <<>>
  BY DEF NotEmpty
<1>1. ASSUME NEW p, NEW line, NEW at, NEW relevant
      PROVE  ~Writes(p, line, at, relevant)
  BY DEF Writes
<1>2. ~TraceEnds /\ ~TraceKilled
  BY DEF TraceEnds, TraceKilled, TraceStops
<1>3. \A p \in Pids : ~Exit(p)
  BY <1>1 DEF Exit
<1>4. \A p : ~RareCall(p)
  BY <1>1 DEF RareCall, Dup2, CloseAll, Receive, Execve, Close
<1>5. \A p, line : ~Calls(p, line)
  BY <1>1 DEF Calls
<1>6. \A p : ~SingleCall(p)
  BY <1>5 DEF SingleCall
<1>7. \A p, fd, outcome : ~Bind(p, fd) /\ ~Listen(p, fd) /\ ~Close(p, fd, outcome)
  BY <1>1 DEF Bind, Listen, Close
<1>8. \A p, family, fd : ~MakeSocket(p, family, fd)
  BY <1>1 DEF MakeSocket
<1>9. \A p, child, flags : ~Clone(p, child, flags)
  BY <1>1 DEF Clone
<1>10. Normalized \/ UNCHANGED traceVars
  BY <1>2, <1>3, <1>4, <1>5, <1>6, <1>7, <1>8, <1>9 DEF TraceNext
<1>11. CASE Normalized
  BY <1>11 DEF Normalized
<1>12. CASE UNCHANGED traceVars
  BY <1>12 DEF traceVars, NotEmpty
<1> QED
  BY <1>10, <1>11, <1>12

LEMMA EventsMatch == TreeInv /\ NotEmpty => EventsMatchKernel
<1> SUFFICES ASSUME TreeInv, NotEmpty, tracing = "read"
             PROVE  EventsMatchKernel
  BY DEF EventsMatchKernel
<1>1. \A e \in events : Faithful(e)
  BY ReadIsFaithful
<1>2. ASSUME NEW p \in Pids, leader[p] = p
      PROVE  Cardinality(StartsOf(p)) = 1
  <2>1. PICK e : StartsOf(p) = {e}
    BY <1>2, RootStartsOnce, ChildStartsOnce DEF NotEmpty
  <2> DEFINE S == StartsOf(p)
  <2>2. S = {e}
    BY <2>1
  <2> HIDE DEF S
  <2>3. Cardinality({e}) = 1
    BY FS_Singleton
  <2> QED BY <2>2, <2>3 DEF S
<1> QED
  BY <1>1, <1>2 DEF EventsMatchKernel, Faithful, StartsOf

(* Whatever the normalizer makes of a trace says what the kernel did: the  *)
(* process, the place, the outcome and the endpoint of each call, and one  *)
(* start of each process (strace-normalizer.ts, normalizeExperiment).      *)
THEOREM EventsMatchKernelHolds == TraceSpec => []EventsMatchKernel
<1>1. TraceInit => TreeInv /\ NotEmpty
  <2>1. TraceInit => NotEmpty
    BY DEF TraceInit, NotEmpty
  <2> QED BY <2>1, InitTraced, InitFollows, InitRecords DEF TreeInv
<1>2. (TreeInv /\ NotEmpty) /\ [TraceNext]_traceVars => (TreeInv /\ NotEmpty)'
  BY TreeNextKeeps, NotEmptyKept
<1>3. TreeInv /\ NotEmpty => EventsMatchKernel
  BY EventsMatch
<1> QED
  BY <1>1, <1>2, <1>3, PTL DEF TraceSpec

=============================================================================
