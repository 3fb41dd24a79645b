----------------------------- MODULE PlanProofs -----------------------------
(***************************************************************************)
(* Proofs about src/src/audit/v2/compile.ts and agent-proposal.ts: the     *)
(* plans of ExperimentPlan and the comparison of AgentProposals, for every *)
(* audit, every policy and every submission that meets the assumptions of  *)
(* the two modules.                                                        *)
(*                                                                         *)
(* The sums of the compiler come first, then the references of an          *)
(* argument, the order of policies, one case, the expansion of all of them *)
(* and the four parts of PlansSound, each as a lemma about an arbitrary    *)
(* audit; then the audit with further cases, the budget, the invariant of  *)
(* the comparison and ProposalsSound.                                      *)
(***************************************************************************)
EXTENDS AgentProposals, SequenceTheorems, FiniteSetTheorems, WellFoundedInduction,
        TLAPS

(* Sums.  The community modules add up a set by a recursive function on    *)
(* its subsets, which takes one element after the other.  That there is    *)
(* such a function, and only one, follows from the well-foundedness of     *)
(* strict inclusion.                                                       *)
Pick(s) == CHOOSE x \in s : TRUE

IsSum(f, S, g) ==
  g = [s \in SUBSET S |-> IF s = {} THEN 0 ELSE f[Pick(s)] + g[s \ {Pick(s)}]]

SumOn(f, S) == (CHOOSE g : IsSum(f, S, g))[S]

(* What holds of a set when it holds of every smaller one holds of every   *)
(* subset of a finite set.                                                 *)
LEMMA SubsetInduction ==
  ASSUME NEW S, IsFiniteSet(S), NEW G,
         \A T \in SUBSET S : (\A U \in SUBSET T : U # T => U \in G) => T \in G
  PROVE  \A T \in SUBSET S : T \in G
<1> SUFFICES ASSUME (SUBSET S) \ G # {}
             PROVE  FALSE
  OBVIOUS
<1>1. IsWellFoundedOn(StrictSubsetOrdering(S), SUBSET S)
  <2>1. IsWellFoundedOn(StrictSubsetOrdering(S), FiniteSubsetsOf(S))
    BY FS_StrictSubsetOrderingWellFounded
  <2>2. FiniteSubsetsOf(S) = SUBSET S
    BY FS_FiniteSubsetsOfFinite
  <2> QED
    BY <2>1, <2>2
<1> DEFINE F == (SUBSET S) \ G
<1>2. F # {} /\ F \subseteq SUBSET S
  OBVIOUS
<1> HIDE DEF F
<1>3. PICK T \in F : \A U \in F : ~ (<<U, T>> \in StrictSubsetOrdering(S))
  BY <1>1, <1>2, WFMin
<1>4. \A U \in SUBSET T : U # T => U \notin F
  BY <1>2, <1>3 DEF StrictSubsetOrdering
<1> QED
  BY <1>2, <1>3, <1>4 DEF F

(* An element is picked from the set.                                     *)
LEMMA PickIs ==
  ASSUME NEW s, s # {}
  PROVE  Pick(s) \in s
BY DEF Pick

(* The function that sums is one and only.                                *)
HasSum(f, S) == \E g : IsSum(f, S, g) /\ \A h : IsSum(f, S, h) => h = g

Cut(g, T) == [s \in SUBSET T |-> g[s]]

(* What sums the subsets of a set sums those of each of its subsets.      *)
LEMMA SumRestricted ==
  ASSUME NEW f, NEW S, NEW T \in SUBSET S, NEW g, IsSum(f, S, g)
  PROVE  IsSum(f, T, Cut(g, T))
<1> DEFINE h == [s \in SUBSET T |-> g[s]]
<1>1. ASSUME NEW s \in SUBSET T
      PROVE  h[s] = IF s = {} THEN 0 ELSE f[Pick(s)] + h[s \ {Pick(s)}]
  <2>1. s \in SUBSET S /\ s \ {Pick(s)} \in SUBSET T
    OBVIOUS
  <2>2. g[s] = IF s = {} THEN 0 ELSE f[Pick(s)] + g[s \ {Pick(s)}]
    BY <2>1 DEF IsSum
  <2> QED
    BY <2>1, <2>2
<1> HIDE DEF h
<1>2. h = [s \in SUBSET T |-> h[s]]
  BY DEF h
<1>3. h = [s \in SUBSET T |-> IF s = {} THEN 0 ELSE f[Pick(s)] + h[s \ {Pick(s)}]]
  BY <1>1, <1>2
<1> QED
  BY <1>3 DEF IsSum, h, Cut

(* There is one function that sums, and no other.                         *)
LEMMA SumExists ==
  ASSUME NEW S, IsFiniteSet(S), NEW f
  PROVE  \A T \in SUBSET S : HasSum(f, T)
<1> DEFINE G == {T \in SUBSET S : HasSum(f, T)}
<1> SUFFICES ASSUME NEW T \in SUBSET S, \A U \in SUBSET T : U # T => U \in G
             PROVE  HasSum(f, T)
  <2>1. \A T \in SUBSET S : (\A U \in SUBSET T : U # T => U \in G) => T \in G
    OBVIOUS
  <2> HIDE DEF G
  <2>2. \A T \in SUBSET S : T \in G
    BY <2>1, SubsetInduction
  <2> QED
    BY <2>2 DEF G
<1> DEFINE The(u) == CHOOSE g : IsSum(f, u, g)
           v == [s \in SUBSET T |-> IF s = {} THEN 0
                   ELSE f[Pick(s)] + The(s \ {Pick(s)})[s \ {Pick(s)}]]
<1>1. ASSUME NEW u \in SUBSET T, u # T
      PROVE  IsSum(f, u, The(u)) /\ \A h : IsSum(f, u, h) => h = The(u)
  BY <1>1 DEF HasSum
<1>2. ASSUME NEW u \in SUBSET T, u # T
      PROVE  v[u] = The(u)[u]
  <2>1. CASE u = {}
    <3>1. The(u)[u] = 0
      <4>1. IsSum(f, u, The(u))
        BY <1>1, <1>2
      <4> HIDE DEF The
      <4> QED
        BY <2>1, <4>1 DEF IsSum
    <3> QED
      BY <2>1, <3>1
  <2>2. CASE u # {}
    <3> DEFINE w == u \ {Pick(u)}
    <3>1. Pick(u) \in u
      BY <2>2, PickIs
    <3>2. w \in SUBSET T /\ w # T /\ w \in SUBSET u
      BY <1>2, <3>1
    <3>3. The(u)[u] = f[Pick(u)] + The(u)[w]
      <4>1. The(u) = [s \in SUBSET u |-> IF s = {} THEN 0
                        ELSE f[Pick(s)] + The(u)[s \ {Pick(s)}]]
        BY <1>1, <1>2 DEF IsSum
      <4> HIDE DEF The
      <4> QED
        BY <2>2, <4>1
    <3>4. The(w) = Cut(The(u), w)
      <4>1. IsSum(f, u, The(u))
        BY <1>1, <1>2
      <4> HIDE DEF The, w
      <4>2. IsSum(f, w, Cut(The(u), w))
        BY <3>2, <4>1, SumRestricted
      <4> QED
        BY <1>1, <3>2, <4>2
    <3>5. The(w)[w] = The(u)[w]
      <4> HIDE DEF The, w
      <4> QED
        BY <3>4 DEF Cut
    <3> HIDE DEF The
    <3> QED
      BY <2>2, <3>3, <3>5
  <2> QED
    BY <2>1, <2>2
<1>3. IsSum(f, T, v)
  <2>1. ASSUME NEW s \in SUBSET T
        PROVE  v[s] = IF s = {} THEN 0 ELSE f[Pick(s)] + v[s \ {Pick(s)}]
    <3>1. CASE s = {}
      BY <3>1
    <3>2. CASE s # {}
      <4>1. s \ {Pick(s)} \in SUBSET T /\ s \ {Pick(s)} # T
        BY <3>2, PickIs
      <4>2. v[s \ {Pick(s)}] = The(s \ {Pick(s)})[s \ {Pick(s)}]
        BY <1>2, <4>1
      <4>3. v[s] = f[Pick(s)] + The(s \ {Pick(s)})[s \ {Pick(s)}]
        BY <3>2
      <4> HIDE DEF v, The
      <4> QED
        BY <3>2, <4>2, <4>3
    <3> QED
      BY <3>1, <3>2
  <2>2. v = [s \in SUBSET T |-> v[s]]
    OBVIOUS
  <2> HIDE DEF v
  <2> QED
    BY <2>1, <2>2 DEF IsSum
<1>4. ASSUME NEW h, IsSum(f, T, h)
      PROVE  h = v
  <2>1. h = [s \in SUBSET T |-> IF s = {} THEN 0 ELSE f[Pick(s)] + h[s \ {Pick(s)}]]
    BY <1>4 DEF IsSum
  <2>2. ASSUME NEW s \in SUBSET T
        PROVE  h[s] = v[s]
    <3>1. CASE s = {}
      BY <2>1, <3>1
    <3>2. CASE s # {}
      <4> DEFINE w == s \ {Pick(s)}
      <4>1. w \in SUBSET T /\ w # T
        BY <3>2, PickIs
      <4>2. h[s] = f[Pick(s)] + h[w]
        BY <2>1, <3>2
      <4>3. v[s] = f[Pick(s)] + The(w)[w]
        BY <3>2
      <4> HIDE DEF w, v, The
      <4>4. IsSum(f, w, Cut(h, w))
        BY <1>4, <4>1, SumRestricted
      <4>5. Cut(h, w) = The(w)
        BY <1>1, <4>1, <4>4
      <4>6. h[w] = The(w)[w]
        BY <4>5 DEF Cut
      <4> QED
        BY <4>2, <4>3, <4>6
    <3> QED
      BY <3>1, <3>2
  <2>3. v = [s \in SUBSET T |-> v[s]]
    OBVIOUS
  <2>4. h = [s \in SUBSET T |-> h[s]]
    BY <2>1
  <2> HIDE DEF v
  <2> QED
    BY <2>2, <2>3, <2>4
<1> HIDE DEF v
<1> QED
  BY <1>3, <1>4 DEF HasSum

(* A sum takes an element, and the sum of the rest.                         *)
LEMMA SumUnfolds ==
  ASSUME NEW S, IsFiniteSet(S), NEW f
  PROVE  /\ SumOn(f, {}) = 0
         /\ S # {} => SumOn(f, S) = f[Pick(S)] + SumOn(f, S \ {Pick(S)})
<1> DEFINE The(u) == CHOOSE g : IsSum(f, u, g)
<1>1. ASSUME NEW u \in SUBSET S
      PROVE  IsSum(f, u, The(u)) /\ \A h : IsSum(f, u, h) => h = The(u)
  <2>1. HasSum(f, u)
    BY SumExists
  <2> QED
    BY <2>1 DEF HasSum
<1>2. The({})[{}] = 0
  <2>1. IsSum(f, {}, The({}))
    BY <1>1
  <2> HIDE DEF The
  <2> QED
    BY <2>1 DEF IsSum
<1>3. ASSUME S # {}
      PROVE  The(S)[S] = f[Pick(S)] + The(S \ {Pick(S)})[S \ {Pick(S)}]
  <2> DEFINE w == S \ {Pick(S)}
  <2>1. IsSum(f, S, The(S)) /\ w \in SUBSET S
    BY <1>1
  <2> HIDE DEF The
  <2>2. The(S)[S] = f[Pick(S)] + The(S)[w]
    BY <1>3, <2>1 DEF IsSum
  <2> HIDE DEF w
  <2>3. IsSum(f, w, Cut(The(S), w))
    BY <2>1, SumRestricted
  <2>4. The(w) = Cut(The(S), w)
    BY <1>1, <2>1, <2>3
  <2>5. The(w)[w] = The(S)[w]
    BY <2>4 DEF Cut
  <2> QED
    BY <2>2, <2>5 DEF w
<1> QED
  BY <1>2, <1>3 DEF SumOn

(* A sum of natural numbers is one, and any element may be taken out.      *)
LEMMA SumIsNat ==
  ASSUME NEW S, IsFiniteSet(S), NEW f, \A x \in S : f[x] \in Nat
  PROVE  \A T \in SUBSET S : SumOn(f, T) \in Nat
<1> DEFINE G == {T \in SUBSET S : SumOn(f, T) \in Nat}
<1>1. ASSUME NEW T \in SUBSET S, \A U \in SUBSET T : U # T => U \in G
      PROVE  SumOn(f, T) \in Nat
  <2>1. IsFiniteSet(T)
    BY FS_Subset
  <2>2. CASE T = {}
    <3>1. SumOn(f, {}) = 0
      BY <2>1, SumUnfolds
    <3> QED
      BY <2>2, <3>1
  <2>3. CASE T # {}
    <3>1. Pick(T) \in T
      BY <2>3, PickIs
    <3>2. SumOn(f, T \ {Pick(T)}) \in Nat
      BY <1>1, <3>1
    <3>3. SumOn(f, T) = f[Pick(T)] + SumOn(f, T \ {Pick(T)})
      BY <2>1, <2>3, SumUnfolds
    <3> QED
      BY <3>1, <3>2, <3>3
  <2> QED
    BY <2>2, <2>3
<1>2. \A T \in SUBSET S : (\A U \in SUBSET T : U # T => U \in G) => T \in G
  BY <1>1
<1> HIDE DEF G
<1>3. \A T \in SUBSET S : T \in G
  BY <1>2, SubsetInduction
<1> QED
  BY <1>3 DEF G

(* Any element can be taken out of a sum first.                           *)
LEMMA SumTakesOut ==
  ASSUME NEW S, IsFiniteSet(S), NEW f, \A x \in S : f[x] \in Nat
  PROVE  \A T \in SUBSET S : \A y \in T : SumOn(f, T) = f[y] + SumOn(f, T \ {y})
<1> DEFINE Out(T, y) == SumOn(f, T) = f[y] + SumOn(f, T \ {y})
           G == {T \in SUBSET S : \A y \in T : Out(T, y)}
<1>1. ASSUME NEW T \in SUBSET S, \A U \in SUBSET T : U # T => U \in G,
             NEW y \in T
      PROVE  Out(T, y)
  <2> DEFINE x == Pick(T)
  <2>1. IsFiniteSet(T) /\ T # {} /\ x \in T
    BY FS_Subset, PickIs
  <2>2. SumOn(f, T) = f[x] + SumOn(f, T \ {x})
    BY <2>1, SumUnfolds
  <2> HIDE DEF x
  <2>3. CASE y = x
    BY <2>2, <2>3
  <2>4. CASE y # x
    <3>1. T \ {x} \in G /\ T \ {y} \in G
      BY <1>1, <2>1
    <3>2. SumOn(f, T \ {x}) = f[y] + SumOn(f, (T \ {x}) \ {y})
      BY <2>4, <3>1
    <3>3. SumOn(f, T \ {y}) = f[x] + SumOn(f, (T \ {y}) \ {x})
      BY <2>1, <2>4, <3>1
    <3>4. (T \ {x}) \ {y} = (T \ {y}) \ {x}
      OBVIOUS
    <3>5. SumOn(f, (T \ {y}) \ {x}) \in Nat /\ f[x] \in Nat /\ f[y] \in Nat
      <4>1. (T \ {y}) \ {x} \in SUBSET S
        OBVIOUS
      <4> QED
        BY <2>1, <4>1, SumIsNat
    <3> QED
      BY <2>2, <3>2, <3>3, <3>4, <3>5
  <2> QED
    BY <2>3, <2>4
<1>2. \A T \in SUBSET S : (\A U \in SUBSET T : U # T => U \in G) => T \in G
  BY <1>1
<1> HIDE DEF G
<1>3. \A T \in SUBSET S : T \in G
  BY <1>2, SubsetInduction
<1> QED
  BY <1>3 DEF G

(* Equal values have equal sums.                                           *)
LEMMA SumOfEqual ==
  ASSUME NEW S, IsFiniteSet(S), NEW f, NEW g,
         \A x \in S : f[x] \in Nat /\ f[x] = g[x]
  PROVE  SumOn(f, S) = SumOn(g, S)
<1> DEFINE G == {T \in SUBSET S : SumOn(f, T) = SumOn(g, T)}
<1>1. ASSUME NEW T \in SUBSET S, \A U \in SUBSET T : U # T => U \in G
      PROVE  SumOn(f, T) = SumOn(g, T)
  <2>1. IsFiniteSet(T)
    BY FS_Subset
  <2>2. CASE T = {}
    <3>1. SumOn(f, {}) = 0 /\ SumOn(g, {}) = 0
      BY <2>1, <2>2, SumUnfolds
    <3> QED
      BY <2>2, <3>1
  <2>3. CASE T # {}
    <3>1. Pick(T) \in T
      BY <2>3, PickIs
    <3>2. SumOn(f, T \ {Pick(T)}) = SumOn(g, T \ {Pick(T)})
      BY <1>1, <3>1
    <3>3. SumOn(f, T) = f[Pick(T)] + SumOn(f, T \ {Pick(T)})
      BY <2>1, <2>3, SumUnfolds
    <3>4. SumOn(g, T) = g[Pick(T)] + SumOn(g, T \ {Pick(T)})
      BY <2>1, <2>3, SumUnfolds
    <3> QED
      BY <3>1, <3>2, <3>3, <3>4
  <2> QED
    BY <2>2, <2>3
<1>2. \A T \in SUBSET S : (\A U \in SUBSET T : U # T => U \in G) => T \in G
  BY <1>1
<1> HIDE DEF G
<1>3. \A T \in SUBSET S : T \in G
  BY <1>2, SubsetInduction
<1> QED
  BY <1>3 DEF G

(* A sum over the parts of a set.                                          *)
LEMMA SumSplits ==
  ASSUME NEW S, IsFiniteSet(S), NEW f, \A x \in S : f[x] \in Nat
  PROVE  \A T \in SUBSET S : SumOn(f, S) = SumOn(f, T) + SumOn(f, S \ T)
<1> DEFINE Of(T) == SumOn(f, S) = SumOn(f, T) + SumOn(f, S \ T)
           G == {T \in SUBSET S : Of(T)}
<1>1. ASSUME NEW T \in SUBSET S, \A U \in SUBSET T : U # T => U \in G
      PROVE  Of(T)
  <2>1. SumOn(f, S) \in Nat /\ SumOn(f, S \ T) \in Nat /\ SumOn(f, {}) = 0
    BY SumIsNat, SumUnfolds
  <2>2. CASE T = {}
    <3>1. S \ T = S
      BY <2>2
    <3> QED BY <2>1, <2>2, <3>1
  <2>3. CASE T # {}
    <3>1. PICK x \in T : TRUE
      BY <2>3
    <3> DEFINE U == T \ {x}
               V == S \ U
    <3>2. U \in SUBSET T /\ U # T /\ x \in V /\ V \in SUBSET S /\ V \ {x} = S \ T
      OBVIOUS
    <3>3. U \in G
      BY <1>1, <3>2
    <3>4. SumOn(f, S) = SumOn(f, U) + SumOn(f, V)
      BY <3>3
    <3> HIDE DEF U, V
    <3>5. SumOn(f, V) = f[x] + SumOn(f, S \ T)
      BY <3>2, SumTakesOut
    <3>6. SumOn(f, T) = f[x] + SumOn(f, U)
      BY <3>1, SumTakesOut DEF U
    <3>7. SumOn(f, U) \in Nat /\ f[x] \in Nat
      BY <3>2, SumIsNat
    <3> QED BY <2>1, <3>4, <3>5, <3>6, <3>7
  <2> QED BY <2>2, <2>3
<1>2. \A T \in SUBSET S : (\A U \in SUBSET T : U # T => U \in G) => T \in G
  BY <1>1
<1> HIDE DEF G
<1>3. \A T \in SUBSET S : T \in G
  BY <1>2, SubsetInduction
<1> QED
  BY <1>3 DEF G

(* A sum over fewer elements is no larger.                                *)
LEMMA SumGrows ==
  ASSUME NEW S, IsFiniteSet(S), NEW f, \A x \in S : f[x] \in Nat, NEW T \in SUBSET S
  PROVE  SumOn(f, T) <= SumOn(f, S)
<1>1. SumOn(f, S) = SumOn(f, T) + SumOn(f, S \ T)
  BY SumSplits
<1>2. SumOn(f, T) \in Nat /\ SumOn(f, S \ T) \in Nat
  BY SumIsNat
<1> QED BY <1>1, <1>2

(* The sum of a constant.                                                  *)
LEMMA SumOfSame ==
  ASSUME NEW S, IsFiniteSet(S), NEW f, NEW v \in Nat, \A x \in S : f[x] = v
  PROVE  SumOn(f, S) = Cardinality(S) * v
<1> DEFINE G == {T \in SUBSET S : SumOn(f, T) = Cardinality(T) * v}
<1>1. ASSUME NEW T \in SUBSET S, \A U \in SUBSET T : U # T => U \in G
      PROVE  SumOn(f, T) = Cardinality(T) * v
  <2>1. CASE T = {}
    <3>1. SumOn(f, {}) = 0 /\ Cardinality({}) = 0
      BY SumUnfolds, FS_EmptySet
    <3> QED BY <2>1, <3>1
  <2>2. CASE T # {}
    <3>1. PICK x \in T : TRUE
      BY <2>2
    <3>2. SumOn(f, T) = v + SumOn(f, T \ {x})
      BY SumTakesOut
    <3>3. SumOn(f, T \ {x}) = Cardinality(T \ {x}) * v
      BY <1>1
    <3>4. IsFiniteSet(T)
      BY FS_Subset
    <3>5. /\ Cardinality(T \ {x}) = Cardinality(T) - 1
          /\ Cardinality(T) \in Nat /\ Cardinality(T \ {x}) \in Nat
      BY <3>1, <3>4, FS_RemoveElement, FS_CardinalityType
    <3> DEFINE n == Cardinality(T \ {x})
    <3>6. Cardinality(T) = n + 1 /\ n \in Nat
      BY <3>5
    <3> HIDE DEF n
    <3>7. v + n * v = (n + 1) * v
      BY <3>6
    <3> QED BY <3>2, <3>3, <3>6, <3>7 DEF n
  <2> QED BY <2>1, <2>2
<1>2. \A T \in SUBSET S : (\A U \in SUBSET T : U # T => U \in G) => T \in G
  BY <1>1
<1> HIDE DEF G
<1>3. \A T \in SUBSET S : T \in G
  BY <1>2, SubsetInduction
<1> QED
  BY <1>3 DEF G

(* A sum over what each element of a set is expanded to.                   *)
IsExpansion(E, C, key, g, f, m) ==
  /\ IsFiniteSet(E) /\ IsFiniteSet(C) /\ m \in Nat
  /\ \A e \in E : key[e] \in C /\ g[e] \in Nat
  /\ \A c \in C : f[c] \in Nat /\ SumOn(g, {e \in E : key[e] = c}) = m * f[c]

LEMMA SumExpands ==
  ASSUME NEW E, NEW C, NEW key, NEW g, NEW f, NEW m, IsExpansion(E, C, key, g, f, m)
  PROVE  SumOn(g, E) = m * SumOn(f, C)
<1>a. IsFiniteSet(C) /\ \A x \in C : f[x] \in Nat
  BY DEF IsExpansion
<1>b. ASSUME NEW V \in SUBSET C, NEW y \in V
      PROVE  SumOn(f, V) = f[y] + SumOn(f, V \ {y})
  BY <1>a, SumTakesOut
<1>c. \A V \in SUBSET C : SumOn(f, V) \in Nat
  BY <1>a, SumIsNat
<1> USE DEF IsExpansion
<1> DEFINE Of(T) == {e \in E : key[e] \in T}
           G == {T \in SUBSET C : SumOn(g, Of(T)) = m * SumOn(f, T)}
<1>1. ASSUME NEW T \in SUBSET C, \A U \in SUBSET T : U # T => U \in G
      PROVE  SumOn(g, Of(T)) = m * SumOn(f, T)
  <2>1. CASE T = {}
    <3>1. SumOn(g, {}) = 0 /\ SumOn(f, {}) = 0 /\ Of(T) = {}
      BY <2>1, SumUnfolds
    <3> QED BY <2>1, <3>1
  <2>2. CASE T # {}
    <3>1. PICK c \in T : TRUE
      BY <2>2
    <3> DEFINE U == T \ {c}
               F == {e \in E : key[e] = c}
    <3>2. U \in G /\ F \in SUBSET Of(T) /\ Of(T) \ F = Of(U)
      BY <1>1
    <3>3. SumOn(g, Of(U)) = m * SumOn(f, U)
      BY <3>2
    <3>4. SumOn(g, F) = m * f[c] /\ f[c] \in Nat
      OBVIOUS
    <3> HIDE DEF U, F
    <3>5. IsFiniteSet(Of(T)) /\ \A e \in Of(T) : g[e] \in Nat
      BY FS_Subset
    <3> HIDE DEF Of
    <3>6. SumOn(g, Of(T)) = SumOn(g, F) + SumOn(g, Of(T) \ F)
      BY <3>2, <3>5, SumSplits
    <3>7. SumOn(f, T) = f[c] + SumOn(f, U) /\ SumOn(f, U) \in Nat
      <4>2. T \in SUBSET C /\ U \in SUBSET C
        BY DEF U
      <4> QED BY <1>b, <1>c, <3>1, <4>2 DEF U
    <3> DEFINE a == f[c]
               b == SumOn(f, U)
    <3>8. a \in Nat /\ b \in Nat /\ m \in Nat
      BY <3>4, <3>7
    <3> HIDE DEF a, b
    <3>9. m * (a + b) = m * a + m * b
      BY <3>8
    <3> QED BY <3>2, <3>3, <3>4, <3>6, <3>7, <3>9 DEF a, b
  <2> QED BY <2>1, <2>2
<1>2. \A T \in SUBSET C : (\A U \in SUBSET T : U # T => U \in G) => T \in G
  BY <1>1
<1>3. Of(C) = E
  OBVIOUS
<1> HIDE DEF G
<1>4. \A T \in SUBSET C : T \in G
  BY <1>2, SubsetInduction
<1>5. C \in G
  BY <1>4
<1> QED
  BY <1>3, <1>5 DEF G

(* Two functions that add up alike are one.                                *)
LEMMA SameSum ==
  ASSUME NEW S, IsFiniteSet(S), NEW f, NEW g, IsSum(f, S, g)
  PROVE  g[S] = SumOn(f, S)
<1>1. HasSum(f, S)
  BY SumExists
<1>2. \A h : IsSum(f, S, h) => h = g
  BY <1>1 DEF HasSum
<1>3. (CHOOSE h : IsSum(f, S, h)) = g
  BY <1>2
<1> QED
  BY <1>3 DEF SumOn

(* SumFunction of the community modules is this sum.                      *)
LEMMA SumIs ==
  ASSUME NEW f, IsFiniteSet(DOMAIN f)
  PROVE  SumFunction(f) = SumOn(f, DOMAIN f)
<1> DEFINE S == DOMAIN f
           Q(g) == g = [s \in SUBSET S |-> IF s = {} THEN 0
                          ELSE f[CHOOSE x \in s : TRUE] + g[s \ {CHOOSE x \in s : TRUE}]]
<1>1. SumFunction(f) = (CHOOSE g : Q(g))[S]
  BY DEF SumFunction, SumFunctionOnSet, FoldFunctionOnSet, MapThenFoldSet
<1>2. \A g : Q(g) <=> IsSum(f, S, g)
  BY DEF IsSum, Pick
<1> HIDE DEF Q
<1>3. PICK g : IsSum(f, S, g) /\ \A h : IsSum(f, S, h) => h = g
  BY SumExists DEF HasSum
<1>4. (CHOOSE h : Q(h)) = g
  BY <1>2, <1>3
<1> QED
  BY <1>1, <1>3, <1>4, SameSum

(* What SumFunction adds up, and how it grows.                             *)
LEMMA SumOver ==
  ASSUME NEW f, IsFiniteSet(DOMAIN f), \A x \in DOMAIN f : f[x] \in Nat
  PROVE  SumFunction(f) = SumOn(f, DOMAIN f) /\ SumFunction(f) \in Nat
<1>1. SumOn(f, DOMAIN f) \in Nat
  BY SumIsNat
<1> QED BY <1>1, SumIs

LEMMA SumOverFewer ==
  ASSUME NEW f, IsFiniteSet(DOMAIN f), \A x \in DOMAIN f : f[x] \in Nat,
         NEW g, DOMAIN g \subseteq DOMAIN f, \A x \in DOMAIN g : g[x] = f[x]
  PROVE  SumFunction(g) <= SumFunction(f)
<1> DEFINE S == DOMAIN f
           T == DOMAIN g
<1>1. IsFiniteSet(T)
  BY FS_Subset
<1>2. SumFunction(g) = SumOn(g, T) /\ SumFunction(f) = SumOn(f, S)
  BY <1>1, SumOver
<1>3. SumOn(g, T) = SumOn(f, T)
  BY <1>1, SumOfEqual
<1>4. SumOn(f, T) <= SumOn(f, S)
  BY SumGrows
<1> QED BY <1>2, <1>3, <1>4

LEMMA SumOverPart ==
  ASSUME NEW f, IsFiniteSet(DOMAIN f), \A x \in DOMAIN f : f[x] \in Nat,
         NEW x \in DOMAIN f
  PROVE  f[x] <= SumFunction(f)
<1> DEFINE S == DOMAIN f
           T == S \ {x}
           v == f[x]
           w == SumOn(f, T)
<1>1. SumFunction(f) = SumOn(f, S) /\ SumOn(f, S) = v + w
  BY SumOver, SumTakesOut
<1>2. v \in Nat /\ w \in Nat
  BY SumIsNat, FS_Subset
<1> HIDE DEF v, w
<1>3. v <= v + w
  BY <1>2
<1> QED BY <1>1, <1>3 DEF v

LEMMA SumOverLarger ==
  ASSUME NEW f, NEW g, DOMAIN f = DOMAIN g, IsFiniteSet(DOMAIN f),
         \A x \in DOMAIN f : f[x] \in Nat /\ g[x] \in Nat /\ f[x] <= g[x]
  PROVE  SumFunction(f) <= SumFunction(g)
<1> DEFINE S == DOMAIN f
           G == {T \in SUBSET S : SumOn(f, T) <= SumOn(g, T)}
<1>1. ASSUME NEW T \in SUBSET S, \A U \in SUBSET T : U # T => U \in G
      PROVE  SumOn(f, T) <= SumOn(g, T)
  <2>1. IsFiniteSet(T)
    BY FS_Subset
  <2>2. CASE T = {}
    <3>1. SumOn(f, {}) = 0 /\ SumOn(g, {}) = 0
      BY <2>1, <2>2, SumUnfolds
    <3> QED
      BY <2>2, <3>1
  <2>3. CASE T # {}
    <3>1. PICK x \in T : TRUE
      BY <2>3
    <3> DEFINE U == T \ {x}
    <3>2. SumOn(f, U) <= SumOn(g, U)
      BY <1>1, <3>1
    <3>3. SumOn(f, T) = f[x] + SumOn(f, U) /\ SumOn(g, T) = g[x] + SumOn(g, U)
      BY <3>1, SumTakesOut
    <3>4. /\ f[x] \in Nat /\ g[x] \in Nat /\ f[x] <= g[x]
          /\ SumOn(f, U) \in Nat /\ SumOn(g, U) \in Nat
      BY <3>1, <2>1, SumIsNat, FS_Subset
    <3> QED
      BY <3>2, <3>3, <3>4
  <2> QED
    BY <2>2, <2>3
<1>2. \A T \in SUBSET S : (\A U \in SUBSET T : U # T => U \in G) => T \in G
  BY <1>1
<1> HIDE DEF G
<1>3. \A T \in SUBSET S : T \in G
  BY <1>2, SubsetInduction
<1>4. SumOn(f, S) <= SumOn(g, S)
  BY <1>3 DEF G
<1>5. SumFunction(f) = SumOn(f, S)
  BY SumIs
<1>6. SumFunction(g) = SumOn(g, S)
  BY SumIs
<1> QED
  BY <1>4, <1>5, <1>6

-----------------------------------------------------------------------------
(* The references of an argument.                                          *)
LEMMA TreeIs ==
  ASSUME NEW a \in DOMAIN Tree
  PROVE  /\ IsFiniteSet(DOMAIN Tree[a])
         /\ \A p \in DOMAIN Tree[a] : /\ p \in Seq(DOMAIN KeyClass)
                                      /\ Tree[a][p].kind \in {"object", "text", "other"}
BY TreesAssumption

(* A reference becomes a synthetic path, and everything else stays.       *)
LEMMA ReferenceResolved ==
  ASSUME NEW a \in DOMAIN Tree, Analyzable(Tree[a]), NEW p \in Visited(Tree[a]),
         HasMarker(Tree[a], p), NEW path
  PROVE  /\ Resolve(Tree[a], path)[p].kind = path
         /\ Resolve(Tree[a], path)[p].text \in Aliases(Tree[a])
<1> DEFINE t == Tree[a]
           q == CHOOSE x \in Children(t, p) : TRUE
<1>1. ExactReference(t, p)
  BY DEF Visited, Analyzable, HasMarker
<1>2. Children(t, p) # {}
  BY <1>1, FS_EmptySet DEF ExactReference
<1>3. q \in Children(t, p)
  BY <1>2
<1>4. Resolve(t, path)[p] = [kind |-> path, text |-> t[q].text]
  BY DEF Resolve, AliasAt
<1> HIDE DEF q
<1>5. t[q].text \in Aliases(t)
  BY <1>1, <1>3 DEF Aliases
<1> QED
  BY <1>4, <1>5

LEMMA OthersResolved ==
  ASSUME NEW t, NEW p \in Visited(t), ~HasMarker(t, p), NEW path
  PROVE  Resolve(t, path)[p] = t[p]
BY DEF Resolve

(* Resolved arguments are what the plan's schema accepts.                  *)
LEMMA ResolvedIsAccepted ==
  ASSUME NEW a \in DOMAIN Tree, Analyzable(Tree[a]), SafeLiterals(Tree[a]),
         NEW known, Aliases(Tree[a]) \subseteq known
  PROVE  ResolvedAccepted(Resolve(Tree[a], "resource"), known)
<1> DEFINE t == Tree[a]
           r == Resolve(t, "resource")
<1>1. DOMAIN r = Visited(t) /\ Visited(t) \subseteq DOMAIN t
  BY DEF Resolve, Visited
<1>2. ASSUME NEW p \in Visited(t)
      PROVE  /\ HasMarker(t, p) => r[p].kind = "resource" /\ r[p].text \in known
             /\ ~HasMarker(t, p) => r[p] = t[p]
  BY ReferenceResolved, OthersResolved
<1>3. \A p \in DOMAIN t : t[p].kind \in {"object", "text", "other"}
  BY TreeIs
<1>4. ASSUME NEW p \in Visited(t), IsObject(r, p)
      PROVE  /\ SafeFields(r, p)
             /\ Keys(r, p) \cap {"resource", "binding", "forge"} = {}
  <2>1. ~HasMarker(t, p) /\ r[p] = t[p] /\ IsObject(t, p)
    BY <1>2, <1>4 DEF IsObject
  <2>2. /\ SafeFields(t, p) /\ "forge" \notin Keys(t, p)
        /\ Keys(t, p) \cap {"resource", "binding"} = {}
    BY <2>1 DEF Analyzable, HasMarker
  <2>3. Children(r, p) \subseteq Children(t, p) /\ Children(r, p) \subseteq Visited(t)
    BY <1>1 DEF Children
  <2> HIDE DEF r
  <2>4. Keys(r, p) \subseteq Keys(t, p)
    BY <2>3 DEF Keys
  <2>5. ASSUME NEW q \in Children(r, p), KeyClass[Last(q)] = "path"
        PROVE  r[q].kind = "resource"
    <3>1. /\ q \in Children(t, p) /\ q \in Visited(t) /\ q \in DOMAIN t
          /\ t[q].kind \notin PathKinds
      BY <1>1, <1>3, <2>3 DEF PathKinds
    <3>2. IsObject(t, q) /\ Keys(t, q) \cap {"resource", "binding", "forge"} # {}
      BY <2>2, <2>5, <3>1 DEF SafeFields
    <3>3. HasMarker(t, q)
      BY <3>1, <3>2 DEF Analyzable, HasMarker
    <3> QED BY <1>2, <3>1, <3>3
  <2> QED BY <2>2, <2>4, <2>5 DEF SafeFields, PathKinds
<1>5. ASSUME NEW p \in Visited(t)
      PROVE  /\ r[p].kind = "text" => r[p].text # "unsafe"
             /\ r[p].kind \in PathKinds => r[p].kind = "resource" /\ r[p].text \in known
  BY <1>1, <1>2, <1>3 DEF SafeLiterals, PathKinds
<1> HIDE DEF r
<1> QED
  BY <1>1, <1>4, <1>5 DEF ResolvedAccepted, r

(* What an argument is analyzed to.                                        *)
LEMMA AnalysisIs ==
  ASSUME NEW a \in DOMAIN Tree
  PROVE  /\ Analysis[a].analyzable = Analyzable(Tree[a])
         /\ Analysis[a].safe = SafeLiterals(Tree[a])
         /\ Analysis[a].aliases = Aliases(Tree[a])
         /\ Analysis[a].weight = Weigh(Tree[a])
         /\ \A path \in PathKinds :
              /\ Analysis[a].resolved[path]
                   = IF Analyzable(Tree[a]) THEN Resolve(Tree[a], path) ELSE Tree[a]
              /\ Analysis[a].resolvedWeight[path] = Weigh(Analysis[a].resolved[path])
BY DEF Analysis, AnalysisOf, Analyzed

(* A resolved argument has no more positions than it had, and nodes of the *)
(* same kinds, but for the paths.                                          *)
LEMMA ResolvedIs ==
  ASSUME NEW a \in DOMAIN Tree, NEW path \in PathKinds
  PROVE  LET r == Analysis[a].resolved[path]
         IN  /\ DOMAIN r = DOMAIN Analysis[a].resolved["resource"]
             /\ DOMAIN r \subseteq DOMAIN Tree[a] /\ IsFiniteSet(DOMAIN r)
             /\ \A p \in DOMAIN r :
                  r[p].kind = IF Analyzable(Tree[a]) /\ HasMarker(Tree[a], p)
                              THEN path ELSE Tree[a][p].kind
<1> DEFINE t == Tree[a]
           r == Analysis[a].resolved[path]
           q == Analysis[a].resolved["resource"]
<1>1. "resource" \in PathKinds /\ IsFiniteSet(DOMAIN t)
  BY TreeIs DEF PathKinds
<1>2. CASE Analyzable(t)
  <2>1. r = Resolve(t, path) /\ q = Resolve(t, "resource")
    BY <1>1, <1>2, AnalysisIs
  <2> HIDE DEF r, q
  <2>2. DOMAIN r = Visited(t) /\ DOMAIN q = Visited(t) /\ Visited(t) \subseteq DOMAIN t
    BY <2>1 DEF Resolve, Visited
  <2>3. IsFiniteSet(DOMAIN r)
    BY <1>1, <2>2, FS_Subset
  <2>4. ASSUME NEW p \in DOMAIN r
        PROVE  r[p].kind = IF HasMarker(t, p) THEN path ELSE t[p].kind
    BY <1>2, <2>1, <2>2, ReferenceResolved, OthersResolved
  <2> QED BY <1>2, <2>2, <2>3, <2>4 DEF r, q
<1>3. CASE ~Analyzable(t)
  <2>1. r = t /\ q = t
    BY <1>1, <1>3, AnalysisIs
  <2> QED BY <1>1, <1>3, <2>1
<1> QED BY <1>2, <1>3

(* Every node has a weight, and a path that is compiled no less than one   *)
(* that is judged: so have the trees, and the parts of them.               *)
LEMMA WeightIs ==
  ASSUME NEW m \in Measures, NEW k \in NodeKinds \union {"instance", "plan"}
  PROVE  Weight[m][k] \in Nat /\ Weight[m]["proposal"] <= Weight[m]["resource"]
BY WeightsAssumption

LEMMA TreeWeight ==
  ASSUME NEW t, IsFiniteSet(DOMAIN t), \A p \in DOMAIN t : t[p].kind \in NodeKinds,
         NEW m \in Measures
  PROVE  Weigh(t)[m] \in Nat
<1> DEFINE f == [p \in DOMAIN t |-> Weight[m][t[p].kind]]
<1>1. DOMAIN f = DOMAIN t /\ \A p \in DOMAIN t : f[p] \in Nat
  BY WeightIs
<1>2. Weigh(t)[m] = SumFunction(f)
  BY DEF Weigh
<1> HIDE DEF f
<1> QED BY <1>1, <1>2, SumOver

LEMMA ResolvedKinds ==
  ASSUME NEW a \in DOMAIN Tree, NEW path \in PathKinds,
         NEW p \in DOMAIN Analysis[a].resolved[path]
  PROVE  Analysis[a].resolved[path][p].kind \in NodeKinds
BY ResolvedIs, TreeIs DEF NodeKinds

LEMMA WeightsAre ==
  ASSUME NEW a \in DOMAIN Tree, NEW m \in Measures
  PROVE  /\ Analysis[a].weight[m] \in Nat
         /\ \A path \in PathKinds : Analysis[a].resolvedWeight[path][m] \in Nat
<1>1. Weigh(Tree[a])[m] \in Nat
  BY TreeIs, TreeWeight DEF NodeKinds
<1>2. ASSUME NEW path \in PathKinds
      PROVE  Weigh(Analysis[a].resolved[path])[m] \in Nat
  BY ResolvedIs, ResolvedKinds, TreeWeight
<1> QED BY <1>1, <1>2, AnalysisIs

(* The synthetic paths of a resolved argument are its aliases.             *)
LEMMA PathsAreAliases ==
  ASSUME NEW a \in DOMAIN Tree, Analyzable(Tree[a]),
         NEW path \in PathKinds, NEW p \in DOMAIN Analysis[a].resolved[path],
         Analysis[a].resolved[path][p].kind \in PathKinds
  PROVE  Analysis[a].resolved[path][p].text \in Analysis[a].aliases
<1> DEFINE t == Tree[a]
<1>1. Analysis[a].resolved[path] = Resolve(t, path) /\ Analysis[a].aliases = Aliases(t)
  BY AnalysisIs
<1>2. p \in Visited(t) /\ p \in DOMAIN t
  BY <1>1 DEF Resolve, Visited
<1>3. CASE HasMarker(t, p)
  BY <1>1, <1>2, <1>3, ReferenceResolved
<1>4. CASE ~HasMarker(t, p)
  BY <1>1, <1>2, <1>4, OthersResolved, TreeIs DEF PathKinds
<1> QED
  BY <1>3, <1>4

-----------------------------------------------------------------------------
(* The decisions of a policy.                                              *)
LEMMA MaximumIs ==
  ASSUME NEW S \in SUBSET Ranks
  PROVE  /\ MaximumApproval(S) \in Ranks
         /\ MaximumApproval(S) \in S \union {0}
         /\ \A x \in S : x <= MaximumApproval(S)
<1> DEFINE T == S \union {0}
<1>1. \E x \in T : \A y \in T : x >= y
  <2>1. CASE 2 \in T
    BY <2>1 DEF Ranks
  <2>2. CASE 2 \notin T /\ 1 \in T
    BY <2>2 DEF Ranks
  <2>3. CASE 2 \notin T /\ 1 \notin T
    BY <2>3 DEF Ranks
  <2> QED BY <2>1, <2>2, <2>3
<1>2. Max(T) \in T /\ \A y \in T : Max(T) >= y
  BY <1>1 DEF Max
<1>3. MaximumApproval(S) = Max(T)
  BY DEF MaximumApproval
<1> HIDE DEF T
<1>4. T \subseteq Ranks /\ S \subseteq T
  BY DEF T, Ranks
<1> QED
  BY <1>2, <1>3, <1>4 DEF T, Ranks

(* The approval of more, or of higher, ranks is no lower.                 *)
LEMMA MaximumGrows ==
  ASSUME NEW S \in SUBSET Ranks, NEW T \in SUBSET Ranks,
         \A x \in S : x = 0 \/ \E y \in T : x <= y
  PROVE  MaximumApproval(S) <= MaximumApproval(T)
<1> DEFINE s == MaximumApproval(S)
           t == MaximumApproval(T)
<1>1. s \in Ranks /\ s \in S \union {0}
  BY MaximumIs
<1>2. t \in Ranks /\ \A x \in T : x <= t
  BY MaximumIs
<1> HIDE DEF s, t
<1>3. CASE s = 0
  BY <1>2, <1>3 DEF s, t, Ranks
<1>4. CASE s # 0
  <2>1. PICK y \in T : s <= y
    BY <1>1, <1>4
  <2>2. y <= t /\ y \in Ranks
    BY <1>2
  <2> QED BY <1>1, <1>2, <2>1, <2>2 DEF s, t, Ranks
<1> QED BY <1>3, <1>4

IsCall(call) ==
  /\ call.cases \in Nat /\ call.steps \in Nat /\ call.bounds \in Bounds
  /\ call.bytes \in Nat

(* A rule as tight as another, or tighter.                                 *)
Tightens(x, r) ==
  /\ x.tools = r.tools /\ x.origins = r.origins /\ x.arguments = r.arguments
  /\ x.classes = r.classes /\ x.flows = r.flows
  /\ x.limits \in Bounds /\ r.limits \in Bounds
  /\ \A f \in DOMAIN r.limits : x.limits[f] <= r.limits[f]
  /\ x.approval \in Ranks /\ r.approval \in Ranks
  /\ \/ x.decision = r.decision /\ x.approval = r.approval
     \/ r.decision = "allow" /\ x.decision = "approval_required"
     \/ r.decision = "approval_required" /\ x.decision = "deny"

AsTight(tight, rules) ==
  /\ \A r \in rules : r.decision = "allow" \/ \E x \in tight : Tightens(x, r)
  /\ \A x \in tight : \E r \in rules : Tightens(x, r)

Matches(r, call) == BaseSelectorMatches(r, call) /\ r.classes \cap call.classes # {}

LEMMA TightensLimits ==
  ASSUME NEW x, NEW r, Tightens(x, r), NEW call, IsCall(call)
  PROVE  /\ DispatchWithinLimits(x, call) => DispatchWithinLimits(r, call)
         /\ Matches(x, call) <=> Matches(r, call)
<1>1. Matches(x, call) <=> Matches(r, call)
  BY DEF Matches, BaseSelectorMatches, ArgumentsMatch, Tightens
<1>2. ASSUME NEW m \in Nat, NEW f \in {"cases", "stepsPerCase", "steps", "argument", "files"},
             m <= x.limits[f]
      PROVE  m <= r.limits[f]
  <2>1. x.limits[f] <= r.limits[f] /\ x.limits[f] \in Nat /\ r.limits[f] \in Nat
    BY DEF Tightens, Bounds
  <2> QED BY <1>2, <2>1
<1>3. ASSUME DispatchWithinLimits(x, call)
      PROVE  DispatchWithinLimits(r, call)
  <2>1. call.cases <= r.limits.cases
    BY <1>2, <1>3 DEF DispatchWithinLimits, IsCall
  <2>2. call.steps <= r.limits.steps
    BY <1>2, <1>3 DEF DispatchWithinLimits, IsCall
  <2>3. call.bytes <= r.limits.argument
    BY <1>2, <1>3 DEF DispatchWithinLimits, IsCall
  <2>4. ASSUME NEW f \in DOMAIN call.bounds
        PROVE  call.bounds[f] <= r.limits[f]
    <3>1. call.bounds[f] \in Nat /\ f \in {"cases", "stepsPerCase", "steps", "argument", "files"}
      BY DEF IsCall, Bounds
    <3>2. call.bounds[f] <= x.limits[f]
      BY <1>3 DEF DispatchWithinLimits
    <3> QED BY <1>2, <3>1, <3>2
  <2> QED BY <2>1, <2>2, <2>3, <2>4 DEF DispatchWithinLimits
<1> QED BY <1>1, <1>3

(* What a policy decides, part by part.                                    *)
Satisfied(rules, call) ==
  {r \in rules : Matches(r, call) /\ ~r.flows /\ DispatchWithinLimits(r, call)}
Positive(rules, call) == {r \in Satisfied(rules, call) : r.decision # "deny"}
Refuses(rules, call) ==
  \/ \E r \in rules : Matches(r, call) /\ r.decision = "deny"
  \/ \E r \in rules : /\ Matches(r, call) /\ r \notin Satisfied(rules, call)
                      /\ r.decision = "approval_required"
  \/ Positive(rules, call) = {}
  \/ ~(call.classes \subseteq UNION {r.classes : r \in Positive(rules, call)})
RankOf(rules, call) == MaximumApproval({r.approval : r \in Positive(rules, call)})

(* What the evaluation of a call returns: nothing, or one rank.           *)
LEMMA DispatchIs ==
  ASSUME NEW rules, NEW call
  PROVE  EvaluateDispatch(rules, call) =
           IF Refuses(rules, call) THEN {} ELSE {RankOf(rules, call)}
<1> DEFINE matching == {r \in rules : BaseSelectorMatches(r, call)
                                      /\ r.classes \cap call.classes # {}}
           satisfied == {r \in matching : ~r.flows /\ DispatchWithinLimits(r, call)}
           positive == {r \in satisfied : r.decision # "deny"}
           unsatisfied == {r \in matching \ satisfied : r.decision = "approval_required"}
           refused == \/ \E r \in matching : r.decision = "deny"
                      \/ unsatisfied # {} \/ positive = {}
                      \/ ~(call.classes \subseteq UNION {r.classes : r \in positive})
<1>1. EvaluateDispatch(rules, call) =
        IF refused THEN {} ELSE {MaximumApproval({r.approval : r \in positive})}
  BY DEF EvaluateDispatch
<1>2. satisfied = Satisfied(rules, call)
  BY DEF Satisfied, Matches
<1>3. positive = Positive(rules, call)
  BY <1>2 DEF Positive
<1>4. (unsatisfied # {}) <=> \E r \in rules : /\ Matches(r, call)
                      /\ r \notin Satisfied(rules, call)
                      /\ r.decision = "approval_required"
  BY <1>2 DEF Matches
<1>5. (\E r \in matching : r.decision = "deny")
        <=> \E r \in rules : Matches(r, call) /\ r.decision = "deny"
  BY DEF Matches
<1> HIDE DEF matching, satisfied, positive, unsatisfied
<1>6. refused <=> Refuses(rules, call)
  BY <1>3, <1>4, <1>5 DEF Refuses
<1> HIDE DEF refused
<1> QED
  BY <1>1, <1>3, <1>6 DEF RankOf

(* A tighter policy refuses no less, and asks for no less.                 *)
LEMMA TighterDispatch ==
  ASSUME NEW rules, NEW tight, NEW call, IsCall(call), AsTight(tight, rules),
         \A r \in rules : RuleWellFormed(r) /\ IsRule(r),
         EvaluateDispatch(tight, call) # {}
  PROVE  /\ EvaluateDispatch(tight, call) = {RankOf(tight, call)}
         /\ EvaluateDispatch(rules, call) = {RankOf(rules, call)}
         /\ RankOf(rules, call) <= RankOf(tight, call)
<1>1. ~Refuses(tight, call) /\ EvaluateDispatch(tight, call) = {RankOf(tight, call)}
  BY DispatchIs
<1>2. ASSUME NEW r \in rules, Matches(r, call), r.decision # "allow"
      PROVE  /\ r.decision # "deny" /\ r \in Positive(rules, call)
             /\ \E x \in Positive(tight, call) : x.approval = r.approval
  <2>1. PICK x \in tight : Tightens(x, r)
    BY <1>2 DEF AsTight
  <2>2. Matches(x, call)
    BY <1>2, <2>1, TightensLimits
  <2>3. x.decision # "deny"
    BY <1>1, <2>2 DEF Refuses
  <2>4. /\ x.decision = r.decision /\ x.approval = r.approval
        /\ r.decision # "deny"
    BY <1>2, <2>1, <2>3 DEF Tightens
  <2>5. r.decision = "approval_required"
    BY <1>2, <2>4 DEF IsRule
  <2>6. x \in Satisfied(tight, call)
    BY <1>1, <2>2, <2>4, <2>5 DEF Refuses
  <2>7. r \in Satisfied(rules, call)
    BY <1>2, <2>1, <2>6, TightensLimits DEF Satisfied, Tightens
  <2> QED
    BY <2>3, <2>4, <2>6, <2>7 DEF Positive
<1>3. ASSUME NEW x \in Positive(tight, call)
      PROVE  \E r \in Positive(rules, call) : r.classes = x.classes
  <2>1. PICK r \in rules : Tightens(x, r)
    BY <1>3 DEF Positive, Satisfied, AsTight
  <2>2. r.decision # "deny"
    BY <1>3, <2>1 DEF Tightens, Positive
  <2>3. r \in Satisfied(rules, call)
    BY <1>3, <2>1, TightensLimits DEF Satisfied, Positive, Tightens
  <2> QED
    BY <2>1, <2>2, <2>3 DEF Positive, Tightens
<1>4. ~Refuses(rules, call)
  <2>1. Positive(rules, call) # {}
    BY <1>1, <1>3 DEF Refuses
  <2>2. call.classes \subseteq UNION {r.classes : r \in Positive(rules, call)}
    BY <1>1, <1>3 DEF Refuses
  <2>3. ~ \E r \in rules : Matches(r, call) /\ r.decision = "deny"
    BY <1>2
  <2>4. ~ \E r \in rules : /\ Matches(r, call) /\ r \notin Satisfied(rules, call)
                           /\ r.decision = "approval_required"
    BY <1>2 DEF Positive
  <2> QED
    BY <2>1, <2>2, <2>3, <2>4 DEF Refuses
<1>5. RankOf(rules, call) <= RankOf(tight, call)
  <2> DEFINE S == {r.approval : r \in Positive(rules, call)}
             T == {x.approval : x \in Positive(tight, call)}
  <2>1. S \in SUBSET Ranks
    BY DEF Positive, Satisfied, IsRule
  <2>2. T \in SUBSET Ranks
    BY DEF Positive, Satisfied, AsTight, Tightens
  <2>3. ASSUME NEW r \in Positive(rules, call)
        PROVE  r.approval = 0 \/ \E y \in T : r.approval <= y
    <3>1. r \in rules /\ Matches(r, call) /\ r.approval \in Ranks
      BY DEF Positive, Satisfied, IsRule
    <3>2. CASE r.decision = "allow"
      BY <3>1, <3>2 DEF RuleWellFormed, Ranks
    <3>3. CASE r.decision # "allow"
      <4>1. PICK x \in Positive(tight, call) : x.approval = r.approval
        BY <1>2, <3>1, <3>3
      <4>2. r.approval \in T /\ r.approval <= r.approval
        BY <3>1, <4>1 DEF Ranks
      <4> QED BY <4>2
    <3> QED BY <3>2, <3>3
  <2>4. \A y \in S : y = 0 \/ \E z \in T : y <= z
    BY <2>3
  <2> HIDE DEF S, T
  <2>5. MaximumApproval(S) <= MaximumApproval(T)
    BY <2>1, <2>2, <2>4, MaximumGrows
  <2> QED
    BY <2>5 DEF RankOf, S, T
<1> QED
  BY <1>1, <1>4, <1>5, DispatchIs

(* The calls of one step that a policy cannot tell apart.                  *)
Alike(rules, k, l) ==
  /\ k.classes = l.classes
  /\ \A r \in rules : /\ BaseSelectorMatches(r, k) <=> BaseSelectorMatches(r, l)
                      /\ DispatchWithinLimits(r, k) <=> DispatchWithinLimits(r, l)

(* Two calls that the rules do not tell apart are judged alike.           *)
LEMMA AlikeDispatch ==
  ASSUME NEW rules, NEW k, NEW l, Alike(rules, k, l)
  PROVE  EvaluateDispatch(rules, k) = EvaluateDispatch(rules, l)
<1>1. \A r \in rules : Matches(r, k) <=> Matches(r, l)
  BY DEF Alike, Matches
<1>2. Satisfied(rules, k) = Satisfied(rules, l)
  BY <1>1 DEF Satisfied, Alike
<1>3. Positive(rules, k) = Positive(rules, l)
  BY <1>2 DEF Positive
<1>4. Refuses(rules, k) <=> Refuses(rules, l)
  BY <1>1, <1>2, <1>3 DEF Refuses, Alike
<1>5. RankOf(rules, k) = RankOf(rules, l)
  BY <1>3 DEF RankOf
<1> QED
  BY <1>4, <1>5, DispatchIs

(* The numbers of the plan do not matter within its bounds, which every    *)
(* rule is compared with as well.                                          *)
Totals(bounds, x, y) == x \in Nat /\ y \in Nat /\ x <= bounds.cases /\ y <= bounds.steps
ArgumentFits(bounds, call) == call.bytes \in Nat /\ call.bytes <= bounds.argument

LEMMA TotalsWithinLimits ==
  ASSUME NEW rule, rule.limits \in Bounds, NEW k, NEW l,
         k.bounds = l.bounds, l.bounds \in Bounds,
         \/ k.bytes = l.bytes
         \/ ArgumentFits(l.bounds, k) /\ ArgumentFits(l.bounds, l),
         \/ k.cases = l.cases /\ k.steps = l.steps
         \/ /\ Totals(l.bounds, k.cases, k.steps)
            /\ Totals(l.bounds, l.cases, l.steps)
  PROVE  DispatchWithinLimits(rule, k) <=> DispatchWithinLimits(rule, l)
<1>0. ASSUME \A f \in DOMAIN l.bounds : l.bounds[f] <= rule.limits[f]
      PROVE  k.bytes <= rule.limits.argument <=> l.bytes <= rule.limits.argument
  <2> DEFINE b == l.bounds.argument
             p == rule.limits.argument
  <2>1. b \in Nat /\ p \in Nat /\ "argument" \in DOMAIN l.bounds
    BY DEF Bounds
  <2>2. b <= p
    BY <1>0, <2>1
  <2>3. CASE k.bytes = l.bytes
    BY <2>3
  <2>4. CASE ArgumentFits(l.bounds, k) /\ ArgumentFits(l.bounds, l)
    <3>1. k.bytes \in Nat /\ k.bytes <= b /\ l.bytes \in Nat /\ l.bytes <= b
      BY <2>4 DEF ArgumentFits
    <3> HIDE DEF b, p
    <3> QED BY <2>1, <2>2, <3>1 DEF p
  <2> QED BY <2>3, <2>4
<1>1. CASE k.cases = l.cases /\ k.steps = l.steps
  BY <1>0, <1>1 DEF DispatchWithinLimits
<1>2. CASE /\ Totals(l.bounds, k.cases, k.steps)
           /\ Totals(l.bounds, l.cases, l.steps)
  <2> DEFINE c == l.bounds.cases
             s == l.bounds.steps
             p == rule.limits.cases
             q == rule.limits.steps
  <2>1. {c, s, p, q} \subseteq Nat /\ "cases" \in DOMAIN l.bounds /\ "steps" \in DOMAIN l.bounds
    BY DEF Bounds
  <2>2. ASSUME \A f \in DOMAIN l.bounds : l.bounds[f] <= rule.limits[f]
        PROVE  /\ k.cases <= p /\ l.cases <= p
               /\ k.steps <= q /\ l.steps <= q
    <3>1. c <= p /\ s <= q
      BY <2>1, <2>2
    <3>2. /\ k.cases \in Nat /\ k.cases <= c /\ l.cases \in Nat /\ l.cases <= c
          /\ k.steps \in Nat /\ k.steps <= s /\ l.steps \in Nat /\ l.steps <= s
      BY <1>2 DEF Totals
    <3> HIDE DEF c, s, p, q
    <3> QED BY <2>1, <3>1, <3>2
  <2> QED
    BY <1>0, <2>2 DEF DispatchWithinLimits
<1> QED BY <1>1, <1>2

-----------------------------------------------------------------------------
(* The cases of an audit.                                                  *)
LEMMA StepsAre ==
  ASSUME NEW c, IsCase(c)
  PROVE  /\ Len(c.steps) \in Nat /\ DOMAIN c.steps = 1..Len(c.steps)
         /\ IsFiniteSet(DOMAIN c.steps)
         /\ \A i \in DOMAIN c.steps : c.steps[i].args \in DOMAIN Tree
         /\ c.approval \in Ranks
<1> DEFINE X == [tool : STRING, args : DOMAIN Tree]
<1>1. c.steps \in Seq(X) /\ c.approval \in Ranks
  BY DEF IsCase
<1>2. \A x \in X : x.args \in DOMAIN Tree
  OBVIOUS
<1> HIDE DEF X
<1>3. /\ Len(c.steps) \in Nat /\ DOMAIN c.steps = 1..Len(c.steps)
      /\ \A i \in DOMAIN c.steps : c.steps[i] \in X
  BY <1>1
<1>4. IsFiniteSet(DOMAIN c.steps)
  BY <1>3, FS_Interval
<1> QED BY <1>1, <1>2, <1>3, <1>4

(* A resolved argument has a size.                                         *)
LEMMA ResolvedSize ==
  ASSUME NEW s, s.args \in DOMAIN Tree, NEW o
  PROVE  ResolvedBytes(s, o) \in Nat
<1>1. PathKind(o) \in PathKinds /\ "bytes" \in Measures
  BY DEF PathKind, PathKinds, Measures
<1> QED BY <1>1, WeightsAre DEF ResolvedBytes

(* The aliases of an argument are finitely many.                           *)
LEMMA AliasesAreFinite ==
  ASSUME NEW a \in DOMAIN Tree
  PROVE  IsFiniteSet(Analysis[a].aliases)
<1> DEFINE t == Tree[a]
           D == DOMAIN t
           f == [q \in D |-> t[q].text]
           T == {f[q] : q \in D}
<1>1. IsFiniteSet(D)
  BY TreeIs
<1>2. f \in Surjection(D, T)
  BY DEF Surjection
<1>3. Aliases(t) \subseteq T
  BY DEF Aliases, Children
<1> HIDE DEF D, f, T
<1>4. IsFiniteSet(T)
  BY <1>1, <1>2, FS_Surjection
<1>5. IsFiniteSet(Aliases(t))
  BY <1>3, <1>4, FS_Subset
<1> QED BY <1>5, AnalysisIs

LEMMA CaseAliasesAreFinite ==
  ASSUME NEW c, IsCase(c)
  PROVE  IsFiniteSet(CaseAliases(c)) /\ Cardinality(CaseAliases(c)) \in Nat
<1> DEFINE D == DOMAIN c.steps
           f == [i \in D |-> Analysis[c.steps[i].args].aliases]
           T == {f[i] : i \in D}
<1>1. IsFiniteSet(D)
  BY StepsAre, FS_Interval
<1>2. f \in Surjection(D, T)
  BY DEF Surjection
<1>3. CaseAliases(c) = UNION T
  BY DEF CaseAliases, Arguments
<1>4. \A s \in T : IsFiniteSet(s)
  BY StepsAre, AliasesAreFinite
<1> HIDE DEF D, f, T
<1>5. IsFiniteSet(T)
  BY <1>1, <1>2, FS_Surjection
<1>6. IsFiniteSet(UNION T)
  BY <1>4, <1>5, FS_UNION
<1> QED BY <1>3, <1>6, FS_CardinalityType

(* The sums over cases: their steps and their aliases.                     *)
Lengths(C) == [c \in C |-> Len(c.steps)]
AliasCounts(C) == [c \in C |-> Cardinality(CaseAliases(c))]

CaseSet(C) == IsFiniteSet(C) /\ \A c \in C : IsCase(c)

(* The sums that the compiler bounds, over a set of cases.                *)
LEMMA CaseNumbers ==
  ASSUME NEW C, CaseSet(C)
  PROVE  /\ StepsOf(C) = SumOn(Lengths(C), C)
         /\ SumFunction([c \in C |-> Cardinality(CaseAliases(c))])
              = SumOn(AliasCounts(C), C)
         /\ \A c \in C : Lengths(C)[c] \in Nat /\ AliasCounts(C)[c] \in Nat
         /\ StepsOf(C) \in Nat /\ SumOn(AliasCounts(C), C) \in Nat
<1>1. IsFiniteSet(C) /\ \A c \in C : IsCase(c)
  BY DEF CaseSet
<1>2. /\ Lengths(C) = [c \in C |-> Len(c.steps)] /\ DOMAIN Lengths(C) = C
      /\ AliasCounts(C) = [c \in C |-> Cardinality(CaseAliases(c))]
      /\ DOMAIN AliasCounts(C) = C
  BY DEF Lengths, AliasCounts
<1>3. \A c \in C : Lengths(C)[c] \in Nat
  BY <1>1, StepsAre DEF Lengths
<1>4. \A c \in C : AliasCounts(C)[c] \in Nat
  BY <1>1, CaseAliasesAreFinite DEF AliasCounts
<1>5. SumFunction(Lengths(C)) = SumOn(Lengths(C), C)
  BY <1>1, <1>2, SumIs
<1>6. SumFunction(AliasCounts(C)) = SumOn(AliasCounts(C), C)
  BY <1>1, <1>2, SumIs
<1>7. SumOn(Lengths(C), C) \in Nat
  BY <1>1, <1>3, SumIsNat
<1>8. SumOn(AliasCounts(C), C) \in Nat
  BY <1>1, <1>4, SumIsNat
<1>9. StepsOf(C) = SumFunction(Lengths(C))
  BY DEF StepsOf, Lengths
<1> QED
  BY <1>2, <1>3, <1>4, <1>5, <1>6, <1>7, <1>8, <1>9

(* A part of the cases has no more of any of them.                         *)
LEMMA FewerCases ==
  ASSUME NEW C, CaseSet(C), NEW D \in SUBSET C
  PROVE  /\ CaseSet(D) /\ StepsOf(D) <= StepsOf(C)
         /\ SumOn(AliasCounts(D), D) <= SumOn(AliasCounts(C), C)
<1>1. IsFiniteSet(C) /\ IsFiniteSet(D) /\ CaseSet(D)
  BY FS_Subset DEF CaseSet
<1>2. ASSUME NEW f, NEW g, \A c \in C : g[c] \in Nat,
             \A c \in D : f[c] \in Nat /\ f[c] = g[c]
      PROVE  SumOn(f, D) <= SumOn(g, C)
  <2>1. SumOn(f, D) = SumOn(g, D)
    BY <1>1, <1>2, SumOfEqual
  <2>2. SumOn(g, D) <= SumOn(g, C)
    BY <1>1, <1>2, SumGrows
  <2> QED BY <2>1, <2>2
<1>3. SumOn(Lengths(D), D) <= SumOn(Lengths(C), C)
  <2>1. \A c \in C : Lengths(C)[c] \in Nat
    BY CaseNumbers
  <2>2. \A c \in D : Lengths(D)[c] = Lengths(C)[c]
    BY DEF Lengths
  <2> QED BY <1>2, <2>1, <2>2
<1>4. SumOn(AliasCounts(D), D) <= SumOn(AliasCounts(C), C)
  <2>1. \A c \in C : AliasCounts(C)[c] \in Nat
    BY CaseNumbers
  <2>2. \A c \in D : AliasCounts(D)[c] = AliasCounts(C)[c]
    BY DEF AliasCounts
  <2> QED BY <1>2, <2>1, <2>2
<1>5. StepsOf(D) = SumOn(Lengths(D), D) /\ StepsOf(C) = SumOn(Lengths(C), C)
  BY <1>1, CaseNumbers
<1> QED BY <1>1, <1>3, <1>4, <1>5

(* What a case weighs, as it is written and as it is compiled.             *)
LEMMA CaseMeasures ==
  ASSUME NEW c, IsCase(c), NEW m \in Measures
  PROVE  /\ ArgumentWork(c)[m] \in Nat /\ CaseWeight(c)[m] \in Nat
         /\ TemplateWeight(c)[m] \in Nat
<1> DEFINE f == [i \in DOMAIN c.steps |->
                   Analysis[c.steps[i].args].resolvedWeight["resource"][m]]
           g == [i \in DOMAIN c.steps |-> Analysis[c.steps[i].args].weight[m]]
           n == c.frame[m]
<1>1. /\ IsFiniteSet(DOMAIN c.steps) /\ n \in Nat
      /\ \A i \in DOMAIN c.steps : c.steps[i].args \in DOMAIN Tree
  BY StepsAre DEF IsCase
<1>2. "resource" \in PathKinds
  BY DEF PathKinds
<1>3. \A i \in DOMAIN c.steps : f[i] \in Nat /\ g[i] \in Nat
  BY <1>1, <1>2, WeightsAre
<1>4. DOMAIN f = DOMAIN c.steps /\ DOMAIN g = DOMAIN c.steps
  OBVIOUS
<1>5. ArgumentWork(c)[m] = SumFunction(f)
  BY DEF ArgumentWork
<1>6. TemplateWeight(c)[m] = n + SumFunction(g)
  BY DEF TemplateWeight
<1>7. CaseWeight(c)[m] = n + ArgumentWork(c)[m]
  BY DEF CaseWeight
<1> HIDE DEF f, g, n
<1>8. SumFunction(f) \in Nat
  BY <1>1, <1>3, <1>4, SumOver
<1>9. SumFunction(g) \in Nat
  BY <1>1, <1>3, <1>4, SumOver
<1> QED BY <1>1, <1>5, <1>6, <1>7, <1>8, <1>9

-----------------------------------------------------------------------------
(* The two kinds of paths.                                                 *)
Lighter(t, u) ==
  /\ DOMAIN t = DOMAIN u /\ IsFiniteSet(DOMAIN t)
  /\ \A p \in DOMAIN t :
       /\ t[p].kind \in NodeKinds /\ u[p].kind \in NodeKinds
       /\ \/ t[p].kind = u[p].kind
          \/ t[p].kind = "proposal" /\ u[p].kind = "resource"

(* Shorter paths make a tree that weighs no more.                          *)
LEMMA LighterWeighs ==
  ASSUME NEW t, NEW u, Lighter(t, u), NEW m \in Measures
  PROVE  Weigh(t)[m] \in Nat /\ Weigh(u)[m] \in Nat /\ Weigh(t)[m] <= Weigh(u)[m]
<1> DEFINE f == [p \in DOMAIN t |-> Weight[m][t[p].kind]]
           g == [p \in DOMAIN u |-> Weight[m][u[p].kind]]
<1>1. /\ DOMAIN t = DOMAIN u /\ IsFiniteSet(DOMAIN t)
      /\ DOMAIN f = DOMAIN t /\ DOMAIN g = DOMAIN u
  BY DEF Lighter
<1>2. ASSUME NEW p \in DOMAIN t
      PROVE  f[p] \in Nat /\ g[p] \in Nat /\ f[p] <= g[p]
  <2>1. f[p] = Weight[m][t[p].kind] /\ g[p] = Weight[m][u[p].kind]
    BY <1>1
  <2>2. t[p].kind \in NodeKinds /\ u[p].kind \in NodeKinds
    BY DEF Lighter
  <2>3. /\ Weight[m][t[p].kind] \in Nat /\ Weight[m][u[p].kind] \in Nat
        /\ Weight[m]["proposal"] <= Weight[m]["resource"]
    BY <2>2, WeightIs
  <2>4. CASE t[p].kind = u[p].kind
    BY <2>1, <2>3, <2>4
  <2>5. CASE t[p].kind = "proposal" /\ u[p].kind = "resource"
    BY <2>1, <2>3, <2>5
  <2> QED BY <2>4, <2>5 DEF Lighter
<1>3. Weigh(t)[m] = SumFunction(f) /\ Weigh(u)[m] = SumFunction(g)
  BY DEF Weigh
<1> HIDE DEF f, g
<1>4. SumFunction(f) <= SumFunction(g)
  BY <1>1, <1>2, SumOverLarger
<1>5. SumFunction(f) \in Nat
  BY <1>1, <1>2, SumOver
<1>6. SumFunction(g) \in Nat
  BY <1>1, <1>2, SumOver
<1> QED BY <1>3, <1>4, <1>5, <1>6

LEMMA LighterPart ==
  ASSUME NEW t, NEW u, Lighter(t, u), NEW p
  PROVE  Lighter(Subtree(t, p), Subtree(u, p))
<1> DEFINE D == {x \in DOMAIN t : IsPrefix(p, x)}
<1>1. /\ DOMAIN Subtree(t, p) = D /\ DOMAIN Subtree(u, p) = D
      /\ \A x \in D : Subtree(t, p)[x] = t[x] /\ Subtree(u, p)[x] = u[x]
  BY DEF Subtree, Lighter
<1>2. IsFiniteSet(D)
  BY FS_Subset DEF Lighter
<1>3. D \subseteq DOMAIN t
  OBVIOUS
<1> HIDE DEF D
<1> QED BY <1>1, <1>2, <1>3 DEF Lighter

LEMMA LighterProposal ==
  ASSUME NEW a \in DOMAIN Tree
  PROVE  /\ Lighter(Analysis[a].resolved["proposal"], Analysis[a].resolved["resource"])
         /\ \A path \in PathKinds :
              Lighter(Analysis[a].resolved[path], Analysis[a].resolved[path])
<1>1. "proposal" \in PathKinds /\ "resource" \in PathKinds
  BY DEF PathKinds
<1>2. ASSUME NEW path \in PathKinds
      PROVE  Lighter(Analysis[a].resolved[path], Analysis[a].resolved[path])
  BY ResolvedIs, ResolvedKinds DEF Lighter
<1> DEFINE t == Analysis[a].resolved["proposal"]
           u == Analysis[a].resolved["resource"]
<1>3. DOMAIN t = DOMAIN u /\ IsFiniteSet(DOMAIN t)
  BY <1>1, ResolvedIs
<1>4. ASSUME NEW p \in DOMAIN t
      PROVE  /\ t[p].kind \in NodeKinds /\ u[p].kind \in NodeKinds
             /\ \/ t[p].kind = u[p].kind
                \/ t[p].kind = "proposal" /\ u[p].kind = "resource"
  <2>1. t[p].kind = IF Analyzable(Tree[a]) /\ HasMarker(Tree[a], p)
                    THEN "proposal" ELSE Tree[a][p].kind
    BY <1>1, ResolvedIs
  <2>2. u[p].kind = IF Analyzable(Tree[a]) /\ HasMarker(Tree[a], p)
                    THEN "resource" ELSE Tree[a][p].kind
    BY <1>1, <1>3, ResolvedIs
  <2>3. t[p].kind \in NodeKinds
    BY <1>1, ResolvedKinds
  <2>4. u[p].kind \in NodeKinds
    BY <1>1, <1>3, ResolvedKinds
  <2> QED BY <2>1, <2>2, <2>3, <2>4
<1> HIDE DEF t, u
<1>5. Lighter(t, u)
  BY <1>3, <1>4 DEF Lighter
<1> QED BY <1>2, <1>5 DEF t, u

(* A proposal is judged with no more bytes than it is compiled with.       *)
LEMMA ShorterProposal ==
  ASSUME NEW s, s.args \in DOMAIN Tree
  PROVE  ResolvedBytes(s, "agent_proposed") <= ResolvedBytes(s, "manual")
<1>1. "bytes" \in Measures /\ "proposal" \in PathKinds /\ "resource" \in PathKinds
  BY DEF Measures, PathKinds
<1> DEFINE a == s.args
<1>2. /\ Analysis[a].resolvedWeight["proposal"] = Weigh(Analysis[a].resolved["proposal"])
      /\ Analysis[a].resolvedWeight["resource"] = Weigh(Analysis[a].resolved["resource"])
  BY <1>1, AnalysisIs
<1>3. Weigh(Analysis[a].resolved["proposal"])["bytes"]
        <= Weigh(Analysis[a].resolved["resource"])["bytes"]
  BY <1>1, LighterProposal, LighterWeighs
<1>4. /\ PathKind("agent_proposed") = "proposal" /\ PathKind("manual") = "resource"
  BY DEF PathKind
<1> QED BY <1>2, <1>3, <1>4 DEF ResolvedBytes

(* What a step is written out for has a size, and is no more of a proposal *)
(* that the rules cannot tell from the manual case.                        *)
SameOrigin(rules, o, p) == \A r \in rules : o \in r.origins <=> p \in r.origins
SameAdmitted(rules, s, o, p) ==
  \A r \in rules : \A j \in DOMAIN r.arguments :
    Admits(r.arguments[j], Resolved(s, o)) <=> Admits(r.arguments[j], Resolved(s, p))

LEMMA CanonicalIsNat ==
  ASSUME NEW a, NEW s, s.args \in DOMAIN Tree, NEW o
  PROVE  StepCanonical(a, s, o) \in Nat
<1> DEFINE t == Resolved(s, o)
           C == Compared(a.rules, s.tool, o, t)
           f == [at \in C |-> Weigh(Subtree(t, at)).bytes]
<1>1. "bytes" \in Measures /\ PathKind(o) \in PathKinds
  BY DEF Measures, PathKind, PathKinds
<1>2. Lighter(t, t)
  BY <1>1, LighterProposal DEF Resolved
<1> HIDE DEF t
<1>3. C \subseteq DOMAIN t
  BY DEF Compared
<1>4. IsFiniteSet(C)
  BY <1>2, <1>3, FS_Subset DEF Lighter
<1>5. ASSUME NEW at \in C
      PROVE  Weigh(Subtree(t, at))["bytes"] \in Nat
  BY <1>1, <1>2, LighterPart, LighterWeighs
<1>6. DOMAIN f = C /\ \A at \in C : f[at] \in Nat
  BY <1>5
<1>7. StepCanonical(a, s, o) = SumFunction(f)
  BY DEF StepCanonical, CanonicalBytes, t
<1> HIDE DEF f, C
<1> QED BY <1>4, <1>6, <1>7, SumOver

LEMMA CanonicalShorter ==
  ASSUME NEW a, \A r \in a.rules : IsRule(r), NEW s, s.args \in DOMAIN Tree,
         SameOrigin(a.rules, "agent_proposed", "manual"),
         SameAdmitted(a.rules, s, "agent_proposed", "manual")
  PROVE  StepCanonical(a, s, "agent_proposed") <= StepCanonical(a, s, "manual")
<1> DEFINE t == Resolved(s, "agent_proposed")
           u == Resolved(s, "manual")
           C == Compared(a.rules, s.tool, "agent_proposed", t)
           D == Compared(a.rules, s.tool, "manual", u)
           f == [at \in C |-> Weigh(Subtree(t, at)).bytes]
           g == [at \in D |-> Weigh(Subtree(u, at)).bytes]
<1>1. "bytes" \in Measures
  BY DEF Measures
<1>2. Lighter(t, u)
  BY LighterProposal DEF Resolved, PathKind
<1>3. ASSUME NEW r \in a.rules
      PROVE  /\ "agent_proposed" \in r.origins <=> "manual" \in r.origins
             /\ \A j \in DOMAIN r.arguments :
                  Admits(r.arguments[j], t) <=> Admits(r.arguments[j], u)
             /\ \A i \in DOMAIN r.arguments : 1..(i - 1) \subseteq DOMAIN r.arguments
  <2>1. r.arguments \in Seq([at : Seq(DOMAIN KeyClass), values : SUBSET Nodes,
                             operator : {"equals", "one_of", "string_prefix"}])
    BY DEF IsRule
  <2>2. DOMAIN r.arguments = 1..Len(r.arguments) /\ Len(r.arguments) \in Nat
    BY <2>1
  <2>3. \A i \in DOMAIN r.arguments : 1..(i - 1) \subseteq DOMAIN r.arguments
    BY <2>2
  <2> QED BY <2>3 DEF SameOrigin, SameAdmitted
<1>4. DOMAIN t = DOMAIN u /\ IsFiniteSet(DOMAIN t)
  BY <1>2 DEF Lighter
<1> HIDE DEF t, u
<1>5. C = D
  <2>1. ASSUME NEW at \in DOMAIN t, NEW r \in a.rules, NEW i \in DOMAIN r.arguments
        PROVE  (\A j \in 1..(i - 1) : Admits(r.arguments[j], t))
                 <=> (\A j \in 1..(i - 1) : Admits(r.arguments[j], u))
    BY <1>3
  <2> QED BY <1>3, <1>4, <2>1 DEF Compared
<1>6. C \subseteq DOMAIN t
  BY DEF Compared
<1>7. IsFiniteSet(C)
  BY <1>4, <1>6, FS_Subset
<1>8. ASSUME NEW at \in C
      PROVE  /\ Weigh(Subtree(t, at))["bytes"] \in Nat
             /\ Weigh(Subtree(u, at))["bytes"] \in Nat
             /\ Weigh(Subtree(t, at))["bytes"] <= Weigh(Subtree(u, at))["bytes"]
  BY <1>1, <1>2, LighterPart, LighterWeighs
<1>9. /\ DOMAIN f = C /\ DOMAIN g = C
      /\ \A at \in C : f[at] \in Nat /\ g[at] \in Nat /\ f[at] <= g[at]
  BY <1>5, <1>8
<1>10. /\ StepCanonical(a, s, "agent_proposed") = SumFunction(f)
       /\ StepCanonical(a, s, "manual") = SumFunction(g)
  BY DEF StepCanonical, CanonicalBytes, t, u
<1> HIDE DEF f, g, C, D
<1> QED BY <1>7, <1>9, <1>10, SumOverLarger

LEMMA CaseCanonicalIs ==
  ASSUME NEW a, NEW c, IsCase(c), NEW o
  PROVE  /\ CaseCanonical(a, c, o) \in Nat
         /\ \A i \in DOMAIN c.steps : StepCanonical(a, c.steps[i], o) <= CaseCanonical(a, c, o)
<1> DEFINE f == [i \in DOMAIN c.steps |-> StepCanonical(a, c.steps[i], o)]
<1>1. /\ IsFiniteSet(DOMAIN c.steps)
      /\ \A i \in DOMAIN c.steps : c.steps[i].args \in DOMAIN Tree
  BY StepsAre
<1>2. \A i \in DOMAIN c.steps : StepCanonical(a, c.steps[i], o) \in Nat
  BY <1>1, CanonicalIsNat
<1>3. /\ DOMAIN f = DOMAIN c.steps
      /\ \A i \in DOMAIN c.steps : f[i] = StepCanonical(a, c.steps[i], o)
  OBVIOUS
<1>4. CaseCanonical(a, c, o) = SumFunction(f)
  BY DEF CaseCanonical
<1> HIDE DEF f
<1>5. SumFunction(f) \in Nat
  BY <1>1, <1>2, <1>3, SumOver
<1>6. \A i \in DOMAIN f : f[i] <= SumFunction(f)
  BY <1>1, <1>2, <1>3, SumOverPart
<1> QED BY <1>3, <1>4, <1>5, <1>6

-----------------------------------------------------------------------------
(* The numbers of an audit.                                                *)
All(a) == a.suite \union a.manual

(* The numbers of an audit.                                               *)
LEMMA AuditNumbers ==
  ASSUME NEW a, IsAudit(a)
  PROVE  /\ CaseSet(All(a)) /\ CaseSet(a.suite) /\ CaseSet(a.manual)
         /\ Cardinality(a.suite) \in Nat /\ Cardinality(a.manual) \in Nat
         /\ Factor(a) \in Nat /\ TotalCases(a) \in Nat /\ TotalSteps(a) \in Nat
         /\ StepsOf(All(a)) \in Nat /\ a.bounds \in Bounds
         /\ TotalSteps(a) = Factor(a) * StepsOf(All(a))
<1>1. CaseSet(All(a)) /\ CaseSet(a.suite) /\ CaseSet(a.manual)
  <2>1. IsFiniteSet(a.suite) /\ IsFiniteSet(a.manual)
    BY DEF IsAudit
  <2>2. IsFiniteSet(a.suite \union a.manual)
    BY <2>1, FS_Union
  <2> QED BY <2>1, <2>2 DEF IsAudit, CaseSet, All
<1>2. Cardinality(a.suite) \in Nat /\ Cardinality(a.manual) \in Nat
  BY <1>1, FS_CardinalityType DEF CaseSet
<1>3. Cardinality(a.variants) \in Nat
  BY FS_CardinalityType DEF IsAudit
<1>4. a.repetitions \in Nat /\ a.bounds \in Bounds
  BY DEF IsAudit
<1>5. Factor(a) \in Nat
  BY <1>3, <1>4 DEF Factor
<1>6. StepsOf(All(a)) \in Nat
  BY <1>1, CaseNumbers
<1>7. TotalSteps(a) = Factor(a) * StepsOf(All(a))
  BY DEF TotalSteps, All
<1> QED
  BY <1>1, <1>2, <1>4, <1>5, <1>6, <1>7 DEF TotalCases

-----------------------------------------------------------------------------
(* Compiling a case.                                                       *)
CaseCall(a, c, o, x, y, i) ==
  Call(a, c.steps[i], o, IF o = "mandatory" THEN c.predicted ELSE {}, x, y)
StepRanks(a, c, o, x, y, i) == EvaluateDispatch(a.rules, CaseCall(a, c, o, x, y, i))
CaseRefused(a, c, o, x, y) ==
  \E i \in DOMAIN c.steps : ~StepAccepted(a, c.steps[i], o) \/ StepRanks(a, c, o, x, y, i) = {}
CaseRanks(a, c, o, x, y) ==
  {c.approval} \union UNION {StepRanks(a, c, o, x, y, i) : i \in DOMAIN c.steps}
CaseRank(a, c, o, x, y) == MaximumApproval(CaseRanks(a, c, o, x, y))

(* Compiling a case returns nothing, or one rank.                         *)
LEMMA CompileCaseIs ==
  ASSUME NEW a, NEW c, NEW o, NEW x, NEW y
  PROVE  CompileCase(a, c, o, x, y) =
           IF CaseRefused(a, c, o, x, y) THEN {} ELSE {CaseRank(a, c, o, x, y)}
BY DEF CompileCase, CaseApproval, CaseRefused, CaseRank, CaseRanks, StepRanks, CaseCall

(* The call of a step is one that the policy can evaluate.                *)
LEMMA CallIs ==
  ASSUME NEW a, IsAudit(a), NEW c, IsCase(c), NEW o, NEW x \in Nat, NEW y \in Nat,
         NEW i \in DOMAIN c.steps
  PROVE  IsCall(CaseCall(a, c, o, x, y, i))
<1>1. ResolvedBytes(c.steps[i], o) \in Nat
  BY StepsAre, ResolvedSize
<1>2. a.bounds \in Bounds
  BY DEF IsAudit
<1> QED BY <1>1, <1>2 DEF IsCall, CaseCall, Call

LEMMA DispatchRanks ==
  ASSUME NEW rules, \A r \in rules : IsRule(r), NEW call
  PROVE  EvaluateDispatch(rules, call) \subseteq Ranks
<1> DEFINE S == {r.approval : r \in Positive(rules, call)}
<1>1. S \in SUBSET Ranks
  BY DEF Positive, Satisfied, IsRule
<1> HIDE DEF S
<1>2. MaximumApproval(S) \in Ranks
  BY <1>1, MaximumIs
<1>3. RankOf(rules, call) \in Ranks
  BY <1>2 DEF RankOf, S
<1> QED BY <1>3, DispatchIs

(* The approval of a case is no lower than what it asks for.              *)
LEMMA CaseRanksAre ==
  ASSUME NEW a, IsAudit(a), NEW c, IsCase(c), NEW o, NEW x, NEW y
  PROVE  /\ CaseRanks(a, c, o, x, y) \in SUBSET Ranks
         /\ CaseRank(a, c, o, x, y) \in Ranks
         /\ c.approval <= CaseRank(a, c, o, x, y)
<1>1. \A r \in a.rules : IsRule(r)
  BY DEF IsAudit
<1>2. \A i \in DOMAIN c.steps : StepRanks(a, c, o, x, y, i) \subseteq Ranks
  BY <1>1, DispatchRanks DEF StepRanks
<1>3. c.approval \in Ranks
  BY DEF IsCase
<1>4. CaseRanks(a, c, o, x, y) \in SUBSET Ranks /\ c.approval \in CaseRanks(a, c, o, x, y)
  BY <1>2, <1>3 DEF CaseRanks
<1> QED BY <1>4, MaximumIs DEF CaseRank

(* A tighter policy compiles a case only if the other does, and for no     *)
(* lower an approval.                                                      *)
LEMMA TighterCase ==
  ASSUME NEW a, IsAudit(a), NEW b, IsAudit(b),
         AsTight(b.rules, a.rules), \A r \in a.rules : RuleWellFormed(r),
         b.bounds = a.bounds, b.resources = a.resources,
         NEW c, IsCase(c), NEW o, NEW x \in Nat, NEW y \in Nat,
         CompileCase(b, c, o, x, y) # {}
  PROVE  /\ CompileCase(a, c, o, x, y) = {CaseRank(a, c, o, x, y)}
         /\ CompileCase(b, c, o, x, y) = {CaseRank(b, c, o, x, y)}
         /\ CaseRank(a, c, o, x, y) <= CaseRank(b, c, o, x, y)
<1>1. ~CaseRefused(b, c, o, x, y)
  BY CompileCaseIs
<1>2. ASSUME NEW i \in DOMAIN c.steps
      PROVE  /\ StepAccepted(a, c.steps[i], o)
             /\ StepRanks(a, c, o, x, y, i) # {}
             /\ \A p \in StepRanks(a, c, o, x, y, i) :
                  \E q \in StepRanks(b, c, o, x, y, i) : p <= q
  <2> DEFINE call == CaseCall(a, c, o, x, y, i)
  <2>1. CaseCall(b, c, o, x, y, i) = call
    BY DEF CaseCall, Call, ClassesOf
  <2>2. IsCall(call)
    BY CallIs
  <2>3. EvaluateDispatch(b.rules, call) # {}
    BY <1>1, <2>1 DEF CaseRefused, StepRanks
  <2>4. \A r \in a.rules : RuleWellFormed(r) /\ IsRule(r)
    BY DEF IsAudit
  <2> HIDE DEF call
  <2>5. /\ EvaluateDispatch(b.rules, call) = {RankOf(b.rules, call)}
        /\ EvaluateDispatch(a.rules, call) = {RankOf(a.rules, call)}
        /\ RankOf(a.rules, call) <= RankOf(b.rules, call)
    BY <2>2, <2>3, <2>4, TighterDispatch
  <2>6. StepAccepted(a, c.steps[i], o)
    BY <1>1 DEF CaseRefused, StepAccepted
  <2>7. /\ StepRanks(a, c, o, x, y, i) = EvaluateDispatch(a.rules, call)
        /\ StepRanks(b, c, o, x, y, i) = EvaluateDispatch(b.rules, call)
    BY <2>1 DEF StepRanks, call
  <2> QED BY <2>5, <2>6, <2>7
<1>3. ~CaseRefused(a, c, o, x, y)
  BY <1>2 DEF CaseRefused
<1>4. CaseRank(a, c, o, x, y) <= CaseRank(b, c, o, x, y)
  <2> DEFINE S == CaseRanks(a, c, o, x, y)
             T == CaseRanks(b, c, o, x, y)
  <2>1. S \in SUBSET Ranks /\ T \in SUBSET Ranks
    BY CaseRanksAre
  <2>2. \A p \in S : \E q \in T : p <= q
    <3>1. c.approval \in T /\ c.approval <= c.approval
      BY DEF CaseRanks, IsCase, Ranks
    <3>2. \A i \in DOMAIN c.steps : \A p \in StepRanks(a, c, o, x, y, i) :
            \E q \in T : p <= q
      BY <1>2 DEF CaseRanks
    <3> HIDE DEF T
    <3> QED BY <3>1, <3>2 DEF CaseRanks
  <2> HIDE DEF S, T
  <2>3. MaximumApproval(S) <= MaximumApproval(T)
    BY <2>1, <2>2, MaximumGrows
  <2> QED BY <2>3 DEF CaseRank, S, T
<1> QED BY <1>1, <1>3, <1>4, CompileCaseIs

(* The same steps, under the same rules, within the same bounds, come to   *)
(* the same, whatever the case is called and where it comes from, if its   *)
(* paths make no difference.                                               *)
SameTotals(bounds, x, y, v, w) ==
  (x = v /\ y = w) \/ (Totals(bounds, x, y) /\ Totals(bounds, v, w))

Conservative(c, o) == IF o = "mandatory" THEN c.predicted ELSE {}

SamePaths(a, s, o, p) ==
  /\ StepAccepted(a, s, o) <=> StepAccepted(a, s, p)
  /\ SameAdmitted(a.rules, s, o, p)
  /\ \/ ResolvedBytes(s, o) = ResolvedBytes(s, p)
     \/ /\ ResolvedBytes(s, o) \in Nat /\ ResolvedBytes(s, p) \in Nat
        /\ ResolvedBytes(s, o) <= a.bounds.argument
        /\ ResolvedBytes(s, p) <= a.bounds.argument

LEMMA SamePathKind ==
  ASSUME NEW a, NEW s, NEW o, NEW p, PathKind(o) = PathKind(p)
  PROVE  SamePaths(a, s, o, p)
BY DEF SamePaths, SameAdmitted, StepAccepted, ResolvedBytes, Resolved

LEMMA SameCase ==
  ASSUME NEW a, IsAudit(a), NEW b, b.rules = a.rules, b.bounds = a.bounds,
         b.resources = a.resources,
         NEW c, NEW d, d.steps = c.steps, d.approval = c.approval,
         NEW o, NEW p, SameOrigin(a.rules, o, p), Conservative(c, o) = Conservative(d, p),
         \A i \in DOMAIN c.steps : SamePaths(a, c.steps[i], o, p),
         NEW x, NEW y, NEW v, NEW w, SameTotals(a.bounds, x, y, v, w)
  PROVE  /\ CompileCase(a, c, o, x, y) = CompileCase(b, d, p, v, w)
         /\ CaseRank(a, c, o, x, y) = CaseRank(b, d, p, v, w)
<1>1. ASSUME NEW i \in DOMAIN c.steps
      PROVE  /\ StepAccepted(a, c.steps[i], o) <=> StepAccepted(b, d.steps[i], p)
             /\ StepRanks(a, c, o, x, y, i) = StepRanks(b, d, p, v, w, i)
  <2> DEFINE s == c.steps[i]
             k == CaseCall(a, c, o, x, y, i)
             l == CaseCall(b, d, p, v, w, i)
  <2>0. SamePaths(a, s, o, p)
    OBVIOUS
  <2>1. /\ k.classes = l.classes /\ k.tool = l.tool
        /\ k.arguments = Resolved(s, o) /\ l.arguments = Resolved(s, p)
        /\ k.bytes = ResolvedBytes(s, o) /\ l.bytes = ResolvedBytes(s, p)
        /\ k.bounds = l.bounds /\ k.origin = o /\ l.origin = p /\ l.bounds = a.bounds
        /\ k.cases = x /\ k.steps = y /\ l.cases = v /\ l.steps = w
    BY DEF CaseCall, Call, ClassesOf, Conservative
  <2> HIDE DEF k, l, s
  <2>2. ASSUME NEW r \in a.rules
        PROVE  BaseSelectorMatches(r, k) <=> BaseSelectorMatches(r, l)
    <3>1. ArgumentsMatch(r, k) <=> ArgumentsMatch(r, l)
      BY <2>0, <2>1 DEF ArgumentsMatch, SamePaths, SameAdmitted
    <3> QED BY <2>1, <3>1 DEF BaseSelectorMatches, SameOrigin
  <2>3. ASSUME NEW r \in a.rules
        PROVE  DispatchWithinLimits(r, k) <=> DispatchWithinLimits(r, l)
    <3>1. r.limits \in Bounds /\ a.bounds \in Bounds
      BY DEF IsAudit, IsRule
    <3>2. \/ k.bytes = l.bytes
          \/ ArgumentFits(l.bounds, k) /\ ArgumentFits(l.bounds, l)
      BY <2>0, <2>1 DEF SamePaths, ArgumentFits
    <3>3. \/ k.cases = l.cases /\ k.steps = l.steps
          \/ /\ Totals(l.bounds, k.cases, k.steps)
             /\ Totals(l.bounds, l.cases, l.steps)
      BY <2>1 DEF SameTotals
    <3> QED BY <2>1, <3>1, <3>2, <3>3, TotalsWithinLimits
  <2>4. Alike(a.rules, k, l)
    BY <2>1, <2>2, <2>3 DEF Alike
  <2>5. EvaluateDispatch(a.rules, k) = EvaluateDispatch(a.rules, l)
    BY <2>4, AlikeDispatch
  <2>6. StepRanks(a, c, o, x, y, i) = StepRanks(b, d, p, v, w, i)
    BY <2>5 DEF StepRanks, k, l
  <2>7. StepAccepted(a, s, p) <=> StepAccepted(b, s, p)
    BY DEF StepAccepted
  <2>8. StepAccepted(a, s, o) <=> StepAccepted(a, s, p)
    BY <2>0 DEF SamePaths
  <2> QED BY <2>6, <2>7, <2>8 DEF s
<1>2. CaseRefused(a, c, o, x, y) <=> CaseRefused(b, d, p, v, w)
  BY <1>1 DEF CaseRefused
<1>3. CaseRanks(a, c, o, x, y) = CaseRanks(b, d, p, v, w)
  BY <1>1 DEF CaseRanks
<1> QED BY <1>2, <1>3, CompileCaseIs DEF CaseRank

-----------------------------------------------------------------------------
(* Expanding the cases.                                                    *)
Piece(a, c, v, r) ==
  [caseId |-> c.caseId, origin |-> OriginIn(a, c), kind |-> c.kind,
   variant |-> v, repetition |-> r,
   steps |-> [i \in DOMAIN c.steps |-> Resolved(c.steps[i], OriginIn(a, c))],
   aliases |-> CaseAliases(c), weight |-> CaseWeight(c),
   approval |-> CHOOSE rank \in Compiled(a, c) : TRUE]
Pieces(a, T) == {Piece(a, c, v, r) : c \in T, v \in a.variants, r \in 1..a.repetitions}

UniqueIds(T) == \A c, d \in T : c.caseId = d.caseId => c = d
Template(T, e) == CHOOSE c \in T : c.caseId = e.caseId

(* A plan is made of the pieces of its templates.                         *)
LEMMA PlanIs ==
  ASSUME NEW a
  PROVE  Plan(a) = Pieces(a, All(a))
BY DEF Plan, Pieces, Piece, All

ResolvedSteps(c) == [i \in DOMAIN c.steps |-> Analysis[c.steps[i].args].resolved["resource"]]
TheApproval(a, c) == CHOOSE rank \in Compiled(a, c) : TRUE

LEMMA PieceIs ==
  ASSUME NEW a, NEW c, NEW v, NEW r
  PROVE  /\ Piece(a, c, v, r).caseId = c.caseId
         /\ Piece(a, c, v, r).origin = OriginIn(a, c)
         /\ Piece(a, c, v, r).kind = c.kind
         /\ Piece(a, c, v, r).variant = v /\ Piece(a, c, v, r).repetition = r
         /\ Piece(a, c, v, r).aliases = CaseAliases(c)
         /\ Piece(a, c, v, r).weight = CaseWeight(c)
         /\ Piece(a, c, v, r).steps = ResolvedSteps(c)
         /\ Piece(a, c, v, r).approval = TheApproval(a, c)
BY DEF Piece, ResolvedSteps, TheApproval, Resolved, PathKind, OriginIn

LEMMA TemplateIs ==
  ASSUME NEW T, UniqueIds(T), NEW c \in T, NEW e, e.caseId = c.caseId
  PROVE  Template(T, e) = c
BY DEF UniqueIds, Template

LEMMA TemplateOfPiece ==
  ASSUME NEW T, UniqueIds(T), NEW c \in T, NEW a, NEW v, NEW r
  PROVE  Template(T, Piece(a, c, v, r)) = c
<1>1. Piece(a, c, v, r).caseId = c.caseId
  BY PieceIs
<1> QED BY <1>1, TemplateIs

(* A piece has as many steps as its template.                             *)
LEMMA PieceSteps ==
  ASSUME NEW a, NEW c, IsCase(c), NEW v, NEW r
  PROVE  /\ Len(Piece(a, c, v, r).steps) = Len(c.steps)
         /\ DOMAIN Piece(a, c, v, r).steps = DOMAIN c.steps
<1> DEFINE n == Len(c.steps)
           s == [i \in 1..n |-> Analysis[c.steps[i].args].resolved["resource"]]
           X == {s[i] : i \in 1..n}
<1>1. n \in Nat /\ DOMAIN c.steps = 1..n
  BY StepsAre
<1>2. Piece(a, c, v, r).steps = s
  <2>1. Piece(a, c, v, r).steps = ResolvedSteps(c)
    BY PieceIs
  <2> QED BY <1>1, <2>1 DEF ResolvedSteps
<1>3. s \in [1..n -> X] /\ DOMAIN s = 1..n
  OBVIOUS
<1> HIDE DEF n, s, X
<1>4. s \in Seq(X) /\ Len(s) = n
  BY <1>1, <1>3
<1> QED BY <1>1, <1>2, <1>3, <1>4 DEF n

(* Every template has the same number of expansions.                       *)
LEMMA Expansions ==
  ASSUME NEW a, IsAudit(a), NEW c
  PROVE  /\ IsFiniteSet(Pieces(a, {c}))
         /\ Cardinality(Pieces(a, {c})) = Factor(a)
<1> DEFINE V == a.variants
           R == 1..a.repetitions
           P == V \X R
           f == [z \in P |-> Piece(a, c, z[1], z[2])]
           F == Pieces(a, {c})
<1>1. IsFiniteSet(V) /\ a.repetitions \in Nat
  BY DEF IsAudit
<1>2. IsFiniteSet(R) /\ Cardinality(R) = a.repetitions
  <2>1. PICK n : n = a.repetitions
    OBVIOUS
  <2>2. n \in Nat
    BY <1>1, <2>1
  <2>3. IsFiniteSet(1..n) /\ Cardinality(1..n) = IF 1 > n THEN 0 ELSE n - 1 + 1
    BY <2>2, FS_Interval
  <2>4. (IF 1 > n THEN 0 ELSE n - 1 + 1) = n
    BY <2>2
  <2> QED BY <2>1, <2>3, <2>4
<1>3. f \in [P -> F] /\ \A e \in F : \E z \in P : f[z] = e
  <2>1. \A z \in P : f[z] \in F
    BY DEF Pieces
  <2>2. ASSUME NEW e \in F
        PROVE  \E z \in P : f[z] = e
    <3>1. PICK v \in V, r \in R : e = Piece(a, c, v, r)
      BY DEF Pieces
    <3>2. <<v, r>> \in P /\ f[<<v, r>>] = e
      BY <3>1
    <3> QED BY <3>2
  <2> QED BY <2>1, <2>2
<1>4. \A y, z \in P : f[y] = f[z] => y = z
  <2> SUFFICES ASSUME NEW y \in P, NEW z \in P, f[y] = f[z]
               PROVE  y = z
    OBVIOUS
  <2>1. \A w \in P : f[w] = Piece(a, c, w[1], w[2])
    OBVIOUS
  <2>2. Piece(a, c, y[1], y[2]).variant = y[1] /\ Piece(a, c, y[1], y[2]).repetition = y[2]
    BY PieceIs
  <2>3. Piece(a, c, z[1], z[2]).variant = z[1] /\ Piece(a, c, z[1], z[2]).repetition = z[2]
    BY PieceIs
  <2> HIDE DEF f
  <2>4. Piece(a, c, y[1], y[2]) = Piece(a, c, z[1], z[2])
    BY <2>1
  <2> HIDE DEF V, R
  <2> QED BY <2>2, <2>3, <2>4
<1> HIDE DEF f, F, V, R
<1>5. f \in Bijection(P, F)
  BY <1>3, <1>4 DEF Bijection, Injection, Surjection, IsInjective
<1>6. IsFiniteSet(P) /\ Cardinality(P) = Cardinality(V) * Cardinality(R)
  BY <1>1, <1>2, FS_Product
<1> HIDE DEF P
<1>7. ExistsBijection(P, F)
  BY <1>5 DEF ExistsBijection
<1>8. IsFiniteSet(F) /\ Cardinality(F) = Cardinality(P)
  BY <1>6, <1>7, FS_Bijection
<1>9. Cardinality(V) \in Nat
  BY <1>1, FS_CardinalityType
<1>10. Cardinality(P) = Factor(a)
  BY <1>1, <1>2, <1>6, <1>9 DEF Factor, V
<1> QED BY <1>8, <1>10 DEF F

LEMMA PiecesAreFinite ==
  ASSUME NEW a, IsAudit(a), NEW T, IsFiniteSet(T)
  PROVE  IsFiniteSet(Pieces(a, T))
<1> DEFINE f == [c \in T |-> Pieces(a, {c})]
           S == {f[c] : c \in T}
<1>1. f \in Surjection(T, S)
  BY DEF Surjection
<1>2. \A s \in S : IsFiniteSet(s)
  BY Expansions
<1>3. Pieces(a, T) = UNION S
  BY DEF Pieces
<1> HIDE DEF f, S
<1>4. IsFiniteSet(S)
  BY <1>1, FS_Surjection
<1> QED BY <1>2, <1>3, <1>4, FS_UNION

(* What is added up over the expansions is added up over the templates,    *)
(* as often as each of them is expanded.                                   *)
LEMMA ExpandedSum ==
  ASSUME NEW a, IsAudit(a), NEW T, IsFiniteSet(T), UniqueIds(T), NEW f, NEW g,
         \A c \in T : f[c] \in Nat,
         \A e \in Pieces(a, T) : g[e] = f[Template(T, e)]
  PROVE  SumOn(g, Pieces(a, T)) = Factor(a) * SumOn(f, T)
<1> DEFINE E == Pieces(a, T)
           key == [e \in E |-> Template(T, e)]
           m == Factor(a)
<1>1. IsFiniteSet(E)
  BY PiecesAreFinite
<1>2. m \in Nat
  BY AuditNumbers
<1>3. ASSUME NEW e \in E
      PROVE  key[e] \in T /\ g[e] \in Nat
  <2>1. PICK c \in T, v \in a.variants, r \in 1..a.repetitions : e = Piece(a, c, v, r)
    BY DEF Pieces
  <2>2. Template(T, e) = c
    BY <2>1, TemplateOfPiece
  <2> QED BY <2>2
<1>4. ASSUME NEW c \in T
      PROVE  SumOn(g, {e \in E : key[e] = c}) = m * f[c]
  <2> DEFINE F == {e \in E : key[e] = c}
             v == f[c]
  <2>1. F = Pieces(a, {c})
    <3>1. ASSUME NEW e \in F
          PROVE  e \in Pieces(a, {c})
      <4>1. PICK d \in T, w \in a.variants, r \in 1..a.repetitions : e = Piece(a, d, w, r)
        BY DEF Pieces
      <4>2. Template(T, e) = d
        BY <4>1, TemplateOfPiece
      <4> QED BY <4>1, <4>2 DEF Pieces
    <3>2. ASSUME NEW e \in Pieces(a, {c})
          PROVE  e \in F
      <4>1. PICK w \in a.variants, r \in 1..a.repetitions : e = Piece(a, c, w, r)
        BY DEF Pieces
      <4>2. Template(T, e) = c
        BY <4>1, TemplateOfPiece
      <4>3. e \in E
        BY <4>1 DEF Pieces
      <4> QED BY <4>2, <4>3
    <3> QED BY <3>1, <3>2
  <2>2. \A e \in F : g[e] = v
    OBVIOUS
  <2> HIDE DEF F, E, m
  <2>3. IsFiniteSet(F) /\ Cardinality(F) = m
    BY <2>1, Expansions DEF m
  <2>4. v \in Nat
    OBVIOUS
  <2> HIDE DEF v
  <2>5. SumOn(g, F) = Cardinality(F) * v
    BY <2>2, <2>3, <2>4, SumOfSame
  <2> QED BY <2>3, <2>5 DEF F, v
<1> HIDE DEF E, key, m
<1>5. IsExpansion(E, T, key, g, f, m)
  BY <1>1, <1>2, <1>3, <1>4 DEF IsExpansion
<1>6. SumOn(g, E) = m * SumOn(f, T)
  BY <1>5, SumExpands
<1> QED BY <1>6 DEF E, m

(* The size of a plan.                                                     *)
LEMMA PiecesCounted ==
  ASSUME NEW a, IsAudit(a), NEW T, IsFiniteSet(T), UniqueIds(T)
  PROVE  Cardinality(Pieces(a, T)) = Factor(a) * Cardinality(T)
<1> DEFINE E == Pieces(a, T)
           f == [c \in T |-> 1]
           g == [e \in E |-> 1]
<1>1. \A e \in E : g[e] = f[Template(T, e)]
  <2> SUFFICES ASSUME NEW e \in E
               PROVE  Template(T, e) \in T
    OBVIOUS
  <2>1. PICK c \in T, v \in a.variants, r \in 1..a.repetitions : e = Piece(a, c, v, r)
    BY DEF Pieces
  <2> QED BY <2>1, TemplateOfPiece
<1>2. (\A c \in T : f[c] = 1) /\ (\A e \in E : g[e] = 1)
  OBVIOUS
<1>3. IsFiniteSet(E)
  BY PiecesAreFinite
<1> HIDE DEF f, g
<1>4. SumOn(g, E) = Factor(a) * SumOn(f, T)
  BY <1>1, <1>2, ExpandedSum
<1> HIDE DEF E
<1>5. 1 \in Nat
  OBVIOUS
<1>6. SumOn(g, E) = Cardinality(E) * 1
  BY <1>2, <1>3, <1>5, SumOfSame
<1>7. SumOn(f, T) = Cardinality(T) * 1
  BY <1>2, <1>5, SumOfSame
<1>8. Cardinality(E) \in Nat /\ Cardinality(T) \in Nat
  BY <1>3, FS_CardinalityType
<1> QED BY <1>4, <1>6, <1>7, <1>8 DEF E

(* The steps of a plan.                                                    *)
LEMMA PiecesSteps ==
  ASSUME NEW a, IsAudit(a), NEW T, CaseSet(T), UniqueIds(T)
  PROVE  StepsOf(Pieces(a, T)) = Factor(a) * StepsOf(T)
<1> DEFINE E == Pieces(a, T)
           f == Lengths(T)
           g == [e \in E |-> Len(e.steps)]
<1>1. ASSUME NEW e \in E
      PROVE  g[e] = f[Template(T, e)]
  <2>1. PICK c \in T, v \in a.variants, r \in 1..a.repetitions : e = Piece(a, c, v, r)
    BY DEF Pieces
  <2>2. Template(T, e) = c
    BY <2>1, TemplateOfPiece
  <2>3. Len(e.steps) = Len(c.steps)
    BY <2>1, PieceSteps DEF CaseSet
  <2> QED BY <2>2, <2>3 DEF Lengths
<1>2. IsFiniteSet(T) /\ \A c \in T : f[c] \in Nat
  BY CaseNumbers DEF CaseSet
<1>3. IsFiniteSet(E)
  BY <1>2, PiecesAreFinite
<1>4. StepsOf(E) = SumFunction(g) /\ DOMAIN g = E
  BY DEF StepsOf
<1>5. StepsOf(T) = SumOn(f, T)
  BY CaseNumbers
<1> HIDE DEF f, g
<1>6. SumOn(g, E) = Factor(a) * SumOn(f, T)
  BY <1>1, <1>2, ExpandedSum
<1> HIDE DEF E
<1>7. SumFunction(g) = SumOn(g, E)
  BY <1>3, <1>4, SumIs
<1> QED BY <1>4, <1>5, <1>6, <1>7 DEF E

(* The weight of a plan: as often that of its templates, and its manifest. *)
CaseSum(C, m) == SumFunction([c \in C |-> CaseWeight(c)[m]])
AliasSum(a) == SumOn(AliasCounts(All(a)), All(a))

LEMMA CaseSumIs ==
  ASSUME NEW C, CaseSet(C), NEW m \in Measures
  PROVE  /\ CaseSum(C, m) \in Nat
         /\ \A D \in SUBSET C : CaseSum(D, m) \in Nat /\ CaseSum(D, m) <= CaseSum(C, m)
<1> DEFINE f == [c \in C |-> CaseWeight(c)[m]]
<1>1. IsFiniteSet(C) /\ \A c \in C : CaseWeight(c)[m] \in Nat
  BY CaseMeasures DEF CaseSet
<1>2. DOMAIN f = C /\ \A c \in C : f[c] = CaseWeight(c)[m]
  OBVIOUS
<1>3. CaseSum(C, m) = SumFunction(f)
  BY DEF CaseSum
<1> HIDE DEF f
<1>4. SumFunction(f) \in Nat
  BY <1>1, <1>2, SumOver
<1>5. ASSUME NEW D \in SUBSET C
      PROVE  CaseSum(D, m) \in Nat /\ CaseSum(D, m) <= CaseSum(C, m)
  <2> DEFINE g == [c \in D |-> CaseWeight(c)[m]]
  <2>1. DOMAIN g = D /\ \A c \in D : g[c] = f[c] /\ g[c] \in Nat
    BY <1>1, <1>2
  <2>2. CaseSum(D, m) = SumFunction(g)
    BY DEF CaseSum
  <2>3. IsFiniteSet(D)
    BY <1>1, FS_Subset
  <2> HIDE DEF g
  <2>4. SumFunction(g) \in Nat
    BY <2>1, <2>3, SumOver
  <2>5. SumFunction(g) <= SumFunction(f)
    BY <1>1, <1>2, <2>1, SumOverFewer
  <2> QED BY <1>3, <2>2, <2>4, <2>5
<1> QED BY <1>3, <1>4, <1>5

LEMMA PlanWeighs ==
  ASSUME NEW a, IsAudit(a), UniqueIds(All(a)), NEW m \in Measures
  PROVE  /\ RestWeight(Plan(a))[m]
              = Weight[m]["plan"] + Weight[m]["instance"] * (Factor(a) * AliasSum(a))
         /\ PlanWeight(Plan(a))[m]
              = Factor(a) * CaseSum(All(a), m) + RestWeight(Plan(a))[m]
         /\ Factor(a) * CaseSum(All(a), m) \in Nat /\ RestWeight(Plan(a))[m] \in Nat
<1> DEFINE T == All(a)
           E == Pieces(a, T)
           f == [c \in T |-> CaseWeight(c)[m]]
           g == [e \in E |-> e.weight[m]]
           h == AliasCounts(T)
           k == [e \in E |-> Cardinality(e.aliases)]
<1>1. /\ CaseSet(T) /\ IsFiniteSet(T) /\ Factor(a) \in Nat
      /\ \A c \in T : IsCase(c)
  BY AuditNumbers DEF CaseSet
<1>2. IsFiniteSet(E) /\ Plan(a) = E
  BY <1>1, PiecesAreFinite, PlanIs
<1>3. \A c \in T : f[c] \in Nat /\ h[c] \in Nat
  BY <1>1, CaseMeasures, CaseNumbers
<1>4. ASSUME NEW e \in E
      PROVE  g[e] = f[Template(T, e)] /\ k[e] = h[Template(T, e)]
  <2>1. PICK c \in T, v \in a.variants, r \in 1..a.repetitions : e = Piece(a, c, v, r)
    BY DEF Pieces
  <2>2. Template(T, e) = c
    BY <2>1, TemplateOfPiece
  <2>3. e.weight = CaseWeight(c) /\ e.aliases = CaseAliases(c)
    BY <2>1, PieceIs
  <2> QED BY <2>2, <2>3 DEF AliasCounts
<1>5. /\ DOMAIN f = T /\ DOMAIN g = E /\ DOMAIN k = E
  OBVIOUS
<1>6. CaseSum(T, m) = SumFunction(f) /\ AliasSum(a) = SumOn(h, T)
  BY DEF CaseSum, AliasSum
<1>7. /\ SumFunction([e \in E |-> e.weight[m]]) = SumFunction(g)
      /\ SumFunction([e \in E |-> Cardinality(e.aliases)]) = SumFunction(k)
  OBVIOUS
<1>8. /\ PlanWeight(E)[m] = SumFunction([e \in E |-> e.weight[m]]) + RestWeight(E)[m]
      /\ RestWeight(E)[m]
           = Weight[m]["plan"] +
               Weight[m]["instance"] * SumFunction([e \in E |-> Cardinality(e.aliases)])
  BY DEF PlanWeight, RestWeight
<1> HIDE DEF f, g, h, k
<1>9. SumOn(g, Pieces(a, T)) = Factor(a) * SumOn(f, T)
  BY <1>1, <1>3, <1>4, ExpandedSum
<1>10. SumOn(k, Pieces(a, T)) = Factor(a) * SumOn(h, T)
  BY <1>1, <1>3, <1>4, ExpandedSum
<1> HIDE DEF E, T
<1>11. SumFunction(g) = SumOn(g, E)
  BY <1>2, <1>5, SumIs
<1>12. SumFunction(k) = SumOn(k, E)
  BY <1>2, <1>5, SumIs
<1>13. SumFunction(f) = SumOn(f, T) /\ SumFunction(f) \in Nat
  BY <1>1, <1>3, <1>5, SumOver
<1>14. AliasSum(a) \in Nat
  BY <1>1, <1>3, <1>6, SumIsNat
<1>15. Weight[m]["instance"] \in Nat /\ Weight[m]["plan"] \in Nat
  BY WeightIs
<1>16. /\ RestWeight(E)[m]
            = Weight[m]["plan"] + Weight[m]["instance"] * (Factor(a) * AliasSum(a))
       /\ PlanWeight(E)[m] = Factor(a) * CaseSum(T, m) + RestWeight(E)[m]
  BY <1>6, <1>7, <1>8, <1>9, <1>10, <1>11, <1>12, <1>13 DEF E
<1>17. Factor(a) * CaseSum(T, m) \in Nat /\ Factor(a) * AliasSum(a) \in Nat
  BY <1>1, <1>6, <1>13, <1>14
<1> DEFINE w == Weight[m]["instance"]
           u == Weight[m]["plan"]
           z == Factor(a) * AliasSum(a)
<1>18. w \in Nat /\ z \in Nat /\ u \in Nat
  BY <1>15, <1>17
<1> HIDE DEF w, u, z
<1>19. u + w * z \in Nat
  BY <1>18
<1> QED BY <1>2, <1>16, <1>17, <1>19 DEF T, w, u, z

-----------------------------------------------------------------------------
(* What is composed.                                                       *)
LEMMA ComposedIds ==
  ASSUME NEW a, WellFormed(a), Expandable(a)
  PROVE  UniqueIds(All(a)) /\ UniqueIds(a.suite) /\ a.suite \cap a.manual = {}
<1>1. /\ \A c, d \in a.suite : c.caseId = d.caseId => c = d
      /\ \A c, d \in a.manual : c.caseId = d.caseId => c = d
      /\ \A c \in a.suite, d \in a.manual : c.caseId # d.caseId
  BY DEF WellFormed, SpecWellFormed, CasesWellFormed, Expandable
<1> QED BY <1>1 DEF UniqueIds, All

(* Suite and manual cases are counted apart.                              *)
LEMMA AllCounted ==
  ASSUME NEW a, IsAudit(a), a.suite \cap a.manual = {}
  PROVE  Cardinality(All(a)) = Cardinality(a.suite) + Cardinality(a.manual)
<1>1. IsFiniteSet(a.suite) /\ IsFiniteSet(a.manual)
  BY DEF IsAudit
<1>2. Cardinality(All(a)) = Cardinality(a.suite) + Cardinality(a.manual)
                              - Cardinality(a.suite \cap a.manual)
  BY <1>1, FS_Union DEF All
<1>3. Cardinality(a.suite \cap a.manual) = 0
  BY FS_EmptySet
<1>4. Cardinality(a.suite) \in Nat /\ Cardinality(a.manual) \in Nat
  BY <1>1, FS_CardinalityType
<1> QED BY <1>2, <1>3, <1>4

(* What is composed keeps within the bounds of its specification.         *)
LEMMA ComposedTotals ==
  ASSUME NEW a, IsAudit(a), Composable(a)
  PROVE  /\ Totals(a.bounds, TotalCases(a), TotalSteps(a))
         /\ Factor(a) * Cardinality(a.suite) = a.reservation
         /\ a.suite # {} /\ a.variants # {} /\ a.repetitions >= 1
         /\ \A c \in All(a) : Compiled(a, c) # {}
<1>1. Totals(a.bounds, TotalCases(a), TotalSteps(a))
  BY AuditNumbers DEF Totals, Composable, Expandable, StepsBounded
<1>2. Factor(a) * Cardinality(a.suite) = a.reservation
  BY DEF Composable, Expandable
<1>3. a.reservation >= 1 /\ a.variants # {} /\ a.repetitions >= 1
  BY DEF Composable, WellFormed, SpecWellFormed
<1>4. a.suite # {}
  <2>1. ASSUME a.suite = {}
        PROVE  FALSE
    <3>1. Cardinality(a.suite) = 0
      BY <2>1, FS_EmptySet
    <3>2. Factor(a) \in Nat
      BY AuditNumbers
    <3> QED BY <1>2, <1>3, <3>1, <3>2
  <2> QED BY <2>1
<1>5. \A c \in All(a) : Compiled(a, c) # {}
  BY DEF Composable, All
<1> QED BY <1>1, <1>2, <1>3, <1>4, <1>5

(* What is compiled is accepted step by step.                              *)
LEMMA CompiledSteps ==
  ASSUME NEW a, NEW c, Compiled(a, c) # {}, NEW i \in DOMAIN c.steps
  PROVE  /\ StepAccepted(a, c.steps[i], OriginIn(a, c))
         /\ StepRanks(a, c, OriginIn(a, c), TotalCases(a), TotalSteps(a), i) # {}
<1>1. ~CaseRefused(a, c, OriginIn(a, c), TotalCases(a), TotalSteps(a))
  BY CompileCaseIs DEF Compiled
<1> QED BY <1>1 DEF CaseRefused

LEMMA MandatoryPieces ==
  ASSUME NEW a
  PROVE  {e \in Plan(a) : e.origin = "mandatory"} = Pieces(a, a.suite)
<1>1. \A c, v, r : Piece(a, c, v, r).origin = OriginIn(a, c)
  BY PieceIs
<1>2. \A c : OriginIn(a, c) = "mandatory" <=> c \in a.suite
  BY DEF OriginIn
<1>3. \A e : e \in Plan(a) <=> \E c \in All(a) : \E v \in a.variants :
                \E r \in 1..a.repetitions : e = Piece(a, c, v, r)
  BY PlanIs DEF Pieces
<1>4. \A e : e \in Pieces(a, a.suite) <=> \E c \in a.suite : \E v \in a.variants :
                \E r \in 1..a.repetitions : e = Piece(a, c, v, r)
  BY DEF Pieces
<1> QED BY <1>1, <1>2, <1>3, <1>4 DEF All

(* The envelope of a plan refuses nothing that is composed, but for a tool *)
(* call of another number of steps than one, and a plan that is too heavy. *)
LEMMA EnvelopeHolds ==
  ASSUME NEW a, IsAudit(a), Composable(a),
         \A c \in All(a) : c.kind = "tool_call" => Len(c.steps) = 1,
         \A m \in Measures : PlanWeight(Plan(a))[m] <= MaxArtifact[m]
  PROVE  EnvelopeAccepts(Plan(a), a)
<1>1. /\ UniqueIds(All(a)) /\ UniqueIds(a.suite) /\ a.suite \cap a.manual = {}
      /\ IsAudit(a)
  BY ComposedIds DEF Composable
<1>2. /\ CaseSet(All(a)) /\ IsFiniteSet(All(a)) /\ IsFiniteSet(a.suite)
      /\ Cardinality(a.suite) \in Nat /\ Cardinality(a.manual) \in Nat
      /\ Factor(a) \in Nat
  BY AuditNumbers DEF CaseSet
<1>3. /\ Totals(a.bounds, TotalCases(a), TotalSteps(a))
      /\ Factor(a) * Cardinality(a.suite) = a.reservation
      /\ a.suite # {} /\ a.variants # {} /\ a.repetitions >= 1
      /\ \A c \in All(a) : Compiled(a, c) # {}
  BY ComposedTotals
<1>4. Plan(a) = Pieces(a, All(a))
  BY PlanIs
<1>5. Plan(a) # {}
  <2>1. PICK c \in a.suite, v \in a.variants : TRUE
    BY <1>3
  <2>2. 1 \in 1..a.repetitions /\ c \in All(a)
    BY <1>3 DEF IsAudit, All
  <2>3. Piece(a, c, v, 1) \in Pieces(a, All(a))
    BY <2>2 DEF Pieces
  <2> QED BY <1>4, <2>3
<1>6. ASSUME NEW e \in Plan(a)
      PROVE  /\ e.kind = "tool_call" => Len(e.steps) = 1
             /\ Len(e.steps) <= a.bounds.stepsPerCase
             /\ \A i \in DOMAIN e.steps :
                  /\ ResolvedAccepted(e.steps[i], e.aliases)
                  /\ Weigh(e.steps[i]).bytes <= a.bounds.argument
  <2>1. PICK c \in All(a), v \in a.variants, r \in 1..a.repetitions : e = Piece(a, c, v, r)
    BY <1>4 DEF Pieces
  <2>2. IsCase(c)
    BY <1>2 DEF CaseSet
  <2>3. Len(e.steps) = Len(c.steps) /\ DOMAIN e.steps = DOMAIN c.steps
    BY <2>1, <2>2, PieceSteps
  <2>4. e.kind = c.kind /\ e.aliases = CaseAliases(c) /\ e.steps = ResolvedSteps(c)
    BY <2>1, PieceIs
  <2>5. Len(c.steps) <= a.bounds.stepsPerCase
    BY DEF Composable, StepsBounded, All
  <2>6. ASSUME NEW i \in DOMAIN e.steps
        PROVE  /\ ResolvedAccepted(e.steps[i], e.aliases)
               /\ Weigh(e.steps[i]).bytes <= a.bounds.argument
    <3> DEFINE x == c.steps[i].args
    <3>0. "resource" \in PathKinds
      BY DEF PathKinds
    <3>1. i \in DOMAIN c.steps /\ x \in DOMAIN Tree
      BY <2>2, <2>3, StepsAre
    <3>2. /\ Resolvable(x, DOMAIN a.resources)
          /\ ResolvedBytes(c.steps[i], OriginIn(a, c)) <= a.bounds.argument
      BY <1>3, <3>1, CompiledSteps DEF StepAccepted
    <3>3. Analyzable(Tree[x]) /\ SafeLiterals(Tree[x])
      BY <3>1, <3>2, AnalysisIs DEF Resolvable
    <3>4. Aliases(Tree[x]) \subseteq CaseAliases(c)
      BY <3>1, AnalysisIs DEF CaseAliases, Arguments
    <3>5. e.steps[i] = Analysis[x].resolved["resource"]
      BY <2>4, <3>1 DEF ResolvedSteps
    <3>6. /\ Analysis[x].resolved["resource"] = Resolve(Tree[x], "resource")
          /\ Analysis[x].resolvedWeight["resource"] = Weigh(Analysis[x].resolved["resource"])
      BY <3>0, <3>1, <3>3, AnalysisIs
    <3>8. Weigh(e.steps[i]).bytes <= a.bounds.argument
      <4>1. ResolvedBytes(c.steps[i], OriginIn(a, c)) = Analysis[x].resolvedWeight["resource"].bytes
        BY DEF ResolvedBytes, PathKind, OriginIn
      <4> QED BY <3>2, <3>5, <3>6, <4>1
    <3> HIDE DEF x
    <3>7. ResolvedAccepted(Resolve(Tree[x], "resource"), CaseAliases(c))
      BY <3>1, <3>3, <3>4, ResolvedIsAccepted
    <3> QED BY <2>4, <3>5, <3>6, <3>7, <3>8
  <2> QED BY <2>3, <2>4, <2>5, <2>6
<1>7. Cardinality(Plan(a)) <= a.bounds.cases
  <2>1. Cardinality(Plan(a)) = Factor(a) * Cardinality(All(a))
    BY <1>1, <1>2, <1>4, PiecesCounted
  <2>2. Cardinality(All(a)) = Cardinality(a.suite) + Cardinality(a.manual)
    BY <1>1, AllCounted
  <2>3. Cardinality(Plan(a)) = TotalCases(a)
    BY <2>1, <2>2 DEF TotalCases
  <2> QED BY <1>3, <2>3 DEF Totals
<1>8. StepsOf(Plan(a)) <= a.bounds.steps
  <2>1. StepsOf(Plan(a)) = Factor(a) * StepsOf(All(a))
    BY <1>1, <1>2, <1>4, PiecesSteps
  <2>2. StepsOf(Plan(a)) = TotalSteps(a)
    BY <2>1, AuditNumbers
  <2> QED BY <1>3, <2>2 DEF Totals
<1>9. Cardinality({e \in Plan(a) : e.origin = "mandatory"}) = a.reservation
  <2>1. {e \in Plan(a) : e.origin = "mandatory"} = Pieces(a, a.suite)
    BY MandatoryPieces
  <2>2. Cardinality(Pieces(a, a.suite)) = Factor(a) * Cardinality(a.suite)
    BY <1>1, <1>2, PiecesCounted
  <2> QED BY <1>3, <2>1, <2>2
<1> QED
  BY <1>5, <1>6, <1>7, <1>8, <1>9 DEF EnvelopeAccepts

(* Composer and envelope agree, of every audit.                           *)
LEMMA EnvelopeAgreesLemma ==
  ASSUME NEW a, IsAudit(a)
  PROVE  EnvelopeAgrees(a)
<1> SUFFICES ASSUME Composable(a),
                    \A c \in All(a) : c.kind = "tool_call" => Len(c.steps) = 1,
                    ~(PlanWeight(Plan(a))["characters"] > MaxArtifact["characters"]),
                    \A m \in WorkMeasures :
                      ~(RestWeight(Plan(a))[m] > MaxArtifact[m] - MaxCaseWork[m])
             PROVE  EnvelopeAccepts(Plan(a), a)
  BY DEF EnvelopeAgrees, All
<1>1. UniqueIds(All(a))
  BY ComposedIds DEF Composable
<1>2. ASSUME NEW m \in WorkMeasures
      PROVE  PlanWeight(Plan(a))[m] <= MaxArtifact[m]
  <2> DEFINE s == Factor(a) * CaseSum(All(a), m)
             w == RestWeight(Plan(a))[m]
             x == MaxArtifact[m]
             y == MaxCaseWork[m]
  <2>1. m \in Measures
    BY DEF Measures, WorkMeasures
  <2>2. PlanWeight(Plan(a))[m] = s + w /\ s \in Nat /\ w \in Nat
    BY <1>1, <2>1, PlanWeighs
  <2>3. x \in Nat /\ y \in Nat
    BY <2>1, WeightsAssumption
  <2>4. s <= y
    BY DEF Composable, WorkBounded, CaseSum, All
  <2>5. ~(w > x - y)
    OBVIOUS
  <2> HIDE DEF s, w, x, y
  <2>6. s + w <= x
    BY <2>2, <2>3, <2>4, <2>5
  <2> QED BY <2>2, <2>6 DEF x
<1>3. PlanWeight(Plan(a))["characters"] <= MaxArtifact["characters"]
  <2> DEFINE m == "characters"
  <2>1. m \in Measures
    BY DEF Measures
  <2> HIDE DEF m
  <2>2. PlanWeight(Plan(a))[m] \in Nat
    BY <1>1, <2>1, PlanWeighs
  <2>3. MaxArtifact[m] \in Nat
    BY <2>1, WeightsAssumption
  <2>4. ~(PlanWeight(Plan(a))[m] > MaxArtifact[m])
    BY DEF m
  <2>5. PlanWeight(Plan(a))[m] <= MaxArtifact[m]
    BY <2>2, <2>3, <2>4
  <2> QED BY <2>5 DEF m
<1>4. \A m \in Measures : m \in WorkMeasures \/ m = "characters"
  BY DEF Measures, WorkMeasures
<1>5. \A m \in Measures : PlanWeight(Plan(a))[m] <= MaxArtifact[m]
  BY <1>2, <1>3, <1>4
<1> QED BY <1>5, EnvelopeHolds

(* The other way round, for what compiles.                                 *)
LEMMA CompiledPlan ==
  ASSUME NEW a, IsAudit(a), NEW plan \in Compile(a)
  PROVE  /\ Composable(a) /\ plan = Plan(a) /\ Compile(a) = {Plan(a)}
         /\ \A m \in Measures : PlanWeight(Plan(a))[m] <= MaxArtifact[m]
         /\ \A c \in All(a) : /\ c.kind = "tool_call" => Len(c.steps) = 1
                              /\ Compiled(a, c) # {}
<1>1. /\ Composable(a) /\ plan = Plan(a) /\ EnvelopeAccepts(Plan(a), a)
      /\ Compile(a) = {Plan(a)}
  BY DEF Compile
<1>4. \A m \in Measures : PlanWeight(Plan(a))[m] <= MaxArtifact[m]
  BY <1>1 DEF EnvelopeAccepts
<1>2. a.variants # {} /\ a.repetitions >= 1 /\ \A c \in All(a) : Compiled(a, c) # {}
  BY <1>1, ComposedTotals
<1>3. ASSUME NEW c \in All(a), c.kind = "tool_call"
      PROVE  Len(c.steps) = 1
  <2>1. PICK v \in a.variants : TRUE
    BY <1>2
  <2>2. 1 \in 1..a.repetitions
    BY <1>2 DEF IsAudit
  <2> DEFINE e == Piece(a, c, v, 1)
  <2>3. e \in Plan(a)
    BY <2>2, PlanIs DEF Pieces
  <2>4. e.kind = c.kind
    BY PieceIs
  <2>5. Len(e.steps) = Len(c.steps)
    BY AuditNumbers, PieceSteps DEF CaseSet
  <2> HIDE DEF e
  <2> QED BY <1>1, <1>3, <2>3, <2>4, <2>5 DEF EnvelopeAccepts
<1> QED BY <1>1, <1>2, <1>3, <1>4

LEMMA Compiles ==
  ASSUME NEW a, IsAudit(a), Composable(a),
         \A c \in All(a) : c.kind = "tool_call" => Len(c.steps) = 1,
         \A m \in Measures : PlanWeight(Plan(a))[m] <= MaxArtifact[m]
  PROVE  Compile(a) = {Plan(a)}
BY EnvelopeHolds DEF Compile

(* What a compiled step touches is authorized, and not denied.             *)
Authorizes(a, c, s, class) ==
  /\ \E r \in a.rules : /\ s.tool \in r.tools /\ OriginIn(a, c) \in r.origins
                        /\ r.decision # "deny" /\ class \in r.classes
  /\ ~ \E r \in a.rules : /\ s.tool \in r.tools /\ OriginIn(a, c) \in r.origins
                          /\ r.decision = "deny" /\ class \in r.classes
                          /\ r.arguments = <<>>

LEMMA PathAuthorized ==
  ASSUME NEW a, IsAudit(a), NEW c \in All(a), Compiled(a, c) # {},
         NEW i \in DOMAIN c.steps,
         NEW p \in DOMAIN Resolved(c.steps[i], OriginIn(a, c)),
         Resolved(c.steps[i], OriginIn(a, c))[p].kind \in PathKinds
  PROVE  Authorizes(a, c, c.steps[i],
           a.resources[Resolved(c.steps[i], OriginIn(a, c))[p].text])
<1> DEFINE s == c.steps[i]
           x == s.args
           path == PathKind(OriginIn(a, c))
           alias == Resolved(c.steps[i], OriginIn(a, c))[p].text
           class == a.resources[alias]
           o == OriginIn(a, c)
           call == CaseCall(a, c, o, TotalCases(a), TotalSteps(a), i)
<1>1. Compiled(a, c) # {} /\ IsCase(c)
  BY AuditNumbers DEF CaseSet
<1>2. StepAccepted(a, s, o) /\ EvaluateDispatch(a.rules, call) # {}
  BY <1>1, CompiledSteps DEF StepRanks
<1>3. x \in DOMAIN Tree
  BY <1>1, StepsAre
<1>4. Analyzable(Tree[x]) /\ Analysis[x].aliases \subseteq DOMAIN a.resources
  BY <1>2, <1>3, AnalysisIs DEF StepAccepted, Resolvable
<1>5. alias \in Analysis[x].aliases
  <2>1. path \in PathKinds
    BY DEF PathKind, PathKinds
  <2>2. Resolved(s, o) = Analysis[x].resolved[path]
    BY DEF Resolved
  <2> HIDE DEF path
  <2> QED BY <1>3, <1>4, <2>1, <2>2, PathsAreAliases
<1>6. class \in call.classes
  <2>1. class \in ClassesOf(a, x, IF o = "mandatory" THEN c.predicted ELSE {})
    BY <1>4, <1>5 DEF ClassesOf
  <2> QED BY <2>1 DEF CaseCall, Call
<1>7. call.tool = s.tool /\ call.origin = o
  BY DEF CaseCall, Call
<1>8. ~Refuses(a.rules, call)
  BY <1>2, DispatchIs
<1> HIDE DEF call, o, class, alias, x, s
<1>9. \E r \in a.rules : /\ s.tool \in r.tools /\ o \in r.origins
                         /\ r.decision # "deny" /\ class \in r.classes
  <2>1. PICK r \in Positive(a.rules, call) : class \in r.classes
    BY <1>6, <1>8 DEF Refuses
  <2> QED BY <1>7, <2>1 DEF Positive, Satisfied, Matches, BaseSelectorMatches
<1>10. ASSUME NEW r \in a.rules, s.tool \in r.tools, o \in r.origins,
              r.decision = "deny", class \in r.classes, r.arguments = <<>>
       PROVE  FALSE
  <2>1. Matches(r, call)
    BY <1>6, <1>7, <1>10 DEF Matches, BaseSelectorMatches, ArgumentsMatch
  <2> QED BY <1>8, <1>10, <2>1 DEF Refuses
<1>11. Authorizes(a, c, s, class)
  BY <1>9, <1>10 DEF Authorizes, o
<1> QED
  BY <1>11 DEF class, alias, x, s

(* Every synthetic path is of an authorized class, in every audit.        *)
LEMMA ClassesAuthorizedLemma ==
  ASSUME NEW a, IsAudit(a)
  PROVE  ClassesAuthorized(a)
<1> DEFINE r(c, i) == Resolved(c.steps[i], OriginIn(a, c))
           touched(c, i) == {a.resources[r(c, i)[p].text] :
                       p \in {q \in DOMAIN r(c, i) : r(c, i)[q].kind \in PathKinds}}
           naming(c, i) == {x \in a.rules : /\ c.steps[i].tool \in x.tools
                                            /\ OriginIn(a, c) \in x.origins}
           Fine(c, i, class) ==
             /\ \E x \in naming(c, i) : x.decision # "deny" /\ class \in x.classes
             /\ ~ \E x \in naming(c, i) : /\ x.decision = "deny" /\ class \in x.classes
                                          /\ x.arguments = <<>>
<1>1. ASSUME NEW plan \in Compile(a), NEW c \in All(a), NEW i \in DOMAIN c.steps,
             NEW class \in touched(c, i)
      PROVE  Fine(c, i, class)
  <2>1. Compiled(a, c) # {}
    BY CompiledPlan
  <2>2. Authorizes(a, c, c.steps[i], class)
    BY <2>1, PathAuthorized
  <2> QED BY <2>2 DEF Authorizes
<1>2. ClassesAuthorized(a) <=>
        \A plan \in Compile(a), c \in All(a) :
          \A i \in DOMAIN c.steps : \A class \in touched(c, i) : Fine(c, i, class)
  BY DEF ClassesAuthorized, All
<1> HIDE DEF touched, Fine
<1> QED
  BY <1>1, <1>2

-----------------------------------------------------------------------------
(* Products and sums of the budgets.                                       *)
LEMMA TimesGrows ==
  ASSUME NEW x \in Nat, NEW y \in Nat, NEW n \in Nat, x <= y
  PROVE  x * n <= y * n /\ n * x <= n * y /\ x * n \in Nat /\ n * x \in Nat
<1> DEFINE d == y - x
<1>1. d \in Nat /\ y = x + d
  OBVIOUS
<1> HIDE DEF d
<1>2. (x + d) * n = x * n + d * n /\ n * (x + d) = n * x + n * d
  BY <1>1
<1>3. d * n \in Nat /\ n * d \in Nat /\ x * n \in Nat /\ n * x \in Nat
  BY <1>1
<1> QED BY <1>1, <1>2, <1>3

LEMMA WorkShrinks ==
  ASSUME NEW rules, IsFiniteSet(rules), \A r \in rules : IsRule(r),
         NEW x \in Nat, NEW y \in Nat, x <= y, PolicyWorkBounded(rules, y)
  PROVE  PolicyWorkBounded(rules, x)
<1> DEFINE f == [r \in rules |-> 1 + Len(r.arguments)]
           n == SumFunction(f)
<1>1. ASSUME NEW r \in rules
      PROVE  Len(r.arguments) \in Nat
  <2>1. r.arguments \in Seq([at : Seq(DOMAIN KeyClass), values : SUBSET Nodes,
                             operator : {"equals", "one_of", "string_prefix"}])
    BY DEF IsRule
  <2> QED BY <2>1
<1>2. \A r \in rules : f[r] \in Nat
  BY <1>1
<1>3. DOMAIN f = rules
  OBVIOUS
<1>4. PolicyWorkBounded(rules, x) <=> x * n <= MaxPredicateChecks
  BY DEF PolicyWorkBounded
<1>5. y * n <= MaxPredicateChecks
  BY DEF PolicyWorkBounded
<1> HIDE DEF f
<1>6. SumOn(f, rules) \in Nat
  BY <1>2, SumIsNat
<1>7. n \in Nat
  BY <1>3, <1>6, SumIs
<1> HIDE DEF n
<1>8. x * n <= y * n /\ x * n \in Nat /\ y * n \in Nat
  BY <1>7, TimesGrows
<1>9. MaxPredicateChecks \in Nat
  BY TreesAssumption
<1> QED BY <1>4, <1>5, <1>8, <1>9

(* A sum over a part is within a bound that the whole is in.              *)
LEMMA BoundedPart ==
  ASSUME NEW f, IsFiniteSet(DOMAIN f), \A x \in DOMAIN f : f[x] \in Nat,
         NEW g, DOMAIN g \subseteq DOMAIN f, \A x \in DOMAIN g : g[x] = f[x],
         NEW n \in Nat, NEW limit \in Nat, n * SumFunction(f) <= limit
  PROVE  n * SumFunction(g) <= limit
<1> DEFINE x == SumFunction(g)
           y == SumFunction(f)
<1>1. IsFiniteSet(DOMAIN g) /\ \A z \in DOMAIN g : g[z] \in Nat
  BY FS_Subset
<1>2. x \in Nat
  BY <1>1, SumOver
<1>3. y \in Nat
  BY SumOver
<1>4. x <= y
  BY SumOverFewer
<1> HIDE DEF x, y
<1>5. n * x <= n * y /\ n * x \in Nat /\ n * y \in Nat
  BY <1>2, <1>3, <1>4, TimesGrows
<1> QED BY <1>5 DEF x, y

(* The resources of the plan, in the numbers of the cases.                 *)
LEMMA MaterialsAre ==
  ASSUME NEW a, IsAudit(a)
  PROVE  Materializable(a) <=>
           /\ \A c \in All(a) : CaseAliases(c) \subseteq DOMAIN a.resources
           /\ Factor(a) * SumOn(AliasCounts(All(a)), All(a)) <= a.bounds.files
<1>1. CaseSet(All(a))
  BY AuditNumbers
<1>2. SumFunction([c \in All(a) |-> Cardinality(CaseAliases(c))])
        = SumOn(AliasCounts(All(a)), All(a))
  BY <1>1, CaseNumbers
<1>3. Materializable(a) <=>
        /\ \A c \in All(a) : CaseAliases(c) \subseteq DOMAIN a.resources
        /\ Factor(a) * SumFunction([c \in All(a) |-> Cardinality(CaseAliases(c))])
             <= a.bounds.files
  BY DEF Materializable, All
<1> QED BY <1>2, <1>3

(* A part of the cases keeps within the budgets that all of them are in.   *)
LEMMA PartBounded ==
  ASSUME NEW a, IsAudit(a), NEW b, All(b) \subseteq All(a), Factor(b) = Factor(a),
         b.rules = a.rules, \A c \in All(b) : OriginIn(b, c) = OriginIn(a, c)
  PROVE  /\ WorkBounded(a) => WorkBounded(b)
         /\ CanonicalBounded(a) => CanonicalBounded(b)
<1>1. /\ IsFiniteSet(All(a)) /\ Factor(a) \in Nat
      /\ \A c \in All(a) : IsCase(c)
  BY AuditNumbers DEF CaseSet
<1>3. ASSUME WorkBounded(a)
      PROVE  WorkBounded(b)
  <2>1. ASSUME NEW m \in WorkMeasures
        PROVE  /\ Factor(b) * SumFunction([c \in All(b) |-> ArgumentWork(c)[m]])
                    <= MaxArgumentWork[m]
               /\ Factor(b) * SumFunction([c \in All(b) |-> CaseWeight(c)[m]])
                    <= MaxCaseWork[m]
    <3>1. m \in Measures /\ MaxArgumentWork[m] \in Nat /\ MaxCaseWork[m] \in Nat
      BY WeightsAssumption DEF Measures, WorkMeasures
    <3>2. \A c \in All(a) : ArgumentWork(c)[m] \in Nat /\ CaseWeight(c)[m] \in Nat
      BY <1>1, <3>1, CaseMeasures
    <3>3. /\ Factor(a) * SumFunction([c \in All(a) |-> ArgumentWork(c)[m]])
               <= MaxArgumentWork[m]
          /\ Factor(a) * SumFunction([c \in All(a) |-> CaseWeight(c)[m]])
               <= MaxCaseWork[m]
      BY <1>3 DEF WorkBounded, All
    <3> DEFINE f == [c \in All(a) |-> ArgumentWork(c)[m]]
               g == [c \in All(b) |-> ArgumentWork(c)[m]]
               h == [c \in All(a) |-> CaseWeight(c)[m]]
               k == [c \in All(b) |-> CaseWeight(c)[m]]
    <3>4. /\ DOMAIN f = All(a) /\ DOMAIN g = All(b) /\ DOMAIN h = All(a) /\ DOMAIN k = All(b)
          /\ \A c \in DOMAIN f : f[c] \in Nat /\ h[c] \in Nat
          /\ \A c \in DOMAIN g : g[c] = f[c] /\ k[c] = h[c]
      BY <3>2
    <3>5. /\ Factor(a) * SumFunction(f) <= MaxArgumentWork[m]
          /\ Factor(a) * SumFunction(h) <= MaxCaseWork[m]
      BY <3>3
    <3> HIDE DEF f, g, h, k
    <3>6. Factor(a) * SumFunction(g) <= MaxArgumentWork[m]
      BY <1>1, <3>1, <3>4, <3>5, BoundedPart
    <3>7. Factor(a) * SumFunction(k) <= MaxCaseWork[m]
      BY <1>1, <3>1, <3>4, <3>5, BoundedPart
    <3> QED BY <3>6, <3>7 DEF g, k
  <2>2. \A c \in All(b) : CaseWeight(c)["characters"] <= MaxArtifact["characters"]
    BY <1>3 DEF WorkBounded, All
  <2> QED BY <2>1, <2>2 DEF WorkBounded, All
<1>4. ASSUME CanonicalBounded(a)
      PROVE  CanonicalBounded(b)
  <2> DEFINE Written(c) == CaseCanonical(a, c, OriginIn(a, c))
             f == [c \in All(a) |-> Written(c)]
             g == [c \in All(b) |-> CaseCanonical(b, c, OriginIn(b, c))]
  <2>1. MaxCanonicalBytes \in Nat
    BY TreesAssumption
  <2>2. \A c \in All(a) : Written(c) \in Nat
    BY <1>1, CaseCanonicalIs
  <2>3. \A c \in All(b) : CaseCanonical(b, c, OriginIn(b, c)) = Written(c)
    BY DEF CaseCanonical, StepCanonical
  <2>4. Factor(a) * SumFunction(f) <= MaxCanonicalBytes
    BY <1>4 DEF CanonicalBounded, All
  <2>5. CanonicalBounded(b) <=> Factor(a) * SumFunction(g) <= MaxCanonicalBytes
    BY DEF CanonicalBounded, All
  <2>6. /\ DOMAIN f = All(a) /\ DOMAIN g = All(b)
        /\ \A c \in All(a) : f[c] = Written(c)
        /\ \A c \in All(b) : g[c] = CaseCanonical(b, c, OriginIn(b, c))
    OBVIOUS
  <2> HIDE DEF f, g, Written
  <2>7. /\ \A c \in DOMAIN f : f[c] \in Nat
        /\ \A c \in DOMAIN g : g[c] = f[c]
    BY <2>2, <2>3, <2>6
  <2> QED BY <1>1, <2>1, <2>4, <2>5, <2>6, <2>7, BoundedPart
<1> QED BY <1>3, <1>4

-----------------------------------------------------------------------------
(* The mandatory cases alone.                                              *)
Alone(a) == [a EXCEPT !.manual = {}]

SameBut(a, b) ==
  /\ b.rules = a.rules /\ b.required = a.required /\ b.coverage = a.coverage
  /\ b.sensors = a.sensors /\ b.reviewedAt = a.reviewedAt /\ b.expires = a.expires
  /\ b.suite = a.suite /\ b.reservation = a.reservation
  /\ b.repetitions = a.repetitions /\ b.variants = a.variants /\ b.bounds = a.bounds
  /\ b.resources = a.resources /\ b.specSensors = a.specSensors
  /\ b.createdAt = a.createdAt /\ b.compiledAt = a.compiledAt /\ b.drifted = a.drifted

LEMMA AloneIs ==
  ASSUME NEW a, IsAudit(a)
  PROVE  /\ SameBut(a, Alone(a)) /\ Alone(a).manual = {} /\ IsAudit(Alone(a))
         /\ All(Alone(a)) = a.suite /\ Factor(Alone(a)) = Factor(a)
<1> DEFINE b == Alone(a)
<1>1. DOMAIN a = {"rules", "required", "coverage", "sensors", "reviewedAt", "expires",
                 "manual", "suite", "reservation", "repetitions", "variants", "bounds",
                 "resources", "specSensors", "createdAt", "compiledAt", "drifted"}
  BY DEF IsAudit
<1>2. DOMAIN b = DOMAIN a /\ b.manual = {} /\ SameBut(a, b)
  BY <1>1 DEF Alone, SameBut
<1> HIDE DEF b
<1>3. IsFiniteSet({})
  BY FS_EmptySet
<1>4. IsAudit(b)
  BY <1>2, <1>3 DEF IsAudit, SameBut
<1>5. All(b) = a.suite /\ Factor(b) = Factor(a)
  BY <1>2 DEF All, Factor, SameBut
<1> QED BY <1>2, <1>4, <1>5 DEF b

(* No cases are well formed.                                              *)
LEMMA NoCases == CasesWellFormed({})
<1>1. ASSUME NEW m \in Measures
      PROVE  SumFunction([c \in {} |-> TemplateWeight(c)[m]]) <= MaxArtifact[m]
  <2> DEFINE f == [c \in {} |-> TemplateWeight(c)[m]]
  <2>1. DOMAIN f = {} /\ IsFiniteSet({})
    BY FS_EmptySet
  <2>2. MaxArtifact[m] \in Nat
    BY WeightsAssumption
  <2> HIDE DEF f
  <2>3. SumFunction(f) = SumOn(f, {})
    BY <2>1, SumOver
  <2>4. SumOn(f, {}) = 0
    BY <2>1, SumUnfolds
  <2> QED BY <2>2, <2>3, <2>4 DEF f
<1> QED BY <1>1 DEF CasesWellFormed

(* Without the operator's cases what was composable still is.             *)
LEMMA AloneComposable ==
  ASSUME NEW a, IsAudit(a), Composable(a), ToolsCovered(Alone(a))
  PROVE  /\ Composable(Alone(a))
         /\ \A c \in a.suite : Compiled(Alone(a), c) = Compiled(a, c)
<1> DEFINE b == Alone(a)
<1>1. /\ SameBut(a, b) /\ b.manual = {} /\ IsAudit(b)
      /\ All(b) = a.suite /\ Factor(b) = Factor(a)
  BY AloneIs
<1> HIDE DEF b
<1>2. /\ Factor(a) \in Nat /\ CaseSet(All(a)) /\ a.suite \in SUBSET All(a)
      /\ Cardinality(a.suite) \in Nat /\ Cardinality(a.manual) \in Nat
      /\ StepsOf(a.suite) \in Nat /\ StepsOf(All(a)) \in Nat /\ a.bounds \in Bounds
  BY AuditNumbers, CaseNumbers DEF All
<1>3. /\ StepsOf(a.suite) <= StepsOf(All(a))
      /\ SumOn(AliasCounts(a.suite), a.suite) <= SumOn(AliasCounts(All(a)), All(a))
  BY <1>2, FewerCases
<1>4. /\ Totals(a.bounds, TotalCases(a), TotalSteps(a))
      /\ Factor(a) * Cardinality(a.suite) = a.reservation
      /\ \A c \in All(a) : Compiled(a, c) # {}
  BY ComposedTotals
<1>5. Cardinality(b.manual) = 0 /\ Cardinality({}) = 0
  BY <1>1, FS_EmptySet
<1>6. TotalCases(b) \in Nat /\ TotalCases(b) <= TotalCases(a)
  <2> DEFINE m == Cardinality(a.suite)
             n == m + Cardinality(a.manual)
  <2>1. m \in Nat /\ n \in Nat /\ m <= n
    BY <1>2
  <2>2. TotalCases(a) = Factor(a) * n
    BY DEF TotalCases
  <2>3. TotalCases(b) = Factor(a) * m
    BY <1>1, <1>2, <1>5 DEF TotalCases, SameBut
  <2> HIDE DEF m, n
  <2> QED BY <1>2, <2>1, <2>2, <2>3, TimesGrows
<1>7. TotalSteps(b) \in Nat /\ TotalSteps(b) <= TotalSteps(a)
  <2>1. TotalSteps(a) = Factor(a) * StepsOf(All(a))
    BY AuditNumbers
  <2>2. TotalSteps(b) = Factor(a) * StepsOf(a.suite)
    BY <1>1, AuditNumbers
  <2> QED BY <1>2, <1>3, <2>1, <2>2, TimesGrows
<1>8. Totals(b.bounds, TotalCases(b), TotalSteps(b)) /\ b.bounds = a.bounds
  <2>1. b.bounds.cases \in Nat /\ b.bounds.steps \in Nat /\ b.bounds = a.bounds
    BY <1>1, <1>2 DEF SameBut, Bounds
  <2> QED BY <1>4, <1>6, <1>7, <2>1 DEF Totals
<1>9. ASSUME NEW c \in a.suite
      PROVE  Compiled(b, c) = Compiled(a, c)
  <2> DEFINE o == OriginIn(a, c)
  <2>1. OriginIn(b, c) = o
    BY <1>1 DEF OriginIn, SameBut
  <2>2. SameTotals(a.bounds, TotalCases(a), TotalSteps(a), TotalCases(b), TotalSteps(b))
    BY <1>4, <1>8 DEF SameTotals
  <2>3. b.rules = a.rules /\ b.bounds = a.bounds /\ b.resources = a.resources
    BY <1>1 DEF SameBut
  <2> HIDE DEF o
  <2>4. \A i \in DOMAIN c.steps : SamePaths(a, c.steps[i], o, o)
    BY SamePathKind
  <2>5. CompileCase(a, c, o, TotalCases(a), TotalSteps(a))
          = CompileCase(b, c, o, TotalCases(b), TotalSteps(b))
    BY <2>2, <2>3, <2>4, SameCase DEF SameOrigin
  <2> QED BY <2>1, <2>5 DEF Compiled, o
<1>10. WellFormed(b)
  <2>1. /\ \A r \in a.rules : RuleWellFormed(r)
        /\ SpecWellFormed(a) /\ CasesWellFormed(a.suite)
    BY DEF Composable, WellFormed
  <2> DEFINE n == a.repetitions * Cardinality(a.variants)
             k == n * Cardinality(a.manual)
  <2>2. n \in Nat /\ k \in Nat
    <3>1. n = Factor(a)
      BY DEF Factor
    <3> HIDE DEF n
    <3> QED BY <1>2, <3>1
  <2>3. a.reservation + k <= a.bounds.cases /\ a.reservation + k <= ArrayItems
    BY <2>1 DEF SpecWellFormed
  <2>4. a.reservation \in Nat /\ a.bounds.cases \in Nat /\ ArrayItems \in Nat
    BY <1>2, TreesAssumption DEF IsAudit, Bounds
  <2>5. b.repetitions * Cardinality(b.variants) * Cardinality(b.manual) = 0
    <3>1. b.repetitions * Cardinality(b.variants) = n
      BY <1>1 DEF SameBut
    <3> HIDE DEF n
    <3> QED BY <1>5, <2>2, <3>1
  <2> HIDE DEF n, k
  <2>6. a.reservation + 0 <= a.bounds.cases /\ a.reservation + 0 <= ArrayItems
    BY <2>2, <2>3, <2>4
  <2>7. SpecWellFormed(b)
    <3>1. CasesWellFormed(b.manual)
      BY <1>1, NoCases
    <3> DEFINE p == b.repetitions * Cardinality(b.variants) * Cardinality(b.manual)
    <3>2. b.reservation + p <= b.bounds.cases /\ b.reservation + p <= ArrayItems
      BY <1>1, <2>5, <2>6 DEF SameBut
    <3> HIDE DEF p
    <3> QED BY <1>1, <2>1, <3>1, <3>2 DEF SpecWellFormed, SameBut, p
  <2> QED BY <1>1, <2>1, <2>7 DEF WellFormed, SameBut
<1>11. BindingsHold(b)
  BY <1>1 DEF Composable, BindingsHold, SameBut
<1>12. Expandable(b)
  <2>1. Expandable(a)
    BY DEF Composable
  <2>2. TotalCases(b) <= ArrayItems /\ TotalCases(b) <= b.bounds.cases
    <3>1. TotalCases(a) <= ArrayItems /\ ArrayItems \in Nat
      BY <2>1, TreesAssumption DEF Expandable
    <3>2. TotalCases(a) \in Nat
      BY AuditNumbers
    <3> QED BY <1>6, <1>8, <3>1, <3>2 DEF Totals
  <2>3. /\ \A c \in a.suite : c.kind \in {"tool_call", "security_probe"}
        /\ \A c \in a.suite : \A x \in Arguments(c) :
             Analysis[x].analyzable /\ Analysis[x].weight.bytes <= a.bounds.argument
        /\ a.required \subseteq {c.caseId : c \in a.suite}
        /\ \A c \in a.suite : c.predictor = "deterministic_generator"
        /\ Factor(a) * Cardinality(a.suite) = a.reservation
    BY <2>1 DEF Expandable
  <2>4. b.suite \union b.manual = a.suite /\ b.suite = a.suite
    BY <1>1 DEF All, SameBut
  <2> QED BY <1>1, <2>2, <2>3, <2>4 DEF Expandable, SameBut
<1>13. ResourceClassesBound(b)
  BY <1>1 DEF Composable, ResourceClassesBound, SameBut
<1>14. StepsBounded(b)
  <2>1. StepsBounded(a) /\ MaxExpandedSteps \in Nat
    BY TreesAssumption DEF Composable
  <2>2. b.suite \union b.manual = a.suite
    BY <1>1 DEF All, SameBut
  <2>3. TotalSteps(b) <= MaxExpandedSteps
    <3>1. TotalSteps(a) \in Nat /\ TotalSteps(a) <= MaxExpandedSteps
      BY <2>1, AuditNumbers DEF StepsBounded
    <3> QED BY <1>7, <2>1, <3>1
  <2>4. \A c \in a.suite : Len(c.steps) <= a.bounds.stepsPerCase
    BY <2>1 DEF StepsBounded
  <2>5. TotalSteps(b) <= b.bounds.steps
    BY <1>8 DEF Totals
  <2> QED BY <1>8, <2>2, <2>3, <2>4, <2>5 DEF StepsBounded
<1>15. PolicyWorkBounded(b.rules, TotalSteps(b))
  <2>1. /\ PolicyWorkBounded(a.rules, TotalSteps(a)) /\ b.rules = a.rules
        /\ IsFiniteSet(a.rules) /\ \A r \in a.rules : IsRule(r)
    BY <1>1 DEF Composable, SameBut, IsAudit
  <2>2. TotalSteps(a) \in Nat
    BY AuditNumbers
  <2> QED BY <1>7, <2>1, <2>2, WorkShrinks
<1>16. Materializable(b)
  <2> DEFINE x == SumOn(AliasCounts(a.suite), a.suite)
             y == SumOn(AliasCounts(All(a)), All(a))
  <2>1. Materializable(a)
    BY DEF Composable
  <2>2. /\ \A c \in All(a) : CaseAliases(c) \subseteq DOMAIN a.resources
        /\ Factor(a) * y <= a.bounds.files
    BY <2>1, MaterialsAre
  <2>3. x \in Nat /\ y \in Nat /\ x <= y
    BY <1>2, <1>3, CaseNumbers, AuditNumbers
  <2>4. Materializable(b) <=>
          /\ \A c \in a.suite : CaseAliases(c) \subseteq DOMAIN a.resources
          /\ Factor(a) * x <= a.bounds.files
    BY <1>1, MaterialsAre DEF SameBut
  <2>5. a.bounds.files \in Nat
    BY <1>2 DEF Bounds
  <2> HIDE DEF x, y
  <2>6. Factor(a) * x <= Factor(a) * y /\ Factor(a) * x \in Nat /\ Factor(a) * y \in Nat
    BY <1>2, <2>3, TimesGrows
  <2> QED BY <1>2, <2>2, <2>4, <2>5, <2>6
<1>17. WorkBounded(b) /\ CanonicalBounded(b)
  <2>1. WorkBounded(a) /\ CanonicalBounded(a)
    BY DEF Composable
  <2>2. /\ All(b) \subseteq All(a) /\ b.rules = a.rules /\ Factor(b) = Factor(a)
        /\ \A c \in All(b) : OriginIn(b, c) = OriginIn(a, c)
    BY <1>1, <1>2 DEF SameBut, OriginIn
  <2> QED BY <2>1, <2>2, PartBounded
<1>18. \A c \in b.suite \union b.manual : Compiled(b, c) # {}
  <2>1. b.suite \union b.manual = a.suite
    BY <1>1 DEF All
  <2> QED BY <1>2, <1>4, <1>9, <2>1
<1>19. ToolsCovered(b)
  BY DEF b
<1>20. Composable(b)
  BY <1>10, <1>11, <1>12, <1>13, <1>14, <1>15, <1>16, <1>17, <1>18, <1>19 DEF Composable
<1> QED
  BY <1>9, <1>20 DEF b

(* A plan of fewer cases weighs no more.                                  *)
LEMMA LighterPlan ==
  ASSUME NEW a, IsAudit(a), UniqueIds(All(a)), NEW b, IsAudit(b), UniqueIds(All(b)),
         All(b) \subseteq All(a), Factor(b) = Factor(a),
         \A m \in Measures : PlanWeight(Plan(a))[m] <= MaxArtifact[m]
  PROVE  \A m \in Measures : PlanWeight(Plan(b))[m] <= MaxArtifact[m]
<1> SUFFICES ASSUME NEW m \in Measures
             PROVE  PlanWeight(Plan(b))[m] <= MaxArtifact[m]
  OBVIOUS
<1> DEFINE f == Factor(a)
           w == Weight[m]["instance"]
           u == Weight[m]["plan"]
           k == CaseSum(All(a), m)
           l == CaseSum(All(b), m)
           x == AliasSum(a)
           y == AliasSum(b)
<1>1. /\ CaseSet(All(a)) /\ f \in Nat /\ w \in Nat /\ u \in Nat
      /\ MaxArtifact[m] \in Nat
  BY AuditNumbers, WeightIs, WeightsAssumption
<1>2. k \in Nat /\ l \in Nat /\ l <= k
  BY <1>1, CaseSumIs
<1>3. x \in Nat /\ y \in Nat /\ y <= x
  BY <1>1, FewerCases, CaseNumbers DEF AliasSum
<1>4. PlanWeight(Plan(a))[m] = f * k + (u + w * (f * x))
  BY PlanWeighs
<1>5. PlanWeight(Plan(b))[m] = f * l + (u + w * (f * y))
  BY PlanWeighs
<1>6. PlanWeight(Plan(a))[m] <= MaxArtifact[m]
  OBVIOUS
<1> HIDE DEF f, w, u, k, l, x, y
<1>7. f * l <= f * k /\ f * l \in Nat /\ f * k \in Nat
  BY <1>1, <1>2, TimesGrows
<1>8. f * y <= f * x /\ f * y \in Nat /\ f * x \in Nat
  BY <1>1, <1>3, TimesGrows
<1>9. w * (f * y) <= w * (f * x) /\ w * (f * y) \in Nat /\ w * (f * x) \in Nat
  <2> DEFINE p == f * y
             q == f * x
  <2>1. p \in Nat /\ q \in Nat /\ p <= q
    BY <1>8
  <2> HIDE DEF p, q
  <2>2. w * p <= w * q /\ w * p \in Nat /\ w * q \in Nat
    BY <1>1, <2>1, TimesGrows
  <2> QED BY <2>2 DEF p, q
<1> DEFINE p == f * l
           q == f * k
           v == w * (f * y)
           z == w * (f * x)
<1>10. p \in Nat /\ q \in Nat /\ v \in Nat /\ z \in Nat /\ p <= q /\ v <= z
  BY <1>7, <1>9
<1>11. PlanWeight(Plan(a))[m] = q + (u + z) /\ PlanWeight(Plan(b))[m] = p + (u + v)
  BY <1>4, <1>5
<1> HIDE DEF p, q, v, z
<1>12. p + (u + v) <= q + (u + z)
  BY <1>1, <1>10
<1> QED BY <1>1, <1>6, <1>10, <1>11, <1>12

(* The mandatory cases stand alone, in every audit.                       *)
LEMMA MandatoryAloneLemma ==
  ASSUME NEW a, IsAudit(a)
  PROVE  MandatoryStandsAlone(a)
<1> SUFFICES ASSUME NEW plan \in Compile(a), ToolsCovered(Alone(a))
             PROVE  Compile(Alone(a)) = {{c \in plan : c.origin = "mandatory"}}
  BY DEF MandatoryStandsAlone, Alone
<1> DEFINE b == Alone(a)
<1>1. /\ Composable(a) /\ plan = Plan(a)
      /\ \A c \in All(a) : c.kind = "tool_call" => Len(c.steps) = 1
      /\ \A m \in Measures : PlanWeight(Plan(a))[m] <= MaxArtifact[m]
  BY CompiledPlan
<1>2. /\ SameBut(a, b) /\ b.manual = {} /\ IsAudit(b) /\ All(b) = a.suite
      /\ Factor(b) = Factor(a)
  BY AloneIs
<1>3. Composable(b) /\ \A c \in a.suite : Compiled(b, c) = Compiled(a, c)
  BY <1>1, AloneComposable
<1> HIDE DEF b
<1>4. Compile(b) = {Plan(b)}
  <2>1. \A c \in All(b) : c.kind = "tool_call" => Len(c.steps) = 1
    BY <1>1, <1>2 DEF All
  <2>2. UniqueIds(All(a)) /\ UniqueIds(All(b))
    BY <1>1, <1>2, ComposedIds DEF Composable
  <2>3. All(b) \subseteq All(a)
    BY <1>2 DEF All
  <2>4. \A m \in Measures : PlanWeight(Plan(b))[m] <= MaxArtifact[m]
    BY <1>1, <1>2, <2>2, <2>3, LighterPlan
  <2> QED BY <1>2, <1>3, <2>1, <2>4, Compiles
<1>5. \A c \in a.suite : \A v, r : Piece(b, c, v, r) = Piece(a, c, v, r)
  BY <1>2, <1>3 DEF Piece, OriginIn, SameBut
<1>6. Plan(b) = Pieces(b, a.suite)
  BY <1>2, PlanIs
<1>7. Pieces(b, a.suite) = Pieces(a, a.suite)
  <2>1. b.variants = a.variants /\ b.repetitions = a.repetitions
    BY <1>2 DEF SameBut
  <2> QED BY <1>5, <2>1 DEF Pieces
<1>8. {c \in plan : c.origin = "mandatory"} = Pieces(a, a.suite)
  BY <1>1, MandatoryPieces
<1> QED
  BY <1>4, <1>6, <1>7, <1>8 DEF b

-----------------------------------------------------------------------------
(* Tighter policies.                                                       *)
LEMMA FieldsOfRule ==
  ASSUME NEW r, IsRule(r), RuleWellFormed(r)
  PROVE  /\ DOMAIN r = {"decision", "tools", "origins", "arguments", "classes", "flows",
                        "limits", "approval"}
         /\ r.flows \in BOOLEAN
         /\ r.limits \in Bounds /\ r.approval \in Ranks
         /\ \A f \in {"cases", "stepsPerCase", "steps", "argument", "files"} :
              r.limits[f] \in Nat /\ r.limits[f] >= 1
         /\ r.limits.stepsPerCase <= r.limits.steps
         /\ DOMAIN r.limits = {"cases", "stepsPerCase", "steps", "argument", "files"}
         /\ r.decision # "approval_required" => r.approval = 0
<1>1. /\ DOMAIN r = {"decision", "tools", "origins", "arguments", "classes", "flows",
                     "limits", "approval"}
      /\ r.flows \in BOOLEAN
      /\ r.limits \in Bounds /\ r.approval \in Ranks
  BY DEF IsRule
<1>2. /\ \A f \in {"cases", "stepsPerCase", "steps", "argument", "files"} : r.limits[f] \in Nat
      /\ DOMAIN r.limits = {"cases", "stepsPerCase", "steps", "argument", "files"}
  BY <1>1 DEF Bounds
<1>3. /\ \A f \in DOMAIN r.limits : r.limits[f] >= 1
      /\ r.limits.stepsPerCase <= r.limits.steps
  BY DEF RuleWellFormed, BoundsWellFormed
<1>4. r.decision # "approval_required" => r.approval = 0
  BY <1>1 DEF RuleWellFormed, Ranks
<1> QED BY <1>1, <1>2, <1>3, <1>4

LEMMA TightensItself ==
  ASSUME NEW r, IsRule(r)
  PROVE  Tightens(r, r)
<1>1. r.limits \in Bounds /\ r.approval \in Ranks
  BY DEF IsRule
<1>2. \A f \in DOMAIN r.limits : r.limits[f] <= r.limits[f]
  BY <1>1 DEF Bounds
<1> QED BY <1>1, <1>2 DEF Tightens

(* Lowering a limit.                                                       *)
LEMMA LowerLimits ==
  ASSUME NEW r, IsRule(r), RuleWellFormed(r),
         NEW f \in {"cases", "stepsPerCase", "steps", "argument", "files"},
         NEW n \in Nat, n <= r.limits[f],
         NEW x, x = [r EXCEPT !.limits = [r.limits EXCEPT ![f] = n]]
  PROVE  IsRule(x) /\ Tightens(x, r)
<1>1. /\ DOMAIN r = {"decision", "tools", "origins", "arguments", "classes", "flows",
                     "limits", "approval"}
      /\ r.limits \in Bounds /\ r.approval \in Ranks
      /\ \A g \in {"cases", "stepsPerCase", "steps", "argument", "files"} : r.limits[g] \in Nat
      /\ DOMAIN r.limits = {"cases", "stepsPerCase", "steps", "argument", "files"}
  BY FieldsOfRule
<1> DEFINE l == [r.limits EXCEPT ![f] = n]
<1>2. l \in Bounds
  BY <1>1 DEF Bounds
<1>3. ASSUME NEW g \in DOMAIN r.limits
      PROVE  l[g] <= r.limits[g]
  BY <1>1
<1> HIDE DEF l
<1>4. x = [r EXCEPT !.limits = l]
  BY DEF l
<1>5. /\ DOMAIN x = DOMAIN r /\ x.limits = l /\ x.decision = r.decision
      /\ x.tools = r.tools /\ x.origins = r.origins /\ x.arguments = r.arguments
      /\ x.classes = r.classes /\ x.flows = r.flows /\ x.approval = r.approval
  BY <1>1, <1>4
<1>6. IsRule(x)
  BY <1>2, <1>5 DEF IsRule
<1> QED BY <1>1, <1>2, <1>3, <1>5, <1>6 DEF Tightens

(* Asking for a review, or denying.                                        *)
LEMMA StricterDecision ==
  ASSUME NEW r, IsRule(r), RuleWellFormed(r), NEW n \in Ranks, NEW decision,
         \/ r.decision = "allow" /\ decision = "approval_required"
         \/ r.decision = "approval_required" /\ decision = "deny",
         NEW x, x = [r EXCEPT !.decision = decision, !.approval = n]
  PROVE  IsRule(x) /\ Tightens(x, r)
<1>1. /\ DOMAIN r = {"decision", "tools", "origins", "arguments", "classes", "flows",
                     "limits", "approval"}
      /\ r.limits \in Bounds /\ r.approval \in Ranks
      /\ \A g \in {"cases", "stepsPerCase", "steps", "argument", "files"} : r.limits[g] \in Nat
      /\ DOMAIN r.limits = {"cases", "stepsPerCase", "steps", "argument", "files"}
  BY FieldsOfRule
<1>2. /\ DOMAIN x = DOMAIN r /\ x.limits = r.limits /\ x.decision = decision
      /\ x.tools = r.tools /\ x.origins = r.origins /\ x.arguments = r.arguments
      /\ x.classes = r.classes /\ x.flows = r.flows /\ x.approval = n
  BY <1>1
<1>3. IsRule(x)
  BY <1>2 DEF IsRule
<1>4. \A g \in DOMAIN r.limits : x.limits[g] <= r.limits[g]
  BY <1>1, <1>2
<1> QED BY <1>1, <1>2, <1>3, <1>4 DEF Tightens

TightPolicy(tight, rules) ==
  /\ AsTight(tight, rules) /\ IsFiniteSet(tight)
  /\ \A y \in tight : IsRule(y)

(* One rule made tighter.                                                  *)
LEMMA OneTighter ==
  ASSUME NEW rules, IsFiniteSet(rules), \A r \in rules : IsRule(r),
         NEW r \in rules, NEW x, IsRule(x), Tightens(x, r),
         NEW tight, tight = (rules \ {r}) \union {x}
  PROVE  TightPolicy(tight, rules)
<1>1. IsFiniteSet(rules \ {r})
  BY FS_Difference
<1>2. IsFiniteSet(tight)
  BY <1>1, FS_AddElement
<1>3. \A y \in rules : Tightens(y, y)
  BY TightensItself
<1>4. ASSUME NEW y \in rules
      PROVE  \E z \in tight : Tightens(z, y)
  <2>1. CASE y = r
    BY <2>1
  <2>2. CASE y # r
    BY <1>3, <2>2
  <2> QED BY <2>1, <2>2
<1>5. ASSUME NEW z \in tight
      PROVE  \E y \in rules : Tightens(z, y)
  BY <1>3
<1> QED BY <1>2, <1>4, <1>5 DEF AsTight, TightPolicy

LEMMA LoweredIs ==
  ASSUME NEW r, IsRule(r), RuleWellFormed(r), NEW x \in Lowered(r)
  PROVE  IsRule(x) /\ Tightens(x, r)
<1>1. CASE \E f \in {"cases", "stepsPerCase", "argument", "files"} :
             x = [r EXCEPT !.limits[f] = 1]
  <2>1. PICK f \in {"cases", "stepsPerCase", "argument", "files"} :
             x = [r EXCEPT !.limits[f] = 1]
    BY <1>1
  <2>2. x = [r EXCEPT !.limits = [r.limits EXCEPT ![f] = 1]]
    BY <2>1
  <2>3. 1 \in Nat /\ 1 <= r.limits[f]
    BY FieldsOfRule
  <2> QED BY <2>2, <2>3, LowerLimits
<1>2. CASE x = [r EXCEPT !.limits.steps = r.limits.stepsPerCase]
  <2> DEFINE f == "steps"
             n == r.limits.stepsPerCase
  <2>1. x = [r EXCEPT !.limits = [r.limits EXCEPT ![f] = n]]
    BY <1>2
  <2>2. n \in Nat /\ n <= r.limits[f]
    BY FieldsOfRule
  <2>3. f \in {"cases", "stepsPerCase", "steps", "argument", "files"}
    OBVIOUS
  <2> HIDE DEF f, n
  <2> QED BY <2>1, <2>2, <2>3, LowerLimits
<1> QED BY <1>1, <1>2 DEF Lowered

LEMMA StricterIs ==
  ASSUME NEW r, IsRule(r), RuleWellFormed(r), NEW x \in Stricter(r)
  PROVE  IsRule(x) /\ Tightens(x, r)
<1>1. 0 \in Ranks /\ 2 \in Ranks /\ r.decision \in {"allow", "deny", "approval_required"}
  BY DEF Ranks, IsRule
<1>2. CASE r.decision = "allow"
  <2> DEFINE decision == "approval_required"
             n == 2
  <2>1. x = [r EXCEPT !.decision = decision, !.approval = n]
    BY <1>2 DEF Stricter
  <2>2. n \in Ranks /\ r.decision = "allow" /\ decision = "approval_required"
    BY <1>1, <1>2
  <2> HIDE DEF decision, n
  <2> QED BY <2>1, <2>2, StricterDecision
<1>3. CASE r.decision = "approval_required"
  <2> DEFINE decision == "deny"
             n == 0
  <2>1. x = [r EXCEPT !.decision = decision, !.approval = n]
    BY <1>3 DEF Stricter
  <2>2. n \in Ranks /\ r.decision = "approval_required" /\ decision = "deny"
    BY <1>1, <1>3
  <2> HIDE DEF decision, n
  <2> QED BY <2>1, <2>2, StricterDecision
<1>4. CASE r.decision = "deny"
  BY <1>4 DEF Stricter
<1> QED BY <1>1, <1>2, <1>3, <1>4

(* Each way to tighten a policy is one step down in the order of policies.*)
LEMMA TighterIs ==
  ASSUME NEW rules, IsFiniteSet(rules),
         \A r \in rules : IsRule(r) /\ RuleWellFormed(r), NEW tight \in Tighter(rules)
  PROVE  TightPolicy(tight, rules)
<1>1. ASSUME NEW r \in rules, r.decision = "allow", tight = rules \ {r}
      PROVE  TightPolicy(tight, rules)
  <2>1. IsFiniteSet(tight)
    BY <1>1, FS_Difference
  <2>2. \A y \in rules : Tightens(y, y)
    BY TightensItself
  <2> QED BY <1>1, <2>1, <2>2 DEF AsTight, TightPolicy
<1>2. ASSUME NEW r \in rules, NEW x \in Lowered(r) \union Stricter(r),
             tight = (rules \ {r}) \union {x}
      PROVE  TightPolicy(tight, rules)
  <2>1. IsRule(x) /\ Tightens(x, r)
    BY LoweredIs, StricterIs
  <2> QED BY <1>2, <2>1, OneTighter
<1>3. \/ \E r \in rules : r.decision = "allow" /\ tight = rules \ {r}
      \/ \E r \in rules : \E x \in Lowered(r) \union Stricter(r) :
           tight = (rules \ {r}) \union {x}
  BY DEF Tighter
<1> QED BY <1>1, <1>2, <1>3

(* A policy put into an audit.                                             *)
WithRules(a, rules) == [a EXCEPT !.rules = rules]

(* The same audit under other rules.                                      *)
LEMMA WithRulesIs ==
  ASSUME NEW a, IsAudit(a), NEW rules, IsFiniteSet(rules), \A r \in rules : IsRule(r)
  PROVE  LET b == WithRules(a, rules)
         IN  /\ b.rules = rules /\ IsAudit(b) /\ SameBut(WithRules(a, b.rules), b)
             /\ b.suite = a.suite /\ b.manual = a.manual /\ b.bounds = a.bounds
             /\ b.resources = a.resources /\ b.variants = a.variants
             /\ b.repetitions = a.repetitions
             /\ TotalCases(b) = TotalCases(a) /\ TotalSteps(b) = TotalSteps(a)
             /\ \A c : OriginIn(b, c) = OriginIn(a, c)
             /\ SpecWellFormed(b) <=> SpecWellFormed(a)
             /\ BindingsHold(b) <=> BindingsHold(a)
             /\ Expandable(b) <=> Expandable(a)
             /\ ResourceClassesBound(b) <=> ResourceClassesBound(a)
             /\ ToolsCovered(b) <=> ToolsCovered(a)
             /\ StepsBounded(b) <=> StepsBounded(a)
             /\ Materializable(b) <=> Materializable(a)
             /\ WorkBounded(b) <=> WorkBounded(a)
<1> DEFINE b == WithRules(a, rules)
<1>1. DOMAIN a = {"rules", "required", "coverage", "sensors", "reviewedAt", "expires",
                 "manual", "suite", "reservation", "repetitions", "variants", "bounds",
                 "resources", "specSensors", "createdAt", "compiledAt", "drifted"}
  BY DEF IsAudit
<1>2. /\ DOMAIN b = DOMAIN a /\ b.rules = rules /\ b.required = a.required
      /\ b.coverage = a.coverage /\ b.sensors = a.sensors /\ b.reviewedAt = a.reviewedAt
      /\ b.expires = a.expires /\ b.manual = a.manual /\ b.suite = a.suite
      /\ b.reservation = a.reservation /\ b.repetitions = a.repetitions
      /\ b.variants = a.variants /\ b.bounds = a.bounds /\ b.resources = a.resources
      /\ b.specSensors = a.specSensors /\ b.createdAt = a.createdAt
      /\ b.compiledAt = a.compiledAt /\ b.drifted = a.drifted
  BY <1>1 DEF WithRules
<1>3. WithRules(a, b.rules) = b
  BY <1>2
<1> HIDE DEF b
<1>4. IsAudit(b)
  BY <1>2 DEF IsAudit
<1>5. Factor(b) = Factor(a) /\ TotalCases(b) = TotalCases(a) /\ TotalSteps(b) = TotalSteps(a)
  BY <1>2 DEF Factor, TotalCases, TotalSteps
<1>6. SpecWellFormed(b) <=> SpecWellFormed(a)
  BY <1>2 DEF SpecWellFormed
<1>7. BindingsHold(b) <=> BindingsHold(a)
  BY <1>2 DEF BindingsHold
<1>8. Expandable(b) <=> Expandable(a)
  BY <1>2, <1>5 DEF Expandable
<1>9. ResourceClassesBound(b) <=> ResourceClassesBound(a)
  BY <1>2 DEF ResourceClassesBound
<1>10. ToolsCovered(b) <=> ToolsCovered(a)
  BY <1>2 DEF ToolsCovered
<1>11. StepsBounded(b) <=> StepsBounded(a)
  BY <1>2, <1>5 DEF StepsBounded
<1>12. Materializable(b) <=> Materializable(a)
  BY <1>2, <1>5 DEF Materializable
<1>13. WorkBounded(b) <=> WorkBounded(a)
  BY <1>2, <1>5 DEF WorkBounded
<1>14. \A c : OriginIn(b, c) = OriginIn(a, c)
  BY <1>2 DEF OriginIn
<1>15. SameBut(WithRules(a, b.rules), b)
  BY <1>3 DEF SameBut
<1> QED
  BY <1>2, <1>4, <1>5, <1>6, <1>7, <1>8, <1>9, <1>10, <1>11, <1>12, <1>13, <1>14, <1>15 DEF b

(* What compiles under the tighter policy compiles under the other.       *)
LEMMA TighterCompiles ==
  ASSUME NEW a, IsAudit(a), \A r \in a.rules : RuleWellFormed(r),
         PolicyWorkBounded(a.rules, TotalSteps(a)), CanonicalBounded(a),
         NEW tight \in Tighter(a.rules), NEW plan \in Compile(WithRules(a, tight))
  PROVE  /\ Compile(a) = {Plan(a)}
         /\ ~Loosened(plan, Plan(a))
<1> DEFINE b == WithRules(a, tight)
<1>1. /\ AsTight(tight, a.rules) /\ IsFiniteSet(tight)
      /\ \A r \in tight : IsRule(r)
  BY TighterIs DEF IsAudit, TightPolicy
<1>2. /\ b.rules = tight /\ IsAudit(b)
      /\ b.suite = a.suite /\ b.manual = a.manual /\ b.bounds = a.bounds
      /\ b.resources = a.resources /\ b.variants = a.variants
      /\ b.repetitions = a.repetitions
      /\ TotalCases(b) = TotalCases(a) /\ TotalSteps(b) = TotalSteps(a)
      /\ \A c : OriginIn(b, c) = OriginIn(a, c)
      /\ SpecWellFormed(b) <=> SpecWellFormed(a)
      /\ BindingsHold(b) <=> BindingsHold(a)
      /\ Expandable(b) <=> Expandable(a)
      /\ ResourceClassesBound(b) <=> ResourceClassesBound(a)
      /\ ToolsCovered(b) <=> ToolsCovered(a)
      /\ StepsBounded(b) <=> StepsBounded(a)
      /\ Materializable(b) <=> Materializable(a)
      /\ WorkBounded(b) <=> WorkBounded(a)
  BY <1>1, WithRulesIs
<1>3. plan \in Compile(b)
  OBVIOUS
<1> HIDE DEF b
<1>4. /\ Composable(b) /\ plan = Plan(b)
      /\ \A m \in Measures : PlanWeight(Plan(b))[m] <= MaxArtifact[m]
      /\ \A c \in All(b) : /\ c.kind = "tool_call" => Len(c.steps) = 1
                           /\ Compiled(b, c) # {}
  BY <1>2, <1>3, CompiledPlan
<1>5. All(b) = All(a) /\ TotalCases(a) \in Nat /\ TotalSteps(a) \in Nat
  BY <1>2, AuditNumbers DEF All
<1>6. ASSUME NEW c \in All(a)
      PROVE  \E p, q \in Ranks : /\ Compiled(a, c) = {p} /\ Compiled(b, c) = {q}
                                 /\ p <= q
  <2> DEFINE o == OriginIn(a, c)
             p == CaseRank(a, c, o, TotalCases(a), TotalSteps(a))
             q == CaseRank(b, c, o, TotalCases(a), TotalSteps(a))
  <2>1. IsCase(c)
    BY AuditNumbers DEF CaseSet
  <2>2. Compiled(a, c) = CompileCase(a, c, o, TotalCases(a), TotalSteps(a))
    BY DEF Compiled
  <2>3. Compiled(b, c) = CompileCase(b, c, o, TotalCases(a), TotalSteps(a))
    BY <1>2 DEF Compiled
  <2>4. Compiled(b, c) # {}
    BY <1>4, <1>5
  <2>5. p \in Ranks /\ q \in Ranks
    BY <1>2, <2>1, CaseRanksAre
  <2>6. AsTight(b.rules, a.rules) /\ b.bounds = a.bounds /\ b.resources = a.resources
    BY <1>1, <1>2
  <2> HIDE DEF o
  <2>7. /\ CompileCase(a, c, o, TotalCases(a), TotalSteps(a))
             = {CaseRank(a, c, o, TotalCases(a), TotalSteps(a))}
        /\ CompileCase(b, c, o, TotalCases(a), TotalSteps(a))
             = {CaseRank(b, c, o, TotalCases(a), TotalSteps(a))}
        /\ CaseRank(a, c, o, TotalCases(a), TotalSteps(a))
             <= CaseRank(b, c, o, TotalCases(a), TotalSteps(a))
    BY <1>2, <1>5, <2>1, <2>3, <2>4, <2>6, TighterCase
  <2> QED BY <2>2, <2>3, <2>5, <2>7
<1>7. Composable(a)
  <2>1. WellFormed(a)
    BY <1>2, <1>4 DEF Composable, WellFormed
  <2>2. \A c \in a.suite \union a.manual : Compiled(a, c) # {}
    BY <1>6 DEF All
  <2> QED BY <1>2, <1>4, <2>1, <2>2 DEF Composable
<1>8. Compile(a) = {Plan(a)}
  <2>1. UniqueIds(All(a)) /\ UniqueIds(All(b))
    BY <1>4, <1>7, ComposedIds DEF Composable
  <2>2. All(a) \subseteq All(b) /\ Factor(a) = Factor(b)
    BY <1>2, <1>5 DEF Factor
  <2>3. \A m \in Measures : PlanWeight(Plan(a))[m] <= MaxArtifact[m]
    BY <1>2, <1>4, <2>1, <2>2, LighterPlan
  <2> QED BY <1>4, <1>5, <1>7, <2>3, Compiles
<1>9. ASSUME NEW c \in All(a)
      PROVE  /\ TheApproval(a, c) \in Ranks /\ TheApproval(b, c) \in Ranks
             /\ TheApproval(a, c) <= TheApproval(b, c)
  <2>1. PICK p \in Ranks, q \in Ranks : /\ Compiled(a, c) = {p} /\ Compiled(b, c) = {q}
                                        /\ p <= q
    BY <1>6
  <2>2. TheApproval(a, c) = p /\ TheApproval(b, c) = q
    BY <2>1 DEF TheApproval
  <2> QED BY <2>1, <2>2
<1>10. ASSUME NEW d \in Plan(a)
       PROVE  \E c \in All(a) : /\ d.caseId = c.caseId
                                /\ d.approval = TheApproval(a, c)
                                /\ \E e \in Plan(b) : e.approval = TheApproval(b, c)
  <2>1. PICK c \in All(a), v \in a.variants, r \in 1..a.repetitions : d = Piece(a, c, v, r)
    BY PlanIs DEF Pieces
  <2> DEFINE e == Piece(b, c, v, r)
  <2>2. e \in Plan(b)
    BY <1>2, <1>5, PlanIs DEF Pieces
  <2>3. e.approval = TheApproval(b, c)
    BY PieceIs
  <2>4. d.caseId = c.caseId /\ d.approval = TheApproval(a, c)
    BY <2>1, PieceIs
  <2> HIDE DEF e
  <2> QED BY <2>2, <2>3, <2>4
<1>11. ASSUME NEW e \in Plan(b)
       PROVE  \E c \in All(a) : e.caseId = c.caseId /\ e.approval = TheApproval(b, c)
  <2>1. PICK c \in All(b), v \in b.variants, r \in 1..b.repetitions : e = Piece(b, c, v, r)
    BY PlanIs DEF Pieces
  <2> QED BY <1>5, <2>1, PieceIs
<1>12. UniqueIds(All(a))
  BY <1>7, ComposedIds DEF Composable
<1>13. ASSUME NEW e \in Plan(b), NEW d \in Plan(a), e.caseId = d.caseId
       PROVE  ~(e.approval < d.approval)
  <2>1. PICK c \in All(a) : d.caseId = c.caseId /\ d.approval = TheApproval(a, c)
    BY <1>10
  <2>2. PICK k \in All(a) : e.caseId = k.caseId /\ e.approval = TheApproval(b, k)
    BY <1>11
  <2>3. c = k
    BY <1>12, <1>13, <2>1, <2>2 DEF UniqueIds
  <2> QED BY <1>9, <2>1, <2>2, <2>3 DEF Ranks
<1>14. ~(RequiredApproval(Plan(b)) < RequiredApproval(Plan(a)))
  <2> DEFINE S == {d.approval : d \in Plan(a)}
             T == {e.approval : e \in Plan(b)}
  <2>1. S \in SUBSET Ranks
    BY <1>9, <1>10
  <2>2. T \in SUBSET Ranks
    BY <1>9, <1>11
  <2>3. \A s \in S : \E t \in T : s <= t
    BY <1>9, <1>10
  <2>4. RequiredApproval(Plan(a)) = MaximumApproval(S)
    BY DEF RequiredApproval
  <2>5. RequiredApproval(Plan(b)) = MaximumApproval(T)
    BY DEF RequiredApproval
  <2> HIDE DEF S, T
  <2>6. MaximumApproval(S) <= MaximumApproval(T)
    BY <2>1, <2>2, <2>3, MaximumGrows
  <2>7. MaximumApproval(S) \in Ranks /\ MaximumApproval(T) \in Ranks
    BY <2>1, <2>2, MaximumIs
  <2> QED BY <2>4, <2>5, <2>6, <2>7 DEF Ranks
<1>15. ~Loosened(Plan(b), Plan(a))
  BY <1>13, <1>14 DEF Loosened
<1> QED BY <1>4, <1>8, <1>15

(* Tightening never loosens, in any audit.                                *)
LEMMA TighterNeverLoosensLemma ==
  ASSUME NEW a, IsAudit(a)
  PROVE  TighterNeverLoosens(a)
<1> SUFFICES ASSUME \A r \in a.rules : RuleWellFormed(r),
                    PolicyWorkBounded(a.rules, TotalSteps(a)), CanonicalBounded(a),
                    NEW tight \in Tighter(a.rules),
                    NEW plan \in Compile(WithRules(a, tight))
             PROVE  /\ Compile(a) # {}
                    /\ \A than \in Compile(a) : ~Loosened(plan, than)
  BY DEF TighterNeverLoosens, WithRules
<1>1. Compile(a) = {Plan(a)} /\ ~Loosened(plan, Plan(a))
  BY TighterCompiles
<1> QED BY <1>1

-----------------------------------------------------------------------------
(* Cases added to an audit.                                                *)
Manuals(S) == {AsManual(c) : c \in S}
With(a, S) == [a EXCEPT !.manual = @ \union Manuals(S)]

(* A candidate taken over by the operator.                                *)
LEMMA ManualIs ==
  ASSUME NEW c
  PROVE  /\ AsManual(c).caseId = c.caseId /\ AsManual(c).kind = c.kind
         /\ AsManual(c).steps = c.steps /\ AsManual(c).predicted = {}
         /\ AsManual(c).predictor = "operator" /\ AsManual(c).approval = c.approval
         /\ IsCase(c) => IsCase(AsManual(c))
BY DEF AsManual, IsCase

NewIds(a, S) == \A c \in S, d \in All(a) : d.caseId # c.caseId

(* The audit with the cases of some candidates.                           *)
LEMMA WithIs ==
  ASSUME NEW a, IsAudit(a), NEW S, IsFiniteSet(S), \A c \in S : IsCase(c), NewIds(a, S)
  PROVE  LET b == With(a, S)
             N == Manuals(S)
         IN  /\ SameBut(a, b) /\ b.manual = a.manual \union N /\ IsAudit(b)
             /\ CaseSet(N) /\ N \cap All(a) = {} /\ N \cap a.suite = {}
             /\ All(b) = All(a) \union N /\ Factor(b) = Factor(a)
             /\ TotalCases(b) = TotalCases(a) + Factor(a) * Cardinality(N)
             /\ TotalSteps(b) = TotalSteps(a) + Factor(a) * StepsOf(N)
             /\ Cardinality(N) \in Nat /\ StepsOf(N) \in Nat
<1> DEFINE b == With(a, S)
           N == Manuals(S)
           F == Factor(a)
<1>1. CaseSet(N)
  <2> DEFINE f == [c \in S |-> AsManual(c)]
  <2>1. f \in Surjection(S, N)
    BY DEF Surjection, Manuals
  <2>2. \A c \in N : IsCase(c)
    BY ManualIs DEF Manuals
  <2> HIDE DEF f, N
  <2>3. IsFiniteSet(N)
    BY <2>1, FS_Surjection
  <2> QED BY <2>2, <2>3 DEF CaseSet
<1>2. N \cap All(a) = {}
  BY ManualIs DEF NewIds, Manuals
<1>3. DOMAIN a = {"rules", "required", "coverage", "sensors", "reviewedAt", "expires",
                 "manual", "suite", "reservation", "repetitions", "variants", "bounds",
                 "resources", "specSensors", "createdAt", "compiledAt", "drifted"}
  BY DEF IsAudit
<1>4. DOMAIN b = DOMAIN a /\ b.manual = a.manual \union N /\ SameBut(a, b)
  BY <1>3 DEF With, SameBut
<1> HIDE DEF b, N
<1>5. IsFiniteSet(a.manual \union N)
  BY <1>1, FS_Union DEF IsAudit, CaseSet
<1>6. IsAudit(b)
  BY <1>1, <1>4, <1>5 DEF IsAudit, SameBut, CaseSet
<1>7. All(b) = All(a) \union N /\ Factor(b) = F /\ N \cap a.suite = {}
  BY <1>2, <1>4 DEF All, Factor, SameBut
<1>8. /\ F \in Nat /\ Cardinality(a.suite) \in Nat /\ Cardinality(a.manual) \in Nat
      /\ Cardinality(N) \in Nat /\ StepsOf(N) \in Nat /\ StepsOf(All(a)) \in Nat
      /\ CaseSet(All(a))
  BY <1>1, AuditNumbers, CaseNumbers, FS_CardinalityType DEF CaseSet
<1>9. Cardinality(a.manual \union N) = Cardinality(a.manual) + Cardinality(N)
  <2>1. IsFiniteSet(a.manual) /\ IsFiniteSet(N) /\ a.manual \cap N = {}
    BY <1>1, <1>2 DEF IsAudit, CaseSet, All
  <2>2. Cardinality(a.manual \union N) = Cardinality(a.manual) + Cardinality(N)
                                           - Cardinality(a.manual \cap N)
    BY <2>1, FS_Union
  <2>3. Cardinality(a.manual \cap N) = 0
    BY <2>1, FS_EmptySet
  <2> QED BY <1>8, <2>2, <2>3
<1>10. TotalCases(b) = TotalCases(a) + F * Cardinality(N)
  <2> DEFINE s == Cardinality(a.suite)
             m == Cardinality(a.manual)
             n == Cardinality(N)
  <2>1. TotalCases(a) = F * (s + m)
    BY DEF TotalCases
  <2>2. TotalCases(b) = F * (s + (m + n))
    BY <1>4, <1>7, <1>9 DEF TotalCases, SameBut
  <2>3. s \in Nat /\ m \in Nat /\ n \in Nat /\ F \in Nat
    BY <1>8
  <2> HIDE DEF s, m, n, F
  <2>4. F * (s + (m + n)) = F * (s + m) + F * n
    BY <2>3
  <2> QED BY <2>1, <2>2, <2>4 DEF n
<1>11. TotalSteps(b) = TotalSteps(a) + F * StepsOf(N)
  <2> DEFINE C == All(b)
             f == Lengths(C)
  <2>1. CaseSet(C) /\ N \in SUBSET C /\ C \ N = All(a)
    BY <1>2, <1>6, <1>7, AuditNumbers
  <2>2. IsFiniteSet(C) /\ IsFiniteSet(N) /\ IsFiniteSet(All(a))
    BY <1>1, <1>8, <2>1 DEF CaseSet
  <2>3. \A c \in C : f[c] \in Nat /\ f[c] = Len(c.steps)
    BY <2>1, CaseNumbers DEF Lengths
  <2> HIDE DEF C, f
  <2>4. SumOn(f, C) = SumOn(f, N) + SumOn(f, All(a))
    BY <2>1, <2>2, <2>3, SumSplits
  <2>5. \A c \in N : f[c] \in Nat /\ f[c] = Lengths(N)[c]
    BY <2>1, <2>3 DEF Lengths
  <2>6. \A c \in All(a) : f[c] \in Nat /\ f[c] = Lengths(All(a))[c]
    BY <2>1, <2>3 DEF Lengths
  <2>7. SumOn(f, N) = SumOn(Lengths(N), N)
    BY <2>2, <2>5, SumOfEqual
  <2>8. SumOn(f, All(a)) = SumOn(Lengths(All(a)), All(a))
    BY <2>2, <2>6, SumOfEqual
  <2>9. StepsOf(C) = SumOn(f, C)
    BY <2>1, CaseNumbers DEF f
  <2>10. StepsOf(N) = SumOn(Lengths(N), N)
    BY <1>1, CaseNumbers
  <2>11. StepsOf(All(a)) = SumOn(Lengths(All(a)), All(a))
    BY <1>8, CaseNumbers
  <2> DEFINE x == StepsOf(N)
             y == StepsOf(All(a))
  <2>12. StepsOf(C) = x + y /\ x \in Nat /\ y \in Nat /\ F \in Nat
    BY <1>8, <2>4, <2>7, <2>8, <2>9, <2>10, <2>11
  <2>13. TotalSteps(b) = F * StepsOf(C)
    BY <1>6, <1>7, AuditNumbers DEF C
  <2>14. TotalSteps(a) = F * y
    BY AuditNumbers
  <2> HIDE DEF x, y, F
  <2>15. F * (x + y) = F * y + F * x
    BY <2>12
  <2> QED BY <2>12, <2>13, <2>14, <2>15 DEF x
<1> QED
  BY <1>1, <1>2, <1>4, <1>6, <1>7, <1>8, <1>10, <1>11 DEF b, N, F

-----------------------------------------------------------------------------
(* What evaluateCandidate() does with a case of an audit.                  *)
Evaluation(a, c) ==
  CompileCase(a, c, "agent_proposed", TotalCases(a) + Factor(a),
              TotalSteps(a) + Factor(a) * Len(c.steps))

NeutralIn(a) == \A r \in a.rules : "agent_proposed" \in r.origins <=> "manual" \in r.origins

NeutralPaths(a, c) ==
  \A i \in DOMAIN c.steps :
    /\ c.steps[i].tool \in Tools =>
         (c.steps[i].args \in Conforms["proposal"][c.steps[i].tool]
            <=> c.steps[i].args \in Conforms["resource"][c.steps[i].tool])
    /\ SameAdmitted(a.rules, c.steps[i], "agent_proposed", "manual")
PathsWithin(a, c) ==
  \A i \in DOMAIN c.steps : ResolvedBytes(c.steps[i], "manual") <= a.bounds.argument

(* Such paths make no difference.                                          *)
LEMMA NeutralIsSame ==
  ASSUME NEW a, IsAudit(a), NEW c, IsCase(c), NeutralPaths(a, c), PathsWithin(a, c),
         NEW i \in DOMAIN c.steps
  PROVE  SamePaths(a, c.steps[i], "agent_proposed", "manual")
<1> DEFINE s == c.steps[i]
           x == ResolvedBytes(s, "agent_proposed")
           y == ResolvedBytes(s, "manual")
<1>1. s.args \in DOMAIN Tree
  BY StepsAre
<1>2. x \in Nat /\ y \in Nat
  BY <1>1, ResolvedSize
<1>3. x <= y /\ y <= a.bounds.argument
  BY <1>1, ShorterProposal DEF PathsWithin
<1>4. a.bounds.argument \in Nat
  BY DEF IsAudit, Bounds
<1>5. x <= a.bounds.argument
  BY <1>2, <1>3, <1>4
<1>6. PathKind("agent_proposed") = "proposal" /\ PathKind("manual") = "resource"
  BY DEF PathKind
<1>7. StepAccepted(a, s, "agent_proposed") <=> StepAccepted(a, s, "manual")
  BY <1>3, <1>5, <1>6 DEF StepAccepted, NeutralPaths
<1>8. SameAdmitted(a.rules, s, "agent_proposed", "manual")
  BY DEF NeutralPaths
<1> QED BY <1>2, <1>3, <1>5, <1>7, <1>8 DEF SamePaths

(* A neutral policy judges a proposal as it judges a manual case.         *)
LEMMA SameAsManual ==
  ASSUME NEW a, IsAudit(a), NeutralIn(a), NEW b, SameBut(a, b), NEW c, IsCase(c),
         NeutralPaths(a, c), PathsWithin(a, c),
         NEW x, NEW y, NEW v, NEW w, SameTotals(a.bounds, x, y, v, w)
  PROVE  CompileCase(a, c, "agent_proposed", x, y)
           = CompileCase(b, AsManual(c), "manual", v, w)
<1>1. PICK o : o = "agent_proposed"
  OBVIOUS
<1>2. PICK p : p = "manual"
  OBVIOUS
<1>3. PICK m : m = AsManual(c)
  OBVIOUS
<1>4. m.steps = c.steps /\ m.approval = c.approval /\ m.predicted = {}
  BY <1>3, ManualIs
<1>5. b.rules = a.rules /\ b.bounds = a.bounds /\ b.resources = a.resources
  BY DEF SameBut
<1>6. SameOrigin(a.rules, o, p)
  BY <1>1, <1>2 DEF NeutralIn, SameOrigin
<1>7. Conservative(c, o) = Conservative(m, p)
  BY <1>1, <1>2 DEF Conservative
<1>8. \A i \in DOMAIN c.steps : SamePaths(a, c.steps[i], o, p)
  BY <1>1, <1>2, NeutralIsSame
<1>9. CompileCase(a, c, o, x, y) = CompileCase(b, m, p, v, w)
  BY <1>4, <1>5, <1>6, <1>7, <1>8, SameCase
<1> QED BY <1>1, <1>2, <1>3, <1>9

(* A case adopted on its own is compiled as it was evaluated.              *)
LEMMA AdoptedAlone ==
  ASSUME NEW a, IsAudit(a), NeutralIn(a), NEW c, IsCase(c), NeutralPaths(a, c),
         PathsWithin(a, c), \A d \in All(a) : d.caseId # c.caseId
  PROVE  /\ AsManual(c) \in All(With(a, {c}))
         /\ Compiled(With(a, {c}), AsManual(c)) = Evaluation(a, c)
<1> DEFINE S == {c}
           N == Manuals(S)
           b == With(a, S)
           m == AsManual(c)
<1>1. IsFiniteSet(S) /\ (\A d \in S : IsCase(d)) /\ NewIds(a, S)
  BY FS_Singleton DEF NewIds
<1>2. N = {m}
  BY DEF Manuals
<1>3. m.steps = c.steps /\ m.approval = c.approval /\ m.predicted = {} /\ IsCase(m)
  BY ManualIs
<1> HIDE DEF S, m
<1>4. /\ SameBut(a, b) /\ IsAudit(b) /\ N \cap a.suite = {} /\ CaseSet(N)
      /\ All(b) = All(a) \union N
      /\ TotalCases(b) = TotalCases(a) + Factor(a) * Cardinality(N)
      /\ TotalSteps(b) = TotalSteps(a) + Factor(a) * StepsOf(N)
  BY <1>1, WithIs
<1>5. Cardinality(N) = 1
  BY <1>2, FS_Singleton
<1>6. StepsOf(N) = Len(c.steps)
  <2>1. StepsOf(N) = SumOn(Lengths(N), N) /\ IsFiniteSet(N)
    BY <1>4, CaseNumbers DEF CaseSet
  <2>2. Len(c.steps) \in Nat /\ \A x \in N : Lengths(N)[x] = Len(c.steps)
    BY <1>2, <1>3, StepsAre DEF Lengths
  <2> DEFINE n == Len(c.steps)
             f == Lengths(N)
  <2> HIDE DEF n, f, N
  <2>3. SumOn(f, N) = Cardinality(N) * n
    BY <2>1, <2>2, SumOfSame DEF n, f
  <2> QED BY <1>5, <2>1, <2>2, <2>3 DEF n, f
<1>7. Factor(a) \in Nat
  BY AuditNumbers
<1>8. /\ TotalCases(b) = TotalCases(a) + Factor(a)
      /\ TotalSteps(b) = TotalSteps(a) + Factor(a) * Len(c.steps)
  BY <1>4, <1>5, <1>6, <1>7
<1>9. OriginIn(b, m) = "manual"
  BY <1>2, <1>4 DEF OriginIn, SameBut
<1>10. CompileCase(a, c, "agent_proposed", TotalCases(b), TotalSteps(b))
         = CompileCase(b, m, "manual", TotalCases(b), TotalSteps(b))
  <2> HIDE DEF b
  <2>1. SameBut(a, b) /\ SameTotals(a.bounds, TotalCases(b), TotalSteps(b),
                                    TotalCases(b), TotalSteps(b))
    BY <1>4 DEF SameTotals
  <2> QED BY <2>1, SameAsManual DEF m
<1>11. Evaluation(a, c) = CompileCase(a, c, "agent_proposed", TotalCases(b), TotalSteps(b))
  BY <1>8 DEF Evaluation
<1>12. Compiled(b, m) = CompileCase(b, m, "manual", TotalCases(b), TotalSteps(b))
  BY <1>9 DEF Compiled
<1>14. m \in All(b)
  BY <1>2, <1>4
<1> QED
  BY <1>10, <1>11, <1>12, <1>14 DEF b, S, m

Adoptable(a, S) ==
  /\ IsFiniteSet(S) /\ NewIds(a, S) /\ UniqueIds(S)
  /\ \A c \in S :
       /\ IsCase(c) /\ Parses(c) /\ c.kind \in {"tool_call", "security_probe"}
       /\ Evaluation(a, c) # {} /\ NeutralPaths(a, c) /\ PathsWithin(a, c)
       /\ c.kind = "tool_call" => Len(c.steps) = 1
       /\ Len(c.steps) <= a.bounds.stepsPerCase
       /\ Totals(a.bounds, TotalCases(a) + Factor(a),
                 TotalSteps(a) + Factor(a) * Len(c.steps))
  /\ Totals(a.bounds, TotalCases(a) + Factor(a) * Cardinality(Manuals(S)),
            TotalSteps(a) + Factor(a) * StepsOf(Manuals(S)))

UsedTools(C) == UNION {{c.steps[i].tool : i \in DOMAIN c.steps} : c \in C}

LEMMA ToolsStayCovered ==
  ASSUME NEW a, NEW b, ToolsCovered(a), b.coverage = a.coverage, a.coverage \in Nat,
         All(a) \subseteq All(b), UsedTools(All(b)) \subseteq Tools
  PROVE  ToolsCovered(b)
<1> DEFINE A == UsedTools(All(a))
           B == UsedTools(All(b))
<1>1. A \subseteq B
  BY DEF UsedTools
<1>2. IsFiniteSet(Tools)
  BY TreesAssumption
<1>3. /\ ToolsCovered(a) <=> Cardinality(A) * 100 >= a.coverage * Cardinality(Tools)
      /\ ToolsCovered(b) <=> Cardinality(B) * 100 >= b.coverage * Cardinality(Tools)
  BY DEF ToolsCovered, UsedTools, All
<1> HIDE DEF A
<1>4. IsFiniteSet(B)
  BY <1>2, FS_Subset
<1> HIDE DEF B
<1>5. IsFiniteSet(A) /\ Cardinality(A) <= Cardinality(B)
  BY <1>1, <1>4, FS_Subset
<1>6. /\ Cardinality(A) \in Nat /\ Cardinality(B) \in Nat
      /\ Cardinality(Tools) \in Nat
  BY <1>2, <1>4, <1>5, FS_CardinalityType
<1>7. a.coverage * Cardinality(Tools) \in Nat
  BY <1>6, TimesGrows
<1> QED BY <1>3, <1>5, <1>6, <1>7

(* A case adopted among others is compiled as it was evaluated alone.     *)
LEMMA AdoptedCase ==
  ASSUME NEW a, IsAudit(a), Composable(a), NeutralIn(a), NEW S, Adoptable(a, S),
         NEW c \in S
  PROVE  /\ AsManual(c) \in All(With(a, S))
         /\ Compiled(With(a, S), AsManual(c)) = Evaluation(a, c)
<1> DEFINE b == With(a, S)
           N == Manuals(S)
           m == AsManual(c)
<1>1. /\ IsFiniteSet(S) /\ NewIds(a, S) /\ \A d \in S : IsCase(d)
      /\ NeutralPaths(a, c) /\ PathsWithin(a, c)
      /\ Totals(a.bounds, TotalCases(a) + Factor(a),
                TotalSteps(a) + Factor(a) * Len(c.steps))
      /\ Totals(a.bounds, TotalCases(a) + Factor(a) * Cardinality(N),
                TotalSteps(a) + Factor(a) * StepsOf(N))
  BY DEF Adoptable
<1>2. m \in N
  BY DEF Manuals
<1> HIDE DEF m
<1>3. /\ SameBut(a, b) /\ N \cap a.suite = {} /\ All(b) = All(a) \union N
      /\ TotalCases(b) = TotalCases(a) + Factor(a) * Cardinality(N)
      /\ TotalSteps(b) = TotalSteps(a) + Factor(a) * StepsOf(N)
  BY <1>1, WithIs
<1> HIDE DEF N
<1>4. OriginIn(b, m) = "manual"
  BY <1>2, <1>3 DEF OriginIn, SameBut
<1> HIDE DEF b
<1>5. SameTotals(a.bounds, TotalCases(a) + Factor(a), TotalSteps(a) + Factor(a) * Len(c.steps),
                 TotalCases(b), TotalSteps(b))
  BY <1>1, <1>3 DEF SameTotals
<1>6. CompileCase(a, c, "agent_proposed", TotalCases(a) + Factor(a),
                  TotalSteps(a) + Factor(a) * Len(c.steps))
        = CompileCase(b, AsManual(c), "manual", TotalCases(b), TotalSteps(b))
  BY <1>1, <1>3, <1>5, SameAsManual
<1>7. Compiled(b, m) = CompileCase(b, m, "manual", TotalCases(b), TotalSteps(b))
  BY <1>4 DEF Compiled
<1>8. m \in All(b)
  BY <1>2, <1>3
<1> QED
  BY <1>6, <1>7, <1>8 DEF Evaluation, b, m

(* The names stay unique.                                                 *)
LEMMA AdoptedIds ==
  ASSUME NEW a, Composable(a), NEW S, NewIds(a, S), UniqueIds(S)
  PROVE  UniqueIds(All(a) \union Manuals(S))
<1>1. UniqueIds(All(a))
  BY ComposedIds DEF Composable
<1>2. ASSUME NEW c \in Manuals(S), NEW d \in All(a)
      PROVE  c.caseId # d.caseId
  BY ManualIs DEF Manuals, NewIds
<1>3. ASSUME NEW c \in Manuals(S), NEW d \in Manuals(S), c.caseId = d.caseId
      PROVE  c = d
  <2>1. PICK x \in S : c = AsManual(x)
    BY DEF Manuals
  <2>2. PICK y \in S : d = AsManual(y)
    BY DEF Manuals
  <2>3. x.caseId = y.caseId
    BY <1>3, <2>1, <2>2, ManualIs
  <2> QED BY <2>1, <2>2, <2>3 DEF UniqueIds
<1> QED BY <1>1, <1>2, <1>3 DEF UniqueIds

(* What keeps within the budget, and each case of which was evaluated, compiles.*)
LEMMA AdoptedCompiles ==
  ASSUME NEW a, IsAudit(a), Compile(a) # {}, NeutralIn(a), NEW S, Adoptable(a, S),
         AggregatesHold(With(a, S))
  PROVE  /\ Compile(With(a, S)) = {Plan(With(a, S))}
         /\ UniqueIds(All(With(a, S)))
         /\ \A c \in S : /\ AsManual(c) \in All(With(a, S))
                         /\ Compiled(With(a, S), AsManual(c)) = Evaluation(a, c)
<1> DEFINE b == With(a, S)
           N == Manuals(S)
           F == Factor(a)
<1>1. /\ Composable(a)
      /\ \A c \in All(a) : c.kind = "tool_call" => Len(c.steps) = 1
  BY CompiledPlan
<1>2. /\ IsFiniteSet(S) /\ NewIds(a, S) /\ UniqueIds(S) /\ \A d \in S : IsCase(d)
      /\ Totals(a.bounds, TotalCases(a) + F * Cardinality(N), TotalSteps(a) + F * StepsOf(N))
  BY DEF Adoptable
<1>3. /\ SameBut(a, b) /\ b.manual = a.manual \union N /\ IsAudit(b)
      /\ CaseSet(N) /\ N \cap All(a) = {} /\ N \cap a.suite = {}
      /\ All(b) = All(a) \union N /\ Factor(b) = F
      /\ TotalCases(b) = TotalCases(a) + F * Cardinality(N)
      /\ TotalSteps(b) = TotalSteps(a) + F * StepsOf(N)
  BY <1>2, WithIs
<1>4. \A c \in S : AsManual(c) \in All(b) /\ Compiled(b, AsManual(c)) = Evaluation(a, c)
  BY <1>1, AdoptedCase
<1>5. UniqueIds(All(b))
  BY <1>1, <1>2, <1>3, AdoptedIds
<1>6. AggregatesHold(b)
  OBVIOUS
<1>7. ASSUME NEW m \in N
      PROVE  /\ m.kind = "tool_call" => Len(m.steps) = 1
             /\ m.steps # <<>> /\ m.predictor = "operator"
             /\ m.kind \in {"tool_call", "security_probe"}
             /\ Len(m.steps) <= a.bounds.stepsPerCase
             /\ Compiled(b, m) # {}
  <2>1. PICK c \in S : m = AsManual(c)
    BY DEF Manuals
  <2>2. /\ m.steps = c.steps /\ m.kind = c.kind /\ m.predictor = "operator"
    BY <2>1, ManualIs
  <2>3. Compiled(b, m) = Evaluation(a, c)
    BY <1>4, <2>1
  <2>4. /\ Parses(c) /\ c.kind \in {"tool_call", "security_probe"}
        /\ Evaluation(a, c) # {}
        /\ c.kind = "tool_call" => Len(c.steps) = 1
        /\ Len(c.steps) <= a.bounds.stepsPerCase
    BY DEF Adoptable
  <2> HIDE DEF b, N
  <2> QED BY <2>2, <2>3, <2>4 DEF Parses
<1> HIDE DEF b, N
<1>8. Totals(b.bounds, TotalCases(b), TotalSteps(b)) /\ b.bounds = a.bounds
  BY <1>2, <1>3 DEF SameBut
<1>9. ASSUME NEW c \in All(a)
      PROVE  Compiled(b, c) # {}
  <2> DEFINE o == OriginIn(a, c)
  <2>1. OriginIn(b, c) = o
    BY <1>3 DEF OriginIn, SameBut
  <2>2. Totals(a.bounds, TotalCases(a), TotalSteps(a)) /\ Compiled(a, c) # {}
    BY <1>1, ComposedTotals
  <2>3. SameTotals(a.bounds, TotalCases(a), TotalSteps(a), TotalCases(b), TotalSteps(b))
    BY <1>8, <2>2 DEF SameTotals
  <2>4. b.rules = a.rules /\ b.bounds = a.bounds /\ b.resources = a.resources
    BY <1>3 DEF SameBut
  <2> HIDE DEF o
  <2>5. SameOrigin(a.rules, o, o)
    BY DEF SameOrigin
  <2>6. \A i \in DOMAIN c.steps : SamePaths(a, c.steps[i], o, o)
    BY SamePathKind
  <2>7. CompileCase(a, c, o, TotalCases(a), TotalSteps(a))
          = CompileCase(b, c, o, TotalCases(b), TotalSteps(b))
    BY <2>3, <2>4, <2>5, <2>6, SameCase
  <2> QED BY <2>1, <2>2, <2>7 DEF Compiled, o
<1>10. \A c \in All(b) : Compiled(b, c) # {}
  BY <1>3, <1>7, <1>9
<1>11. ASSUME NEW c \in All(b), NEW i \in DOMAIN c.steps
       PROVE  StepAccepted(b, c.steps[i], OriginIn(b, c))
  BY <1>10, <1>11, CompiledSteps
<1>12. WellFormed(b)
  <2>1. /\ \A r \in a.rules : RuleWellFormed(r)
        /\ SpecWellFormed(a) /\ CasesWellFormed(a.suite)
    BY <1>1 DEF Composable, WellFormed
  <2> DEFINE k == b.repetitions * Cardinality(b.variants) * Cardinality(b.manual)
  <2>2. k = F * Cardinality(b.manual)
    BY <1>3 DEF Factor
  <2>3. TotalCases(b) = b.reservation + k
    <3>1. F * Cardinality(b.suite) = b.reservation
      BY <1>1, <1>3, ComposedTotals DEF SameBut
    <3> DEFINE s == Cardinality(b.suite)
               t == Cardinality(b.manual)
    <3>2. s \in Nat /\ t \in Nat /\ F \in Nat
      BY <1>3, AuditNumbers
    <3>3. TotalCases(b) = F * (s + t)
      BY <1>3 DEF TotalCases
    <3> HIDE DEF s, t, F, k
    <3>4. F * (s + t) = F * s + F * t
      BY <3>2
    <3> QED BY <2>2, <3>1, <3>3, <3>4 DEF s, t
  <2>4. b.reservation + k <= b.bounds.cases /\ b.reservation + k <= ArrayItems
    BY <1>6, <1>8, <2>3 DEF AggregatesHold, Totals
  <2>5. CasesWellFormed(b.manual)
    <3>1. \A c \in a.manual : c.steps # <<>>
      BY <2>1 DEF SpecWellFormed, CasesWellFormed
    <3>2. b.manual \subseteq All(b)
      BY DEF All
    <3>3. \A m \in Measures :
            SumFunction([c \in b.manual |-> TemplateWeight(c)[m]]) <= MaxArtifact[m]
      BY <1>6 DEF AggregatesHold
    <3>4. \A c \in b.manual : c.steps # <<>>
      BY <1>3, <1>7, <3>1
    <3>5. \A c, d \in b.manual : c.caseId = d.caseId => c = d
      BY <1>5, <3>2 DEF UniqueIds
    <3> QED BY <3>3, <3>4, <3>5 DEF CasesWellFormed
  <2> HIDE DEF k
  <2>6. SpecWellFormed(b)
    BY <1>3, <2>1, <2>4, <2>5 DEF SpecWellFormed, SameBut, k
  <2> QED BY <1>3, <2>1, <2>6 DEF WellFormed, SameBut
<1>13. BindingsHold(b)
  BY <1>1, <1>3 DEF Composable, BindingsHold, SameBut
<1>14. Expandable(b)
  <2>1. Expandable(a)
    BY <1>1 DEF Composable
  <2>2. TotalCases(b) <= ArrayItems /\ TotalCases(b) <= b.bounds.cases
    BY <1>6, <1>8 DEF AggregatesHold, Totals
  <2>3. /\ \A c \in All(a) : c.kind \in {"tool_call", "security_probe"}
        /\ a.required \subseteq {c.caseId : c \in a.suite}
        /\ \A c \in a.suite : c.predictor = "deterministic_generator"
        /\ \A c \in a.manual : c.predictor = "operator"
        /\ F * Cardinality(a.suite) = a.reservation
    BY <2>1 DEF Expandable, All
  <2>4. \A c \in b.suite, d \in b.manual : c.caseId # d.caseId
    <3>1. b.suite \subseteq All(b) /\ b.manual \subseteq All(b)
      BY DEF All
    <3>2. b.suite \cap b.manual = {}
      <4>1. a.suite \cap a.manual = {}
        BY <1>1, ComposedIds DEF Composable
      <4> QED BY <1>3, <4>1 DEF SameBut
    <3>3. \A c, d \in All(b) : c.caseId = d.caseId => c = d
      BY <1>5 DEF UniqueIds
    <3> QED BY <3>1, <3>2, <3>3
  <2>5. ASSUME NEW c \in All(b), NEW x \in Arguments(c)
        PROVE  Analysis[x].analyzable /\ Analysis[x].weight.bytes <= b.bounds.argument
    <3>1. PICK i \in DOMAIN c.steps : x = c.steps[i].args
      BY DEF Arguments
    <3>2. StepAccepted(b, c.steps[i], OriginIn(b, c))
      BY <1>11
    <3> QED BY <3>1, <3>2 DEF StepAccepted, Resolvable
  <2>6. \A c \in All(b) : c.kind \in {"tool_call", "security_probe"}
    BY <1>3, <1>7, <2>3
  <2>7. \A c \in b.manual : c.predictor = "operator"
    BY <1>3, <1>7, <2>3
  <2>8. b.suite = a.suite /\ b.required = a.required /\ b.reservation = a.reservation
        /\ Factor(b) = F
    BY <1>3 DEF SameBut
  <2> HIDE DEF F
  <2> QED BY <2>2, <2>3, <2>4, <2>5, <2>6, <2>7, <2>8 DEF Expandable, All
<1>15. ResourceClassesBound(b)
  BY <1>1, <1>3 DEF Composable, ResourceClassesBound, SameBut
<1>16. ToolsCovered(b)
  <2>1. ToolsCovered(a) /\ b.coverage = a.coverage /\ a.coverage \in Nat
    BY <1>1, <1>3 DEF Composable, SameBut, IsAudit
  <2>2. UsedTools(All(b)) \subseteq Tools
    BY <1>11 DEF UsedTools, StepAccepted
  <2>3. All(a) \subseteq All(b)
    BY <1>3
  <2> QED BY <2>1, <2>2, <2>3, ToolsStayCovered
<1>17. StepsBounded(b)
  <2>1. \A c \in All(a) : Len(c.steps) <= a.bounds.stepsPerCase
    BY <1>1 DEF Composable, StepsBounded, All
  <2>2. TotalSteps(b) <= b.bounds.steps /\ TotalSteps(b) <= MaxExpandedSteps
    BY <1>6, <1>8 DEF AggregatesHold, Totals
  <2>3. \A c \in All(b) : Len(c.steps) <= b.bounds.stepsPerCase
    BY <1>3, <1>7, <1>8, <2>1
  <2> QED BY <2>2, <2>3 DEF StepsBounded, All
<1>18. /\ PolicyWorkBounded(b.rules, TotalSteps(b))
       /\ Materializable(b) /\ WorkBounded(b) /\ CanonicalBounded(b)
  BY <1>6 DEF AggregatesHold
<1>19. Composable(b)
  BY <1>10, <1>12, <1>13, <1>14, <1>15, <1>16, <1>17, <1>18 DEF Composable, All
<1>20. \A c \in All(b) : c.kind = "tool_call" => Len(c.steps) = 1
  BY <1>1, <1>3, <1>7
<1>21. Compile(b) = {Plan(b)}
  <2>1. \A m \in Measures : PlanWeight(Plan(b))[m] <= MaxArtifact[m]
    BY <1>6, <1>19 DEF AggregatesHold
  <2> QED BY <1>3, <1>19, <1>20, <2>1, Compiles
<1> QED
  BY <1>4, <1>5, <1>21 DEF b

-----------------------------------------------------------------------------
(* The budget of the proposals.                                            *)
LEMMA Quotient ==
  ASSUME NEW n \in Nat, NEW d \in Nat, d >= 1
  PROVE  n \div d \in Nat /\ d * (n \div d) <= n
OBVIOUS

(* What is left of a bound, in cases that are not yet expanded.           *)
LEMMA LeftIs ==
  ASSUME IsAudit(audit), Factor(audit) >= 1,
         NEW bound \in Nat, NEW used \in Nat, used <= bound, NEW limit \in Nat
  PROVE  /\ Least(limit, Left(bound, used)) \in Nat
         /\ \A n \in Nat : n <= Least(limit, Left(bound, used)) =>
              used + Factor(audit) * n <= bound
<1> DEFINE F == Factor(audit)
           d == bound - used
           q == d \div F
<1>1. F \in Nat /\ d \in Nat /\ F >= 1
  BY AuditNumbers
<1>2. q \in Nat /\ F * q <= d
  <2> HIDE DEF F, d
  <2> QED BY <1>1, Quotient
<1>3. Left(bound, used) = q
  BY DEF Left
<1>4. bound = used + d
  OBVIOUS
<1> HIDE DEF F, d, q
<1>5. Least(limit, q) \in Nat /\ Least(limit, q) <= q
  BY <1>2 DEF Least
<1>6. ASSUME NEW n \in Nat, n <= Least(limit, q)
      PROVE  used + F * n <= bound
  <2>1. n <= q
    BY <1>2, <1>5, <1>6
  <2>2. F * n <= F * q /\ F * n \in Nat /\ F * q \in Nat
    BY <1>1, <1>2, <2>1, TimesGrows
  <2> QED BY <1>1, <1>2, <1>4, <2>2
<1> QED BY <1>3, <1>5, <1>6 DEF F

(* The budget of the proposals keeps the expanded plan within its bounds. *)
LEMMA BudgetIs ==
  ASSUME audit \in Audits, Compile(audit) # {}
  PROVE  /\ IsAudit(audit) /\ Composable(audit) /\ Factor(audit) \in Nat
         /\ MaxAcceptedCases \in Nat /\ MaxAcceptedSteps \in Nat
         /\ TotalCases(audit) \in Nat /\ TotalSteps(audit) \in Nat
         /\ \A n \in Nat : n <= MaxAcceptedCases =>
              TotalCases(audit) + Factor(audit) * n <= audit.bounds.cases
         /\ \A n \in Nat : n <= MaxAcceptedSteps =>
              TotalSteps(audit) + Factor(audit) * n <= audit.bounds.steps
<1>1. IsAudit(audit) /\ {MaxCandidates, MaxProposedSteps} \subseteq Nat
  BY AuditsAssumption
<1>2. Composable(audit)
  BY <1>1, CompiledPlan
<1>3. /\ Totals(audit.bounds, TotalCases(audit), TotalSteps(audit))
      /\ Factor(audit) * Cardinality(audit.suite) = audit.reservation
  BY <1>1, <1>2, ComposedTotals
<1>4. /\ Factor(audit) \in Nat /\ Cardinality(audit.suite) \in Nat
      /\ audit.bounds \in Bounds
  BY <1>1, AuditNumbers
<1>5. audit.reservation >= 1
  BY <1>2 DEF Composable, WellFormed, SpecWellFormed
<1>6. Factor(audit) >= 1
  <2>1. ASSUME Factor(audit) = 0
        PROVE  FALSE
    <3>1. 0 * Cardinality(audit.suite) = 0
      BY <1>4
    <3> QED BY <1>3, <1>5, <2>1, <3>1
  <2> QED BY <1>4, <2>1
<1>7. /\ audit.bounds.cases \in Nat /\ audit.bounds.steps \in Nat
      /\ TotalCases(audit) \in Nat /\ TotalCases(audit) <= audit.bounds.cases
      /\ TotalSteps(audit) \in Nat /\ TotalSteps(audit) <= audit.bounds.steps
  BY <1>3, <1>4 DEF Totals, Bounds
<1> DEFINE p == audit.bounds.cases
           q == audit.bounds.steps
           x == TotalCases(audit)
           y == TotalSteps(audit)
<1>8. MaxAcceptedCases = Least(MaxCandidates, Left(p, x))
  BY DEF MaxAcceptedCases
<1>9. MaxAcceptedSteps = Least(MaxProposedSteps, Left(q, y))
  BY DEF MaxAcceptedSteps
<1> HIDE DEF p, q, x, y
<1>10. /\ Least(MaxCandidates, Left(p, x)) \in Nat
       /\ \A n \in Nat : n <= Least(MaxCandidates, Left(p, x)) =>
            x + Factor(audit) * n <= p
  BY <1>1, <1>6, <1>7, LeftIs DEF p, x
<1>11. /\ Least(MaxProposedSteps, Left(q, y)) \in Nat
       /\ \A n \in Nat : n <= Least(MaxProposedSteps, Left(q, y)) =>
            y + Factor(audit) * n <= q
  BY <1>1, <1>6, <1>7, LeftIs DEF q, y
<1> QED
  BY <1>1, <1>2, <1>4, <1>7, <1>8, <1>9, <1>10, <1>11 DEF p, q, x, y

-----------------------------------------------------------------------------
(* The findings.                                                           *)
Late == {"duplicate_baseline", "duplicate_agent", "bounds_exceeded", "accepted"}
Sound(c) ==
  /\ Parses(c) /\ c.kind \in {"tool_call", "security_probe"}
  /\ \A d \in Baseline : d.caseId # c.caseId
Novel(c) ==
  /\ \A i \in AcceptedAt : /\ examined[i].candidate.caseId # c.caseId
                         /\ Semantics(examined[i].candidate) # Semantics(c)
  /\ \A d \in Baseline : Semantics(d) # Semantics(c)

(* What each finding says of the candidate and of what was accepted before.*)
LEMMA FindingIs ==
  ASSUME NEW c
  PROVE  /\ Finding(c) \in Early \union Late
         /\ Finding(c) \in Late => EvaluateCandidate(c) # {}
         /\ Finding(c) = "evaluation_failed" => EvaluateCandidate(c) = {}
         /\ Finding(c) \in Late \union {"evaluation_failed"} => Sound(c)
         /\ Finding(c) = "accepted" =>
              /\ Novel(c)
              /\ ~(Cardinality(AcceptedAt) + 1 > MaxAcceptedCases)
              /\ ~(StepsIn(AcceptedAt) + Len(c.steps) > MaxAcceptedSteps)
<1> DEFINE earlier == {examined[i].candidate : i \in Parsed}
           named == {examined[i].candidate : i \in {j \in Parsed :
                                 examined[j].reason # "duplicate_proposal_id"}}
           p1 == Len(examined) >= MaxCandidates
           p3 == \E d \in earlier : d.proposalId = c.proposalId
           p4 == \E d \in named : d.caseId = c.caseId
           p5 == \E d \in Baseline : d.caseId = c.caseId
           p6 == c.kind \notin {"tool_call", "security_probe"}
           p7 == StepsIn(Parsed) + Len(c.steps) > MaxProposedSteps
           p8 == EvaluateCandidate(c) = {}
           p9 == Semantics(c) \in {Semantics(d) : d \in Baseline}
           p10 == Semantics(c) \in {Semantics(e.candidate) : e \in Selected}
           p11 == \/ Cardinality(AcceptedAt) + 1 > MaxAcceptedCases
                  \/ StepsIn(AcceptedAt) + Len(c.steps) > MaxAcceptedSteps
<1>1. Finding(c) =
        IF p1 THEN "beyond"
        ELSE IF ~Parses(c) THEN "contract_invalid"
        ELSE IF p3 THEN "duplicate_proposal_id"
        ELSE IF p4 THEN "duplicate_case_id"
        ELSE IF p5 THEN "reserved_case_id"
        ELSE IF p6 THEN "unsupported_case_kind"
        ELSE IF p7 THEN "steps_exceeded"
        ELSE IF p8 THEN "evaluation_failed"
        ELSE IF p9 THEN "duplicate_baseline"
        ELSE IF p10 THEN "duplicate_agent"
        ELSE IF p11 THEN "bounds_exceeded"
        ELSE "accepted"
  BY DEF Finding
<1>2. ~p4 => \A i \in AcceptedAt : examined[i].candidate.caseId # c.caseId
  <2>1. \A i \in AcceptedAt : i \in Parsed /\ examined[i].reason # "duplicate_proposal_id"
    BY DEF AcceptedAt, Parsed
  <2> QED BY <2>1
<1>3. ~p9 => \A d \in Baseline : Semantics(d) # Semantics(c)
  OBVIOUS
<1>4. ~p10 => \A i \in AcceptedAt : Semantics(examined[i].candidate) # Semantics(c)
  BY DEF Selected
<1>5. ~p5 => \A d \in Baseline : d.caseId # c.caseId
  OBVIOUS
<1>6. ~p6 => c.kind \in {"tool_call", "security_probe"}
  OBVIOUS
<1>7. ~p11 => /\ ~(Cardinality(AcceptedAt) + 1 > MaxAcceptedCases)
              /\ ~(StepsIn(AcceptedAt) + Len(c.steps) > MaxAcceptedSteps)
  OBVIOUS
<1>8. ~p8 => EvaluateCandidate(c) # {}
  OBVIOUS
<1>9. p8 => EvaluateCandidate(c) = {}
  OBVIOUS
<1> HIDE DEF p1, p3, p4, p5, p6, p7, p8, p9, p10, p11, earlier, named
<1>10. Finding(c) \in Early \union Late
  BY <1>1 DEF Early, Late
<1>11. Finding(c) \in Late => ~p8
  BY <1>1 DEF Late
<1>12. Finding(c) = "evaluation_failed" => p8
  BY <1>1
<1>13. Finding(c) \in Late \union {"evaluation_failed"} => Parses(c) /\ ~p5 /\ ~p6
  BY <1>1 DEF Late
<1>14. Finding(c) = "accepted" => ~p4 /\ ~p9 /\ ~p10 /\ ~p11
  BY <1>1
<1>15. Finding(c) \in Late \union {"evaluation_failed"} => Sound(c)
  BY <1>5, <1>6, <1>13 DEF Sound
<1>16. Finding(c) = "accepted" => Novel(c)
  BY <1>2, <1>3, <1>4, <1>14 DEF Novel
<1> QED BY <1>7, <1>8, <1>9, <1>10, <1>11, <1>12, <1>14, <1>15, <1>16

-----------------------------------------------------------------------------
(* The invariant of the comparison.                                        *)
Entries == [candidate : Candidates, reason : Early \union Late, approval : SUBSET Ranks]

EntryOk(e) ==
  /\ e.approval = IF e.reason \in Early THEN {} ELSE EvaluateCandidate(e.candidate)
  /\ e.reason \in Late => EvaluateCandidate(e.candidate) # {}
  /\ e.reason = "evaluation_failed" => EvaluateCandidate(e.candidate) = {}
  /\ e.reason \in Late \union {"evaluation_failed"} => Sound(e.candidate)
  /\ e.reason = "accepted" =>
       \A d \in Baseline : Semantics(d) # Semantics(e.candidate)

Differ(c, d) == c.caseId # d.caseId /\ Semantics(c) # Semantics(d)

WithinBudget ==
  /\ Compile(audit) # {}
  /\ Cardinality(AcceptedAt) <= MaxAcceptedCases
  /\ StepsIn(AcceptedAt) <= MaxAcceptedSteps

ProposalsInv ==
  /\ audit \in Audits
  /\ proposals \in {"given", "prepared", "reported", "refused"}
  /\ examined \in Seq(Entries)
  /\ proposals = "given" => examined = <<>>
  /\ \A e \in Range(examined) : EntryOk(e)
  /\ \A i, j \in AcceptedAt : i # j => Differ(examined[i].candidate, examined[j].candidate)
  /\ proposals \in {"prepared", "reported"} => WithinBudget

-----------------------------------------------------------------------------
(* An audit that stays.                                                    *)
LEMMA AuditStays ==
  ASSUME audit' = audit, NEW c
  PROVE  /\ EvaluateCandidate(c)' = EvaluateCandidate(c)
         /\ Semantics(c)' = Semantics(c)
         /\ Baseline' = Baseline
         /\ Sound(c)' <=> Sound(c)
         /\ MaxAcceptedCases' = MaxAcceptedCases
         /\ MaxAcceptedSteps' = MaxAcceptedSteps
<1>1. Baseline' = Baseline
  BY DEF Baseline
<1>2. Features(c)' = Features(c)
  BY DEF Features
<1>3. EvaluateCandidate(c)' = EvaluateCandidate(c)
  BY <1>2 DEF EvaluateCandidate
<1>4. Semantics(c)' = Semantics(c)
  BY DEF Semantics
<1>5. Sound(c)' <=> Sound(c)
  BY <1>1 DEF Sound, Parses
<1>6. MaxAcceptedCases' = MaxAcceptedCases /\ MaxAcceptedSteps' = MaxAcceptedSteps
  BY DEF MaxAcceptedCases, MaxAcceptedSteps, Left, Least
<1> QED BY <1>1, <1>3, <1>4, <1>5, <1>6

LEMMA EntryStays ==
  ASSUME audit' = audit, NEW e
  PROVE  EntryOk(e)' <=> EntryOk(e)
<1>1. PICK c : c = e.candidate
  OBVIOUS
<1>2. /\ EvaluateCandidate(c)' = EvaluateCandidate(c)
      /\ Baseline' = Baseline
      /\ Sound(c)' <=> Sound(c)
  BY AuditStays
<1>3. \A d : Semantics(d)' = Semantics(d)
  BY AuditStays
<1> QED BY <1>1, <1>2, <1>3 DEF EntryOk

-----------------------------------------------------------------------------
(* One more entry.                                                         *)
AcceptedIn(s) == {i \in DOMAIN s : s[i].reason = "accepted"}
StepsAt(s, P) == SumFunction([i \in P |-> Len(s[i].candidate.steps)])

(* The entries of the comparison.                                         *)
LEMMA EntriesAre ==
  ASSUME NEW s \in Seq(Entries)
  PROVE  /\ Len(s) \in Nat /\ DOMAIN s = 1..Len(s)
         /\ \A i \in DOMAIN s :
              /\ s[i] \in Entries /\ s[i].candidate \in Candidates
              /\ s[i].reason \in Early \union Late /\ s[i].approval \in SUBSET Ranks
              /\ IsCase(s[i].candidate) /\ Len(s[i].candidate.steps) \in Nat
         /\ IsFiniteSet(AcceptedIn(s)) /\ Cardinality(AcceptedIn(s)) \in Nat
         /\ AcceptedIn(s) \subseteq 1..Len(s)
<1>1. \A e \in Entries : /\ e.candidate \in Candidates /\ e.reason \in Early \union Late
                         /\ e.approval \in SUBSET Ranks
  BY DEF Entries
<1>2. Len(s) \in Nat /\ DOMAIN s = 1..Len(s) /\ \A i \in DOMAIN s : s[i] \in Entries
  <2> HIDE DEF Entries
  <2> QED OBVIOUS
<1>3. \A c \in Candidates : IsCase(c) /\ Len(c.steps) \in Nat
  BY AuditsAssumption, StepsAre
<1>4. AcceptedIn(s) \subseteq 1..Len(s)
  BY <1>2 DEF AcceptedIn
<1>5. IsFiniteSet(1..Len(s))
  BY <1>2, FS_Interval
<1>6. IsFiniteSet(AcceptedIn(s))
  BY <1>4, <1>5, FS_Subset
<1>7. Cardinality(AcceptedIn(s)) \in Nat
  BY <1>6, FS_CardinalityType
<1> QED BY <1>1, <1>2, <1>3, <1>4, <1>6, <1>7

(* The steps of the entries at some places.                               *)
LEMMA StepsAtIs ==
  ASSUME NEW s, NEW P, IsFiniteSet(P)
  PROVE  StepsAt(s, P) = SumOn([i \in P |-> Len(s[i].candidate.steps)], P)
<1> DEFINE f == [i \in P |-> Len(s[i].candidate.steps)]
<1>1. DOMAIN f = P /\ StepsAt(s, P) = SumFunction(f)
  BY DEF StepsAt
<1> HIDE DEF f
<1>2. SumFunction(f) = SumOn(f, DOMAIN f)
  BY <1>1, SumIs
<1> QED BY <1>1, <1>2 DEF f

LEMMA SameSteps ==
  ASSUME NEW s, NEW t, NEW P, IsFiniteSet(P),
         \A i \in P : t[i] = s[i] /\ Len(s[i].candidate.steps) \in Nat
  PROVE  StepsAt(t, P) = StepsAt(s, P) /\ StepsAt(s, P) \in Nat
<1> DEFINE f == [i \in P |-> Len(s[i].candidate.steps)]
           g == [i \in P |-> Len(t[i].candidate.steps)]
<1>1. f = g /\ \A i \in P : f[i] \in Nat
  OBVIOUS
<1>2. StepsAt(s, P) = SumOn(f, P) /\ StepsAt(t, P) = SumOn(g, P)
  BY StepsAtIs
<1> HIDE DEF f, g
<1>3. SumOn(f, P) \in Nat
  BY <1>1, SumIsNat
<1> QED BY <1>1, <1>2, <1>3

(* One element taken out of a whole sum.                                  *)
LEMMA TakenOut ==
  ASSUME NEW S, IsFiniteSet(S), NEW f, \A x \in S : f[x] \in Nat, NEW y \in S
  PROVE  SumOn(f, S) = f[y] + SumOn(f, S \ {y})
<1>1. ASSUME NEW T \in SUBSET S, NEW z \in T
      PROVE  SumOn(f, T) = f[z] + SumOn(f, T \ {z})
  BY SumTakesOut
<1>2. S \in SUBSET S
  OBVIOUS
<1> QED BY <1>1, <1>2

(* One more place adds its steps.                                         *)
LEMMA MoreSteps ==
  ASSUME NEW s, NEW P, IsFiniteSet(P), NEW n, n \notin P,
         \A i \in P \union {n} : Len(s[i].candidate.steps) \in Nat
  PROVE  StepsAt(s, P \union {n}) = StepsAt(s, P) + Len(s[n].candidate.steps)
<1>0. PICK Q : Q = P \union {n}
  OBVIOUS
<1>a. PICK f : f = [i \in Q |-> Len(s[i].candidate.steps)]
  OBVIOUS
<1>b. PICK g : g = [i \in P |-> Len(s[i].candidate.steps)]
  OBVIOUS
<1>1. IsFiniteSet(Q) /\ Q \ {n} = P /\ n \in Q
  BY <1>0, FS_AddElement
<1>2. \A i \in Q : f[i] \in Nat
  BY <1>0, <1>a
<1>3. (\A i \in P : f[i] \in Nat /\ f[i] = g[i]) /\ f[n] = Len(s[n].candidate.steps)
  BY <1>0, <1>a, <1>b
<1>4. StepsAt(s, Q) = SumOn(f, Q) /\ StepsAt(s, P) = SumOn(g, P)
  BY <1>1, <1>a, <1>b, StepsAtIs
<1>5. SumOn(f, P) = SumOn(g, P)
  BY <1>3, SumOfEqual
<1>6. SumOn(f, Q) = f[n] + SumOn(f, P)
  <2>1. SumOn(f, Q) = f[n] + SumOn(f, Q \ {n})
    BY <1>1, <1>2, TakenOut
  <2> QED BY <1>1, <2>1
<1>7. SumOn(f, P) \in Nat /\ f[n] \in Nat
  BY <1>0, <1>1, <1>2, SumIsNat
<1> QED BY <1>0, <1>3, <1>4, <1>5, <1>6, <1>7

(* One more entry, accepted or not.                                       *)
LEMMA Appended ==
  ASSUME NEW s \in Seq(Entries), NEW e \in Entries
  PROVE  LET t == Append(s, e)
             n == Len(s) + 1
             A == AcceptedIn(s)
         IN  /\ t \in Seq(Entries) /\ DOMAIN t = DOMAIN s \union {n} /\ n \notin DOMAIN s
             /\ t[n] = e /\ \A i \in DOMAIN s : t[i] = s[i]
             /\ IF e.reason = "accepted"
                THEN /\ AcceptedIn(t) = A \union {n}
                     /\ Cardinality(AcceptedIn(t)) = Cardinality(A) + 1
                     /\ StepsAt(t, AcceptedIn(t)) = StepsAt(s, A) + Len(e.candidate.steps)
                ELSE /\ AcceptedIn(t) = A
                     /\ StepsAt(t, AcceptedIn(t)) = StepsAt(s, A)
<1> DEFINE t == Append(s, e)
           n == Len(s) + 1
           A == AcceptedIn(s)
<1>1. t \in Seq(Entries) /\ Len(t) = n /\ t[n] = e /\ \A i \in 1..Len(s) : t[i] = s[i]
  <2> HIDE DEF Entries
  <2> QED OBVIOUS
<1>2. Len(s) \in Nat /\ DOMAIN s = 1..Len(s) /\ IsFiniteSet(A) /\ A \subseteq 1..Len(s)
      /\ \A i \in DOMAIN s : Len(s[i].candidate.steps) \in Nat
  BY EntriesAre
<1>3. DOMAIN t = 1..n /\ Len(e.candidate.steps) \in Nat
  <2> HIDE DEF t, n
  <2>1. DOMAIN t = 1..n /\ \A i \in DOMAIN t : Len(t[i].candidate.steps) \in Nat
    BY <1>1, EntriesAre
  <2>2. n \in 1..n
    BY <1>2 DEF n
  <2> QED BY <1>1, <2>1, <2>2
<1>4. DOMAIN t = DOMAIN s \union {n} /\ n \notin DOMAIN s
  BY <1>2, <1>3
<1>5. \A i \in DOMAIN s : t[i] = s[i]
  BY <1>1, <1>2
<1> HIDE DEF t, n
<1>6. AcceptedIn(t) = IF e.reason = "accepted" THEN A \union {n} ELSE A
  BY <1>1, <1>4, <1>5 DEF AcceptedIn
<1>7. n \notin A /\ \A i \in A : t[i] = s[i] /\ Len(s[i].candidate.steps) \in Nat
  BY <1>2, <1>4, <1>5
<1> HIDE DEF A
<1>8. StepsAt(t, A) = StepsAt(s, A)
  BY <1>2, <1>7, SameSteps
<1>9. \A i \in A \union {n} : Len(t[i].candidate.steps) \in Nat
  BY <1>1, <1>3, <1>7
<1>10. StepsAt(t, A \union {n}) = StepsAt(t, A) + Len(t[n].candidate.steps)
  BY <1>2, <1>7, <1>9, MoreSteps
<1>11. Cardinality(A \union {n}) = Cardinality(A) + 1
  BY <1>2, <1>7, FS_AddElement
<1> QED
  BY <1>1, <1>4, <1>5, <1>6, <1>8, <1>10, <1>11 DEF t, n, A

-----------------------------------------------------------------------------
(* The features of a case are finitely many.                               *)
Argument(c, i) == Tree[c.steps[i].args]
Unreferenced(c, i) ==
  {x \in DOMAIN Argument(c, i) : ~ \E q \in DOMAIN Argument(c, i) :
     ExactReference(Argument(c, i), q) /\ IsStrictPrefix(q, x)}
ArgumentFeature(c, i, p) ==
  <<"argument", c.steps[i].tool, p,
    IF ~ExactReference(Argument(c, i), p) THEN Argument(c, i)[p].kind
    ELSE IF AliasAt(Argument(c, i), p) \in DOMAIN audit.resources
    THEN audit.resources[AliasAt(Argument(c, i), p)] ELSE "unknown">>
StepFeatures(c, i) ==
  {<<"tool", c.steps[i].tool>>} \union {ArgumentFeature(c, i, p) : p \in Unreferenced(c, i)}

LEMMA FeaturesAreFinite ==
  ASSUME NEW c, IsCase(c)
  PROVE  IsFiniteSet(Features(c)) /\ Cardinality(Features(c)) \in Nat
<1>1. ASSUME NEW i \in DOMAIN c.steps
      PROVE  IsFiniteSet(StepFeatures(c, i))
  <2> DEFINE P == Unreferenced(c, i)
             F == {ArgumentFeature(c, i, p) : p \in P}
             f == [p \in P |-> ArgumentFeature(c, i, p)]
             o == <<"tool", c.steps[i].tool>>
  <2>1. IsFiniteSet(DOMAIN Argument(c, i))
    BY StepsAre, TreesAssumption DEF Argument
  <2>2. P \subseteq DOMAIN Argument(c, i)
    BY DEF Unreferenced
  <2>3. IsFiniteSet(P)
    BY <2>1, <2>2, FS_Subset
  <2>4. f \in Surjection(P, F)
    BY DEF Surjection
  <2>5. StepFeatures(c, i) = {o} \union F
    BY DEF StepFeatures
  <2> HIDE DEF P, f, F, o
  <2>6. IsFiniteSet(F)
    BY <2>3, <2>4, FS_Surjection
  <2>7. IsFiniteSet({o})
    BY FS_Singleton
  <2>8. IsFiniteSet({o} \union F)
    BY <2>6, <2>7, FS_Union
  <2> QED BY <2>5, <2>8
<1> DEFINE D == DOMAIN c.steps
           U == {StepFeatures(c, i) : i \in D}
           g == [i \in D |-> StepFeatures(c, i)]
           k == <<"kind", c.kind>>
<1>2. IsFiniteSet(D)
  BY StepsAre, FS_Interval
<1>3. g \in Surjection(D, U)
  BY DEF Surjection
<1>4. \A T \in U : IsFiniteSet(T)
  BY <1>1
<1>5. Features(c) = {k} \union UNION U
  BY DEF Features, StepFeatures, ArgumentFeature, Unreferenced, Argument
<1> HIDE DEF D, U, g, k
<1>6. IsFiniteSet(U)
  BY <1>2, <1>3, FS_Surjection
<1>7. IsFiniteSet(UNION U)
  BY <1>4, <1>6, FS_UNION
<1>8. IsFiniteSet({k})
  BY FS_Singleton
<1>9. IsFiniteSet({k} \union UNION U)
  BY <1>7, <1>8, FS_Union
<1> QED BY <1>5, <1>9, FS_CardinalityType

(* The arguments of one step are too much to compare.                      *)
Exceeds(a, c) ==
  \E i \in DOMAIN c.steps :
    StepCanonical(a, c.steps[i], "agent_proposed") > MaxCanonicalBytes

(* What the evaluation of a candidate returns.                            *)
LEMMA EvaluationIs ==
  ASSUME audit \in Audits, NEW c \in Candidates
  PROVE  /\ IsCase(c) /\ EvaluateCandidate(c) \in SUBSET Ranks
         /\ Cardinality(Features(c)) <= MaxFeatures =>
              Exceeds(audit, c) \/ EvaluateCandidate(c) = Evaluation(audit, c)
         /\ EvaluateCandidate(c) # {} =>
              /\ Cardinality(Features(c)) <= MaxFeatures
              /\ EvaluateCandidate(c) = Evaluation(audit, c)
         /\ \A rank \in EvaluateCandidate(c) : rank >= c.approval
<1>1. IsAudit(audit) /\ IsCase(c) /\ MaxFeatures \in Nat
  BY AuditsAssumption
<1>2. Cardinality(Features(c)) \in Nat
  BY <1>1, FeaturesAreFinite
<1> DEFINE n == Cardinality(Features(c))
<1>3. EvaluateCandidate(c)
        = IF n > MaxFeatures \/ Exceeds(audit, c) THEN {} ELSE Evaluation(audit, c)
  BY DEF EvaluateCandidate, Evaluation, Exceeds
<1> DEFINE x == TotalCases(audit) + Factor(audit)
           y == TotalSteps(audit) + Factor(audit) * Len(c.steps)
           rank == CaseRank(audit, c, "agent_proposed", x, y)
<1>4. Evaluation(audit, c) \in {{}, {rank}}
  <2>1. PICK o : o = "agent_proposed"
    OBVIOUS
  <2>2. CompileCase(audit, c, o, x, y) \in {{}, {CaseRank(audit, c, o, x, y)}}
    <3> HIDE DEF x, y
    <3> QED BY CompileCaseIs
  <2> QED BY <2>1, <2>2 DEF Evaluation
<1>5. rank \in Ranks /\ c.approval <= rank
  <2>1. PICK o : o = "agent_proposed"
    OBVIOUS
  <2>2. CaseRank(audit, c, o, x, y) \in Ranks /\ c.approval <= CaseRank(audit, c, o, x, y)
    <3> HIDE DEF x, y
    <3> QED BY <1>1, CaseRanksAre
  <2> QED BY <2>1, <2>2
<1>6. c.approval \in Ranks
  BY <1>1 DEF IsCase
<1> HIDE DEF n, x, y, rank
<1>7. ~(n > MaxFeatures) <=> n <= MaxFeatures
  BY <1>1, <1>2 DEF n
<1>8. rank >= c.approval
  BY <1>5, <1>6 DEF Ranks
<1> QED BY <1>1, <1>3, <1>4, <1>5, <1>7, <1>8 DEF n

-----------------------------------------------------------------------------
(* The invariant, step by step.                                            *)
LEMMA AcceptedIs ==
  /\ AcceptedAt = AcceptedIn(examined) /\ AcceptedAt' = AcceptedIn(examined')
  /\ StepsIn(AcceptedAt) = StepsAt(examined, AcceptedIn(examined))
  /\ StepsIn(AcceptedAt)' = StepsAt(examined', AcceptedIn(examined'))
BY DEF AcceptedAt, AcceptedIn, StepsIn, StepsAt

LEMMA ProposalsStart == ProposalsInit => ProposalsInv
<1> SUFFICES ASSUME ProposalsInit
             PROVE  ProposalsInv
  OBVIOUS
<1>1. audit \in Audits /\ proposals = "given" /\ examined = <<>>
  BY DEF ProposalsInit
<1>2. DOMAIN examined = {} /\ examined \in Seq(Entries)
  <2> HIDE DEF Entries
  <2> QED BY <1>1
<1>3. AcceptedAt = {} /\ Range(examined) = {}
  BY <1>2 DEF AcceptedAt, Range
<1> QED BY <1>1, <1>2, <1>3 DEF ProposalsInv

(* A step that does not touch the entries.                                *)
LEMMA EntriesStay ==
  ASSUME ProposalsInv, UNCHANGED <<audit, examined>>,
         proposals' \in {"given", "prepared", "reported", "refused"},
         proposals' = "given" => examined = <<>>,
         proposals' \in {"prepared", "reported"} => WithinBudget
  PROVE  ProposalsInv'
<1>1. audit' = audit /\ examined' = examined
  OBVIOUS
<1>2. WithinBudget' <=> WithinBudget
  <2>1. Compile(audit)' = Compile(audit)
    BY <1>1
  <2>2. AcceptedAt' = AcceptedAt /\ StepsIn(AcceptedAt)' = StepsIn(AcceptedAt)
    BY <1>1, AcceptedIs
  <2>3. MaxAcceptedCases' = MaxAcceptedCases /\ MaxAcceptedSteps' = MaxAcceptedSteps
    BY <1>1, AuditStays
  <2> QED BY <2>1, <2>2, <2>3 DEF WithinBudget
<1>3. \A e \in Range(examined') : EntryOk(e)'
  BY <1>1, EntryStays DEF ProposalsInv
<1>4. \A i, j \in AcceptedIn(examined') :
         i # j => Differ(examined'[i].candidate, examined'[j].candidate)
  BY <1>1, AcceptedIs DEF ProposalsInv
<1>5. /\ proposals' \in {"given", "prepared", "reported", "refused"}
      /\ proposals' = "given" => examined' = <<>>
      /\ audit' \in Audits /\ examined' \in Seq(Entries)
  <2> HIDE DEF Entries
  <2> QED BY <1>1 DEF ProposalsInv
<1> HIDE DEF Entries
<1>6. AcceptedAt' = AcceptedIn(examined')
  BY AcceptedIs
<1>7. (\A i, j \in AcceptedAt :
         i # j => Differ(examined[i].candidate, examined[j].candidate))'
  BY <1>4, <1>6 DEF Differ, Semantics
<1>8. (proposals \in {"prepared", "reported"} => WithinBudget)'
  BY <1>2
<1>9. (\A e \in Range(examined) : EntryOk(e))'
  BY <1>3
<1> QED BY <1>5, <1>7, <1>8, <1>9 DEF ProposalsInv, Entries

LEMMA PrepareKeeps ==
  ASSUME ProposalsInv, PrepareProposals
  PROVE  ProposalsInv'
<1>1. /\ UNCHANGED <<audit, examined>> /\ proposals = "given" /\ examined = <<>>
      /\ proposals' = IF /\ Compile(audit) # {}
                         /\ Cardinality(BaselineFeatures) <= MaxFeatures
                         /\ ContextAccepted
                      THEN "prepared" ELSE "refused"
      /\ audit \in Audits
  BY DEF ProposalsInv, PrepareProposals
<1>2. ASSUME proposals' # "refused"
      PROVE  proposals' = "prepared" /\ WithinBudget
  <2>1. Compile(audit) # {} /\ proposals' = "prepared"
    BY <1>1, <1>2
  <2>2. MaxAcceptedCases \in Nat /\ MaxAcceptedSteps \in Nat
    BY <1>1, <2>1, BudgetIs
  <2>3. AcceptedAt = {}
    BY <1>1 DEF AcceptedAt
  <2>4. Cardinality(AcceptedAt) = 0
    BY <2>3, FS_EmptySet
  <2>5. StepsIn(AcceptedAt) = 0
    <3>1. IsFiniteSet({})
      BY FS_EmptySet
    <3>2. PICK P : P = {}
      OBVIOUS
    <3>3. StepsAt(examined, P) = SumOn([i \in P |-> Len(examined[i].candidate.steps)], P)
      BY <3>1, <3>2, StepsAtIs
    <3> DEFINE f == [i \in P |-> Len(examined[i].candidate.steps)]
    <3>4. SumOn(f, {}) = 0
      <4> HIDE DEF f
      <4> QED BY <3>1, SumUnfolds
    <3>5. StepsIn(AcceptedAt) = StepsAt(examined, P)
      BY <2>3, <3>2, AcceptedIs
    <3> QED BY <3>2, <3>3, <3>4, <3>5
  <2> QED BY <2>1, <2>2, <2>4, <2>5 DEF WithinBudget
<1>3. proposals' \in {"prepared", "reported", "refused"}
  BY <1>1
<1>4. proposals' \in {"prepared", "reported"} => WithinBudget
  BY <1>2
<1> QED BY <1>1, <1>3, <1>4, EntriesStay

LEMMA RefuseKeeps ==
  ASSUME ProposalsInv, RefuseSubmission
  PROVE  ProposalsInv'
<1>1. UNCHANGED <<audit, examined>> /\ proposals' = "refused"
  BY DEF RefuseSubmission
<1>2. /\ proposals' \in {"prepared", "reported", "refused"}
      /\ proposals' \in {"prepared", "reported"} => WithinBudget
  BY <1>1
<1> QED BY <1>1, <1>2, EntriesStay

LEMMA ReportKeeps ==
  ASSUME ProposalsInv, ReportProposals
  PROVE  ProposalsInv'
<1>1. /\ UNCHANGED <<audit, examined>> /\ proposals = "prepared"
      /\ proposals' \in {"reported", "refused"}
  BY DEF ReportProposals
<1>2. WithinBudget
  BY <1>1 DEF ProposalsInv
<1>3. /\ proposals' \in {"prepared", "reported", "refused"}
      /\ proposals' \in {"prepared", "reported"} => WithinBudget
  BY <1>1, <1>2
<1> QED BY <1>1, <1>3, EntriesStay

(* The entry that the examination of a candidate adds.                    *)
LEMMA EntryIs ==
  ASSUME audit \in Audits, NEW c \in Candidates,
         NEW e, e = [candidate |-> c, reason |-> Finding(c),
                     approval |-> IF Finding(c) \in Early THEN {} ELSE EvaluateCandidate(c)]
  PROVE  e \in Entries /\ EntryOk(e) /\ e.candidate = c /\ e.reason = Finding(c)
<1>1. PICK r : r = Finding(c)
  OBVIOUS
<1>2. PICK v : v = EvaluateCandidate(c)
  OBVIOUS
<1>3. /\ e = [candidate |-> c, reason |-> r, approval |-> IF r \in Early THEN {} ELSE v]
      /\ v \in SUBSET Ranks
  BY <1>1, <1>2, EvaluationIs
<1>4. r \in Early \union Late
  BY <1>1, FindingIs
<1>5. /\ e.candidate = c /\ e.reason = r /\ e.approval = (IF r \in Early THEN {} ELSE v)
      /\ e.approval \in SUBSET Ranks
  BY <1>3
<1>6. e \in Entries
  <2> DEFINE R == Early \union Late
  <2>1. r \in R
    BY <1>4
  <2> HIDE DEF R
  <2>2. e \in [candidate : Candidates, reason : R, approval : SUBSET Ranks]
    BY <1>3, <1>5, <2>1
  <2> QED BY <2>2 DEF Entries, R
<1>7. EntryOk(e)
  <2>1. /\ r \in Late => v # {}
        /\ r = "evaluation_failed" => v = {}
        /\ r \in Late \union {"evaluation_failed"} => Sound(c)
        /\ r = "accepted" => Novel(c)
    BY <1>1, <1>2, FindingIs
  <2>2. Novel(c) => \A d \in Baseline : Semantics(d) # Semantics(c)
    BY DEF Novel
  <2> QED BY <1>2, <1>5, <2>1, <2>2 DEF EntryOk
<1> QED BY <1>1, <1>5, <1>6, <1>7

(* The next candidate of the submission.                                  *)
LEMMA ExamineKeeps ==
  ASSUME ProposalsInv, NEW c \in Candidates, Examine(c)
  PROVE  ProposalsInv'
<1>1. PICK e : e = [candidate |-> c, reason |-> Finding(c),
                    approval |-> IF Finding(c) \in Early THEN {} ELSE EvaluateCandidate(c)]
  OBVIOUS
<1>2. PICK s : s = examined
  OBVIOUS
<1>3. PICK t : t = Append(s, e)
  OBVIOUS
<1>4. PICK n : n = Len(s) + 1
  OBVIOUS
<1>5. PICK A : A = AcceptedIn(s)
  OBVIOUS
<1>6. /\ audit' = audit /\ proposals' = proposals /\ proposals = "prepared"
      /\ examined' = t
  BY <1>1, <1>2, <1>3 DEF Examine
<1>7. audit \in Audits /\ s \in Seq(Entries)
  BY <1>2 DEF ProposalsInv
<1>8. e \in Entries /\ EntryOk(e) /\ e.candidate = c /\ e.reason = Finding(c)
  BY <1>1, <1>7, EntryIs
<1>9. /\ t \in Seq(Entries) /\ DOMAIN t = DOMAIN s \union {n} /\ n \notin DOMAIN s
      /\ t[n] = e /\ \A i \in DOMAIN s : t[i] = s[i]
      /\ IF e.reason = "accepted"
         THEN /\ AcceptedIn(t) = A \union {n}
              /\ Cardinality(AcceptedIn(t)) = Cardinality(A) + 1
              /\ StepsAt(t, AcceptedIn(t)) = StepsAt(s, A) + Len(e.candidate.steps)
         ELSE /\ AcceptedIn(t) = A
              /\ StepsAt(t, AcceptedIn(t)) = StepsAt(s, A)
  BY <1>3, <1>4, <1>5, <1>7, <1>8, Appended
<1>10. AcceptedAt = A /\ AcceptedAt' = AcceptedIn(t) /\ A \subseteq DOMAIN s
       /\ StepsIn(AcceptedAt) = StepsAt(s, A)
       /\ StepsIn(AcceptedAt)' = StepsAt(t, AcceptedIn(t))
  BY <1>2, <1>5, <1>6, AcceptedIs DEF AcceptedIn
<1>11. e.reason = "accepted" =>
         /\ \A i \in A : Differ(s[i].candidate, c)
         /\ ~(Cardinality(A) + 1 > MaxAcceptedCases)
         /\ ~(StepsAt(s, A) + Len(c.steps) > MaxAcceptedSteps)
  BY <1>2, <1>8, <1>10, FindingIs DEF Novel, Differ
<1>12. WithinBudget
  BY <1>6 DEF ProposalsInv
<1>13. WithinBudget'
  <2>1. /\ MaxAcceptedCases' = MaxAcceptedCases /\ MaxAcceptedSteps' = MaxAcceptedSteps
    BY <1>6, AuditStays
  <2>2. /\ Cardinality(A) \in Nat /\ StepsAt(s, A) \in Nat /\ Len(c.steps) \in Nat
    <3>1. /\ IsFiniteSet(A) /\ Cardinality(A) \in Nat /\ A \subseteq DOMAIN s
          /\ \A i \in DOMAIN s : Len(s[i].candidate.steps) \in Nat
      BY <1>5, <1>7, <1>10, EntriesAre
    <3>2. \A i \in A : s[i] = s[i] /\ Len(s[i].candidate.steps) \in Nat
      BY <3>1
    <3>3. StepsAt(s, A) \in Nat
      BY <3>1, <3>2, SameSteps
    <3> QED BY <3>1, <3>3, AuditsAssumption, StepsAre
  <2>3. /\ Compile(audit) # {} /\ Cardinality(A) <= MaxAcceptedCases
        /\ StepsAt(s, A) <= MaxAcceptedSteps
        /\ MaxAcceptedCases \in Nat /\ MaxAcceptedSteps \in Nat
    BY <1>7, <1>10, <1>12, BudgetIs DEF WithinBudget
  <2>4. /\ Cardinality(AcceptedIn(t)) <= MaxAcceptedCases
        /\ StepsAt(t, AcceptedIn(t)) <= MaxAcceptedSteps
    BY <1>8, <1>9, <1>11, <2>2, <2>3
  <2>5. Compile(audit)' = Compile(audit)
    BY <1>6
  <2> QED BY <1>10, <2>1, <2>3, <2>4, <2>5 DEF WithinBudget
<1>14. \A x \in Range(t) : EntryOk(x)'
  <2>1. \A i \in DOMAIN s : EntryOk(s[i])
    BY <1>2 DEF ProposalsInv, Range
  <2>2. ASSUME NEW x \in Range(t)
        PROVE  EntryOk(x)
    <3>1. PICK i \in DOMAIN t : x = t[i]
      BY DEF Range
    <3>2. CASE i = n
      BY <1>8, <1>9, <3>1, <3>2
    <3>3. CASE i \in DOMAIN s
      BY <1>9, <2>1, <3>1, <3>3
    <3> QED BY <1>9, <3>2, <3>3
  <2>3. ASSUME NEW x \in Range(t)
        PROVE  EntryOk(x)'
    BY <1>6, <2>2, EntryStays
  <2> QED BY <2>3
<1>15. \A i, j \in AcceptedIn(t) : i # j => Differ(t[i].candidate, t[j].candidate)
  <2>1. \A i, j \in A : i # j => Differ(s[i].candidate, s[j].candidate)
    BY <1>2, <1>10 DEF ProposalsInv
  <2>2. CASE e.reason # "accepted"
    BY <1>9, <1>10, <2>1, <2>2
  <2>3. CASE e.reason = "accepted"
    <3>1. AcceptedIn(t) = A \union {n} /\ \A i \in A : t[i] = s[i] /\ i # n
      BY <1>9, <1>10, <2>3
    <3>2. \A i \in A : Differ(s[i].candidate, c) /\ Differ(c, s[i].candidate)
      BY <1>11, <2>3 DEF Differ
    <3>3. t[n].candidate = c
      BY <1>8, <1>9
    <3> QED BY <2>1, <3>1, <3>2, <3>3
  <2> QED BY <2>2, <2>3
<1>16. /\ proposals' \in {"given", "prepared", "reported", "refused"}
       /\ proposals' = "given" => examined' = <<>>
       /\ audit' \in Audits /\ examined' \in Seq(Entries)
  BY <1>6, <1>7, <1>9
<1> HIDE DEF Entries
<1>17. (\A i, j \in AcceptedAt :
         i # j => Differ(examined[i].candidate, examined[j].candidate))'
  BY <1>6, <1>10, <1>15 DEF Differ, Semantics
<1>18. (proposals \in {"prepared", "reported"} => WithinBudget)'
  BY <1>13
<1>19. (\A x \in Range(examined) : EntryOk(x))'
  BY <1>6, <1>14
<1> QED BY <1>16, <1>17, <1>18, <1>19 DEF ProposalsInv, Entries

(* The invariant of the comparison, in every behaviour of the experiment:  *)
(* an entry says of its candidate what evaluateCandidate() said, accepted  *)
(* entries differ from the baseline and from one another, and a prepared   *)
(* experiment stays within the budget that its audit leaves.               *)
THEOREM ProposalsInvariant == ProposalsSpec => []ProposalsInv
<1>1. ProposalsInit => ProposalsInv
  BY ProposalsStart
<1>2. ProposalsInv /\ [ProposalsNext]_proposalVars => ProposalsInv'
  <2> SUFFICES ASSUME ProposalsInv, [ProposalsNext]_proposalVars
               PROVE  ProposalsInv'
    OBVIOUS
  <2>1. CASE PrepareProposals
    BY <2>1, PrepareKeeps
  <2>2. CASE RefuseSubmission
    BY <2>2, RefuseKeeps
  <2>3. CASE ReportProposals
    BY <2>3, ReportKeeps
  <2>4. ASSUME NEW c \in Candidates, Examine(c)
        PROVE  ProposalsInv'
    BY <2>4, ExamineKeeps
  <2>5. CASE UNCHANGED proposalVars
    <3>1. UNCHANGED <<audit, examined, proposals>>
      BY <2>5 DEF proposalVars
    <3>2. CASE proposals = "given"
      <4>1. audit' = audit /\ examined' = examined /\ proposals' = proposals
        BY <3>1
      <4> QED BY <4>1, <3>2, EntriesStay DEF ProposalsInv
    <3>3. CASE proposals # "given"
      <4>1. /\ proposals' \in {"prepared", "reported", "refused"}
            /\ proposals' \in {"prepared", "reported"} => WithinBudget
            /\ UNCHANGED <<audit, examined>>
        BY <3>1, <3>3 DEF ProposalsInv
      <4> QED BY <4>1, EntriesStay
    <3> QED BY <3>2, <3>3
  <2> QED BY <2>1, <2>2, <2>3, <2>4, <2>5 DEF ProposalsNext
<1> QED BY <1>1, <1>2, PTL DEF ProposalsSpec

-----------------------------------------------------------------------------
(* What the invariant says of a selected entry.                            *)
LEMMA EntryHolds ==
  ASSUME ProposalsInv, NEW e \in Range(examined)
  PROVE  EntryOk(e) /\ e.candidate \in Candidates
<1>1. EntryOk(e)
  BY DEF ProposalsInv
<1>2. PICK s : s = examined
  OBVIOUS
<1>3. PICK i \in DOMAIN s : e = s[i]
  BY <1>2 DEF Range
<1>4. s \in Seq(Entries)
  BY <1>2 DEF ProposalsInv
<1>5. s[i].candidate \in Candidates
  BY <1>4, EntriesAre
<1> QED BY <1>1, <1>3, <1>5

(* What is known of an accepted entry.                                    *)
LEMMA SelectedIs ==
  ASSUME ProposalsInv, NEW i \in AcceptedAt
  PROVE  LET e == examined[i]
             c == e.candidate
         IN  /\ e \in Range(examined) /\ c \in Candidates /\ IsCase(c) /\ Sound(c)
             /\ Len(c.steps) \in Nat
             /\ e.approval = Evaluation(audit, c) /\ e.approval # {}
             /\ \A d \in Baseline : Semantics(d) # Semantics(c)
<1>1. PICK e : e = examined[i]
  OBVIOUS
<1>2. i \in DOMAIN examined /\ e.reason = "accepted"
  BY <1>1 DEF AcceptedAt
<1>3. e \in Range(examined)
  BY <1>1, <1>2 DEF Range
<1>4. EntryOk(e) /\ e.candidate \in Candidates
  BY <1>3, EntryHolds
<1>5. PICK c : c = e.candidate
  OBVIOUS
<1>6. /\ EvaluateCandidate(c) # {} /\ Sound(c) /\ e.approval = EvaluateCandidate(c)
      /\ \A d \in Baseline : Semantics(d) # Semantics(c)
  <2>1. "accepted" \in Late /\ "accepted" \notin Early
    BY DEF Early, Late
  <2> QED BY <1>2, <1>4, <1>5, <2>1 DEF EntryOk
<1>7. audit \in Audits
  BY DEF ProposalsInv
<1>8. IsCase(c) /\ EvaluateCandidate(c) = Evaluation(audit, c)
  BY <1>4, <1>5, <1>6, <1>7, EvaluationIs
<1>9. Len(c.steps) \in Nat
  BY <1>8, StepsAre
<1> QED BY <1>1, <1>3, <1>4, <1>5, <1>6, <1>8, <1>9

LEMMA AcceptedDiffer ==
  ASSUME ProposalsInv, NEW i \in AcceptedAt, NEW j \in AcceptedAt, i # j
  PROVE  Differ(examined[i].candidate, examined[j].candidate)
BY DEF ProposalsInv

(* An accepted case is a new one.                                         *)
LEMMA NovelSelection ==
  ASSUME ProposalsInv
  PROVE  SelectionIsNovel
<1>1. ASSUME NEW e \in Selected, NEW c \in Baseline
      PROVE  e.candidate.caseId # c.caseId /\ Semantics(e.candidate) # Semantics(c)
  <2>1. PICK i \in AcceptedAt : e = examined[i]
    BY DEF Selected
  <2>2. Sound(e.candidate) /\ \A d \in Baseline : Semantics(d) # Semantics(e.candidate)
    BY <2>1, SelectedIs
  <2> QED BY <2>2 DEF Sound
<1>2. ASSUME NEW e \in Selected, NEW f \in Selected, e # f
      PROVE  /\ e.candidate.caseId # f.candidate.caseId
             /\ Semantics(e.candidate) # Semantics(f.candidate)
  <2>1. PICK i \in AcceptedAt : e = examined[i]
    BY DEF Selected
  <2>2. PICK j \in AcceptedAt : f = examined[j]
    BY DEF Selected
  <2>3. Differ(e.candidate, f.candidate)
    BY <1>2, <2>1, <2>2, AcceptedDiffer
  <2> QED BY <2>3 DEF Differ
<1> QED BY <1>1, <1>2 DEF SelectionIsNovel

(* The schema of the report admits every single result.                   *)
LEMMA ResultsAccepted ==
  ASSUME ProposalsInv, NEW e \in Range(examined)
  PROVE  ResultAccepted(e)
<1>1. PICK c : c = e.candidate
  OBVIOUS
<1>2. EntryOk(e) /\ c \in Candidates /\ audit \in Audits
  BY <1>1, EntryHolds DEF ProposalsInv
<1>3. /\ EvaluateCandidate(c) # {} => Cardinality(Features(c)) <= MaxFeatures
      /\ \A rank \in EvaluateCandidate(c) : rank >= c.approval
  BY <1>2, EvaluationIs
<1>4. e.approval \in {{}, EvaluateCandidate(c)}
  BY <1>1, <1>2 DEF EntryOk
<1>5. e.reason \in {"accepted", "duplicate_baseline", "duplicate_agent"} =>
        e.approval # {}
  <2>1. ASSUME e.reason \in {"accepted", "duplicate_baseline", "duplicate_agent"}
        PROVE  e.reason \in Late /\ e.reason \notin Early
    BY <2>1 DEF Early, Late
  <2> QED BY <1>1, <1>2, <2>1 DEF EntryOk
<1> QED BY <1>1, <1>3, <1>4, <1>5 DEF ResultAccepted

-----------------------------------------------------------------------------
(* What of the candidates' paths the claims ask for.                       *)
LEMMA PathsOf ==
  ASSUME NEW c
  PROVE  /\ PathNeutral(c) <=> NeutralPaths(audit, c)
         /\ PathsFit(c) <=> PathsWithin(audit, c)
BY DEF PathNeutral, NeutralPaths, SameAdmitted, PathsFit, PathsWithin

(* A step that is compiled is written out within the budget of the plan.   *)
LEMMA WrittenWithin ==
  ASSUME NEW b, IsAudit(b), Composable(b), NEW c \in All(b), NEW i \in DOMAIN c.steps
  PROVE  StepCanonical(b, c.steps[i], OriginIn(b, c)) <= MaxCanonicalBytes
<1> DEFINE f == [d \in All(b) |-> CaseCanonical(b, d, OriginIn(b, d))]
           n == Factor(b)
           o == OriginIn(b, c)
           x == StepCanonical(b, c.steps[i], o)
           y == CaseCanonical(b, c, o)
           z == SumFunction(f)
<1>1. IsFiniteSet(All(b)) /\ (\A d \in All(b) : IsCase(d)) /\ n \in Nat
  BY AuditNumbers DEF CaseSet
<1>2. DOMAIN f = All(b) /\ f[c] = y /\ \A d \in All(b) : f[d] \in Nat
  BY <1>1, CaseCanonicalIs
<1>3. n * z <= MaxCanonicalBytes
  BY DEF Composable, CanonicalBounded, All
<1>4. MaxCanonicalBytes \in Nat
  BY TreesAssumption
<1>5. y \in Nat /\ x <= y
  BY <1>1, CaseCanonicalIs
<1>6. x \in Nat
  BY <1>1, StepsAre, CanonicalIsNat
<1>7. n >= 1
  <2> DEFINE v == Cardinality(b.variants)
             r == b.repetitions
  <2>1. r \in Nat /\ r >= 1 /\ v \in Nat /\ v # 0
    BY ComposedTotals, FS_CardinalityType, FS_EmptySet DEF IsAudit
  <2>2. n = r * v
    BY DEF Factor
  <2> HIDE DEF n, v, r
  <2>3. 1 * v <= r * v
    BY <2>1, TimesGrows
  <2> QED BY <2>1, <2>2, <2>3
<1> HIDE DEF f, n, x, y, o
<1>8. z \in Nat
  BY <1>1, <1>2, SumOver
<1>9. f[c] <= z
  BY <1>1, <1>2, SumOverPart
<1> HIDE DEF z
<1>10. 1 * z <= n * z /\ n * z \in Nat
  BY <1>1, <1>7, <1>8, TimesGrows
<1>11. x <= MaxCanonicalBytes
  BY <1>2, <1>3, <1>4, <1>5, <1>6, <1>8, <1>9, <1>10
<1> QED BY <1>11 DEF x, o

(* What is refused does not compile.                                       *)
LEMMA RefusedAlone ==
  ASSUME ProposalsInv, OriginNeutral
  PROVE  RefusedDoesNotCompile
<1> SUFFICES ASSUME NEW e \in Range(examined), e.reason = "evaluation_failed",
                    Cardinality(Features(e.candidate)) <= MaxFeatures,
                    PathNeutral(e.candidate), Compile(Adopted({e.candidate})) # {}
             PROVE  FALSE
  BY DEF RefusedDoesNotCompile
<1>1. PICK c : c = e.candidate
  OBVIOUS
<1>2. EntryOk(e) /\ c \in Candidates /\ audit \in Audits
  BY <1>1, EntryHolds DEF ProposalsInv
<1>3. /\ IsCase(c) /\ IsAudit(audit)
      /\ Exceeds(audit, c) \/ EvaluateCandidate(c) = Evaluation(audit, c)
  BY <1>1, <1>2, EvaluationIs, AuditsAssumption
<1>4. EvaluateCandidate(c) = {} /\ Sound(c)
  BY <1>1, <1>2 DEF EntryOk
<1>5. NeutralIn(audit) /\ \A d \in All(audit) : d.caseId # c.caseId
  BY <1>4 DEF OriginNeutral, NeutralIn, Sound, Baseline, All
<1>6. PICK b : b = With(audit, {c})
  OBVIOUS
<1>7. PICK m : m = AsManual(c)
  OBVIOUS
<1>8. Adopted({c}) = b
  BY <1>6 DEF Adopted, With, Manuals
<1>9. Composable(b)
  BY <1>1, <1>8 DEF Compile
<1>10. /\ SameBut(audit, b) /\ IsAudit(b) /\ m \in All(b) /\ OriginIn(b, m) = "manual"
       /\ m.steps = c.steps
  <2>1. IsFiniteSet({c}) /\ (\A d \in {c} : IsCase(d)) /\ NewIds(audit, {c})
    BY <1>3, <1>5, FS_Singleton DEF NewIds
  <2>2. Manuals({c}) = {m}
    BY <1>7 DEF Manuals
  <2>3. /\ SameBut(audit, b) /\ IsAudit(b) /\ All(b) = All(audit) \union {m}
        /\ {m} \cap audit.suite = {}
    BY <1>3, <1>6, <2>1, <2>2, WithIs
  <2> QED BY <1>7, <2>3, ManualIs DEF OriginIn, SameBut
<1>11. Compiled(b, m) # {}
  BY <1>9, <1>10 DEF Composable, All
<1>12. PathsWithin(audit, c)
  <2>1. ASSUME NEW i \in DOMAIN c.steps
        PROVE  ResolvedBytes(c.steps[i], "manual") <= audit.bounds.argument
    <3>1. StepAccepted(b, m.steps[i], OriginIn(b, m))
      BY <1>10, <1>11, CompiledSteps
    <3>2. StepAccepted(b, c.steps[i], "manual")
      BY <1>10, <3>1
    <3> QED BY <1>10, <3>2 DEF StepAccepted, SameBut
  <2> QED BY <2>1 DEF PathsWithin
<1>13. NeutralPaths(audit, c)
  BY <1>1, PathsOf
<1>14. CASE Exceeds(audit, c)
  <2>1. PICK i \in DOMAIN c.steps :
          StepCanonical(audit, c.steps[i], "agent_proposed") > MaxCanonicalBytes
    BY <1>14 DEF Exceeds
  <2>2. c.steps[i].args \in DOMAIN Tree
    BY <1>3, StepsAre
  <2>3. PICK s : s = c.steps[i]
    OBVIOUS
  <2>4. SameAdmitted(audit.rules, s, "agent_proposed", "manual")
    BY <1>13, <2>3 DEF NeutralPaths
  <2>5. SameOrigin(audit.rules, "agent_proposed", "manual") /\ \A r \in audit.rules : IsRule(r)
    BY <1>3, <1>5 DEF NeutralIn, SameOrigin, IsAudit
  <2>6. StepCanonical(audit, s, "agent_proposed") <= StepCanonical(audit, s, "manual")
    BY <2>2, <2>3, <2>4, <2>5, CanonicalShorter
  <2>7. StepCanonical(audit, s, "manual") = StepCanonical(b, s, "manual")
    BY <1>10 DEF StepCanonical, SameBut
  <2>8. StepCanonical(b, m.steps[i], OriginIn(b, m)) <= MaxCanonicalBytes
    BY <1>9, <1>10, WrittenWithin
  <2>9. StepCanonical(b, s, "manual") <= MaxCanonicalBytes
    BY <1>10, <2>3, <2>8
  <2>10. /\ StepCanonical(audit, s, "agent_proposed") \in Nat
         /\ StepCanonical(audit, s, "manual") \in Nat /\ MaxCanonicalBytes \in Nat
    <3>1. PICK o : o = "agent_proposed"
      OBVIOUS
    <3>2. PICK p : p = "manual"
      OBVIOUS
    <3>3. StepCanonical(audit, s, o) \in Nat /\ StepCanonical(audit, s, p) \in Nat
      BY <2>2, <2>3, CanonicalIsNat
    <3> QED BY <3>1, <3>2, <3>3, TreesAssumption
  <2> QED BY <2>1, <2>3, <2>6, <2>7, <2>9, <2>10
<1>15. CASE EvaluateCandidate(c) = Evaluation(audit, c)
  <2>1. Compiled(b, m) = Evaluation(audit, c)
    BY <1>3, <1>5, <1>6, <1>7, <1>12, <1>13, AdoptedAlone
  <2> QED BY <1>4, <1>11, <1>15, <2>1
<1> QED BY <1>3, <1>14, <1>15

-----------------------------------------------------------------------------
(* The numbers of the selection.                                           *)
SelectedCases == {examined[i].candidate : i \in AcceptedAt}

(* The selection has as many cases and steps as were counted.             *)
LEMMA SelectionCounted ==
  ASSUME ProposalsInv
  PROVE  LET N == Manuals(SelectedCases)
         IN  /\ IsFiniteSet(SelectedCases) /\ UniqueIds(SelectedCases)
             /\ IsFiniteSet(AcceptedAt) /\ Cardinality(AcceptedAt) \in Nat
             /\ CaseSet(N) /\ Cardinality(N) \in Nat
             /\ Cardinality(N) <= Cardinality(AcceptedAt)
             /\ StepsOf(N) = StepsIn(AcceptedAt) /\ StepsOf(N) \in Nat
             /\ \A i \in AcceptedAt : Len(examined[i].candidate.steps) <= StepsIn(AcceptedAt)
             /\ AcceptedAt # {} => 1 <= Cardinality(AcceptedAt)
<1>1. PICK A : A = AcceptedAt
  OBVIOUS
<1>2. PICK k : k = [i \in A |-> examined[i].candidate]
  OBVIOUS
<1>3. PICK g : g = [i \in A |-> Len(examined[i].candidate.steps)]
  OBVIOUS
<1>4. PICK S : S = SelectedCases
  OBVIOUS
<1>5. PICK N : N = Manuals(S)
  OBVIOUS
<1>6. IsFiniteSet(A) /\ Cardinality(A) \in Nat
  <2>1. PICK s : s = examined
    OBVIOUS
  <2>2. s \in Seq(Entries) /\ A = AcceptedIn(s)
    BY <1>1, <2>1, AcceptedIs DEF ProposalsInv
  <2> QED BY <2>2, EntriesAre
<1>7. \A i \in A : /\ IsCase(k[i]) /\ g[i] = Len(k[i].steps) /\ g[i] \in Nat
                   /\ k[i] = examined[i].candidate
  BY <1>1, <1>2, <1>3, SelectedIs
<1>8. \A i, j \in A : k[i].caseId = k[j].caseId => i = j
  BY <1>1, <1>7, AcceptedDiffer DEF Differ
<1>9. S = {k[i] : i \in A} /\ k \in Surjection(A, S)
  BY <1>1, <1>2, <1>4 DEF SelectedCases, Surjection
<1>10. IsFiniteSet(S)
  BY <1>6, <1>9, FS_Surjection
<1>11. UniqueIds(S)
  BY <1>8, <1>9 DEF UniqueIds
<1>12. PICK key : key = [i \in A |-> AsManual(k[i])]
  OBVIOUS
<1>13. key \in Surjection(A, N) /\ \A i \in A : key[i] \in N /\ key[i] = AsManual(k[i])
  BY <1>5, <1>9, <1>12 DEF Manuals, Surjection
<1>14. IsFiniteSet(N) /\ Cardinality(N) <= Cardinality(A)
  BY <1>6, <1>13, FS_Surjection
<1>15. Cardinality(N) \in Nat
  BY <1>14, FS_CardinalityType
<1>16. \A n \in N : \E i \in A : n = AsManual(k[i])
  BY <1>5, <1>9 DEF Manuals
<1>17. \A n \in N : IsCase(n)
  BY <1>7, <1>16, ManualIs
<1>18. CaseSet(N)
  BY <1>14, <1>17 DEF CaseSet
<1>19. /\ StepsOf(N) = SumOn(Lengths(N), N) /\ StepsOf(N) \in Nat
       /\ \A n \in N : Lengths(N)[n] \in Nat
  BY <1>18, CaseNumbers
<1>20. PICK f : f = Lengths(N)
  OBVIOUS
<1>21. ASSUME NEW n \in N
       PROVE  SumOn(g, {i \in A : key[i] = n}) = 1 * f[n]
  <2>1. PICK j \in A : n = AsManual(k[j])
    BY <1>16
  <2>2. f[n] = g[j] /\ g[j] \in Nat
    BY <1>7, <1>20, <2>1, ManualIs DEF Lengths
  <2>3. ASSUME NEW i \in A, key[i] = n
        PROVE  i = j
    <3>1. k[i].caseId = k[j].caseId
      BY <1>13, <2>1, <2>3, ManualIs
    <3> QED BY <1>8, <3>1
  <2>4. {i \in A : key[i] = n} = {j}
    BY <1>13, <2>1, <2>3
  <2>5. IsFiniteSet({j}) /\ Cardinality({j}) = 1
    BY FS_Singleton
  <2>6. SumOn(g, {j}) = Cardinality({j}) * g[j]
    <3>1. \A x \in {j} : g[x] = g[j]
      OBVIOUS
    <3>2. PICK v : v = g[j]
      OBVIOUS
    <3> QED BY <2>2, <2>5, <3>1, <3>2, SumOfSame
  <2> QED BY <2>2, <2>4, <2>5, <2>6
<1>22. SumOn(g, A) = 1 * SumOn(f, N)
  <2>1. IsExpansion(A, N, key, g, f, 1)
    BY <1>6, <1>7, <1>13, <1>14, <1>19, <1>20, <1>21 DEF IsExpansion
  <2> QED BY <2>1, SumExpands
<1>23. StepsIn(A) = SumOn(g, A)
  <2>1. DOMAIN g = A /\ StepsIn(A) = SumFunction(g)
    BY <1>3 DEF StepsIn
  <2> QED BY <1>6, <2>1, SumIs
<1>24. StepsOf(N) = StepsIn(A)
  BY <1>19, <1>20, <1>22, <1>23
<1>25. ASSUME NEW i \in A
       PROVE  g[i] <= StepsIn(A)
  <2>1. SumOn(g, A) = g[i] + SumOn(g, A \ {i})
    BY <1>6, <1>7, TakenOut
  <2>2. SumOn(g, A \ {i}) \in Nat
    BY <1>6, <1>7, SumIsNat
  <2> QED BY <1>7, <1>23, <2>1, <2>2
<1>26. A # {} => 1 <= Cardinality(A)
  <2>1. Cardinality(A) = 0 <=> A = {}
    BY <1>6, FS_EmptySet
  <2> QED BY <1>6, <2>1
<1>27. \A i \in AcceptedAt : Len(examined[i].candidate.steps) <= StepsIn(AcceptedAt)
  BY <1>1, <1>3, <1>25
<1> QED
  BY <1>1, <1>4, <1>5, <1>6, <1>10, <1>11, <1>14, <1>15, <1>18, <1>19, <1>24, <1>26, <1>27

(* The selection meets what adopting it asks for.                         *)
LEMMA SelectionAdoptable ==
  ASSUME ProposalsInv, proposals \in {"prepared", "reported"},
         \A c \in SelectedCases : FormOk(c) /\ PathNeutral(c) /\ PathsFit(c)
  PROVE  Adoptable(audit, SelectedCases) /\ IsAudit(audit) /\ Compile(audit) # {}
<1>1. /\ audit \in Audits /\ Compile(audit) # {}
      /\ Cardinality(AcceptedAt) <= MaxAcceptedCases
      /\ StepsIn(AcceptedAt) <= MaxAcceptedSteps
  BY DEF ProposalsInv, WithinBudget
<1>2. PICK a : a = audit
  OBVIOUS
<1>3. PICK S : S = SelectedCases
  OBVIOUS
<1>4. PICK N : N = Manuals(S)
  OBVIOUS
<1>5. PICK F : F = Factor(a)
  OBVIOUS
<1>6. /\ IsAudit(a) /\ F \in Nat /\ MaxAcceptedCases \in Nat /\ MaxAcceptedSteps \in Nat
      /\ TotalCases(a) \in Nat /\ TotalSteps(a) \in Nat
      /\ \A n \in Nat : n <= MaxAcceptedCases => TotalCases(a) + F * n <= a.bounds.cases
      /\ \A n \in Nat : n <= MaxAcceptedSteps => TotalSteps(a) + F * n <= a.bounds.steps
  BY <1>1, <1>2, <1>5, BudgetIs
<1>7. /\ IsFiniteSet(S) /\ UniqueIds(S) /\ CaseSet(N)
      /\ Cardinality(N) \in Nat /\ Cardinality(N) <= Cardinality(AcceptedAt)
      /\ Cardinality(AcceptedAt) \in Nat
      /\ StepsOf(N) = StepsIn(AcceptedAt) /\ StepsOf(N) \in Nat
      /\ \A i \in AcceptedAt : Len(examined[i].candidate.steps) <= StepsIn(AcceptedAt)
      /\ AcceptedAt # {} => 1 <= Cardinality(AcceptedAt)
  BY <1>3, <1>4, SelectionCounted
<1>8. ASSUME NEW x \in Nat, NEW y \in Nat, x <= MaxAcceptedCases, y <= MaxAcceptedSteps
      PROVE  Totals(a.bounds, TotalCases(a) + F * x, TotalSteps(a) + F * y)
  <2>1. F * x \in Nat /\ F * y \in Nat
    BY <1>6, TimesGrows
  <2>2. /\ TotalCases(a) + F * x <= a.bounds.cases
        /\ TotalSteps(a) + F * y <= a.bounds.steps
    BY <1>6, <1>8
  <2> QED BY <1>6, <2>1, <2>2 DEF Totals
<1>9. Totals(a.bounds, TotalCases(a) + F * Cardinality(N), TotalSteps(a) + F * StepsOf(N))
  <2>1. Cardinality(N) <= MaxAcceptedCases /\ StepsOf(N) <= MaxAcceptedSteps
    BY <1>1, <1>6, <1>7
  <2> QED BY <1>7, <1>8, <2>1
<1>10. ASSUME NEW c \in S
       PROVE  /\ IsCase(c) /\ Parses(c) /\ c.kind \in {"tool_call", "security_probe"}
              /\ \A d \in All(a) : d.caseId # c.caseId
              /\ Evaluation(a, c) # {} /\ NeutralPaths(a, c) /\ PathsWithin(a, c)
              /\ c.kind = "tool_call" => Len(c.steps) = 1
              /\ Len(c.steps) <= a.bounds.stepsPerCase
              /\ Totals(a.bounds, TotalCases(a) + F, TotalSteps(a) + F * Len(c.steps))
  <2>1. PICK i \in AcceptedAt : c = examined[i].candidate
    BY <1>3 DEF SelectedCases
  <2>2. /\ IsCase(c) /\ Sound(c) /\ Len(c.steps) \in Nat /\ Evaluation(a, c) # {}
    BY <1>2, <2>1, SelectedIs
  <2>3. /\ Parses(c) /\ c.kind \in {"tool_call", "security_probe"}
        /\ \A d \in All(a) : d.caseId # c.caseId
    BY <1>2, <2>2 DEF Sound, Baseline, All
  <2>4. FormOk(c) /\ NeutralPaths(a, c) /\ PathsWithin(a, c)
    BY <1>2, <1>3, PathsOf
  <2>5. /\ c.kind = "tool_call" => Len(c.steps) = 1
        /\ Len(c.steps) <= a.bounds.stepsPerCase
    BY <1>2, <2>4 DEF FormOk
  <2>6. 1 <= MaxAcceptedCases /\ Len(c.steps) <= MaxAcceptedSteps
    <3>1. 1 <= Cardinality(AcceptedAt) /\ Len(c.steps) <= StepsIn(AcceptedAt)
      BY <1>7, <2>1
    <3>2. StepsIn(AcceptedAt) \in Nat
      BY <1>7
    <3> QED BY <1>1, <1>6, <1>7, <2>2, <3>1, <3>2
  <2>7. PICK n : n = Len(c.steps)
    OBVIOUS
  <2>8. Totals(a.bounds, TotalCases(a) + F * 1, TotalSteps(a) + F * n)
    BY <1>8, <2>2, <2>6, <2>7
  <2>9. F * 1 = F
    BY <1>6
  <2> QED BY <2>2, <2>3, <2>4, <2>5, <2>7, <2>8, <2>9
<1>11. Adoptable(a, S)
  BY <1>4, <1>5, <1>7, <1>9, <1>10 DEF Adoptable, NewIds
<1> QED BY <1>1, <1>2, <1>3, <1>6, <1>11

(* An evaluation names one approval.                                      *)
LEMMA OneRank ==
  ASSUME NEW a, NEW c, Evaluation(a, c) # {}
  PROVE  \E rank : Evaluation(a, c) = {rank}
<1>1. PICK x : x = TotalCases(a) + Factor(a)
  OBVIOUS
<1>2. PICK y : y = TotalSteps(a) + Factor(a) * Len(c.steps)
  OBVIOUS
<1>3. PICK o : o = "agent_proposed"
  OBVIOUS
<1>4. CompileCase(a, c, o, x, y) \in {{}, {CaseRank(a, c, o, x, y)}}
  BY CompileCaseIs
<1>5. Evaluation(a, c) = CompileCase(a, c, o, x, y)
  BY <1>1, <1>2, <1>3 DEF Evaluation
<1> QED BY <1>4, <1>5

(* The selection compiles, with the approvals of the report.              *)
LEMMA SelectionTogether ==
  ASSUME ProposalsInv, proposals \in {"prepared", "reported"}, OriginNeutral
  PROVE  SelectionCompiles
<1>1. PICK S : S = SelectedCases
  OBVIOUS
<1>2. PICK a : a = audit
  OBVIOUS
<1>3. PICK b : b = With(a, S)
  OBVIOUS
<1>4. {e.candidate : e \in Selected} = S
  BY <1>1 DEF Selected, SelectedCases
<1>5. Adopted(S) = b
  BY <1>2, <1>3 DEF Adopted, With, Manuals
<1>6. ASSUME \A c \in S : FormOk(c) /\ PathNeutral(c) /\ PathsFit(c),
             AggregatesHold(b)
      PROVE  \E plan \in Compile(b) :
               \A e \in Selected : \A x \in plan :
                 x.caseId = e.candidate.caseId => e.approval = {x.approval}
  <2>1. Adoptable(a, S) /\ IsAudit(a) /\ Compile(a) # {}
    BY <1>1, <1>2, <1>6, SelectionAdoptable
  <2>2. NeutralIn(a)
    BY <1>2 DEF OriginNeutral, NeutralIn
  <2>3. AggregatesHold(With(a, S))
    BY <1>3, <1>6
  <2>4. /\ Compile(b) = {Plan(b)} /\ UniqueIds(All(b))
        /\ \A c \in S : AsManual(c) \in All(b) /\ Compiled(b, AsManual(c)) = Evaluation(a, c)
    BY <1>3, <2>1, <2>2, <2>3, AdoptedCompiles
  <2>5. ASSUME NEW e \in Selected, NEW x \in Plan(b), x.caseId = e.candidate.caseId
        PROVE  e.approval = {x.approval}
    <3>1. PICK i \in AcceptedAt : e = examined[i]
      BY DEF Selected
    <3>2. PICK c : c = e.candidate
      OBVIOUS
    <3>3. c \in S
      BY <1>1, <3>1, <3>2 DEF SelectedCases
    <3>4. e.approval = Evaluation(a, c) /\ Evaluation(a, c) # {}
      BY <1>2, <3>1, <3>2, SelectedIs
    <3>5. x \in Pieces(b, All(b))
      BY PlanIs
    <3>6. PICK m \in All(b), v \in b.variants, r \in 1..b.repetitions : x = Piece(b, m, v, r)
      BY <3>5 DEF Pieces
    <3>7. x.caseId = m.caseId /\ x.approval = TheApproval(b, m)
      BY <3>6, PieceIs
    <3>8. AsManual(c) \in All(b) /\ Compiled(b, AsManual(c)) = Evaluation(a, c)
      BY <2>4, <3>3
    <3>9. AsManual(c).caseId = c.caseId
      BY ManualIs
    <3>10. m = AsManual(c)
      BY <2>4, <2>5, <3>2, <3>7, <3>8, <3>9 DEF UniqueIds
    <3>11. PICK rank : Evaluation(a, c) = {rank}
      BY <3>4, OneRank
    <3>12. Compiled(b, m) = {rank}
      BY <3>8, <3>10, <3>11
    <3>13. TheApproval(b, m) = rank
      BY <3>12 DEF TheApproval
    <3> QED BY <3>4, <3>7, <3>11, <3>13
  <2> QED BY <2>4, <2>5
<1> QED BY <1>4, <1>5, <1>6 DEF SelectionCompiles

(* evaluateCandidate() and compile.ts agree: whatever a prepared or        *)
(* reported comparison accepted compiles together with the approvals it    *)
(* names, what it refused for its content does not compile, and every      *)
(* accepted case is a new one, for every audit and every submission.       *)
THEOREM ProposalsSoundHolds == ProposalsSpec => []ProposalsSound
<1>1. ProposalsInv => ProposalsSound
  <2> SUFFICES ASSUME ProposalsInv, proposals \in {"prepared", "reported"}
               PROVE  /\ SelectionIsNovel
                      /\ \A e \in Range(examined) : ResultAccepted(e)
                      /\ OriginNeutral => SelectionCompiles /\ RefusedDoesNotCompile
    BY DEF ProposalsSound
  <2>1. SelectionIsNovel
    BY NovelSelection
  <2>2. \A e \in Range(examined) : ResultAccepted(e)
    BY ResultsAccepted
  <2>3. OriginNeutral => SelectionCompiles /\ RefusedDoesNotCompile
    BY SelectionTogether, RefusedAlone
  <2> QED BY <2>1, <2>2, <2>3
<1>2. ProposalsSpec => []ProposalsInv
  BY ProposalsInvariant
<1> QED BY <1>1, <1>2, PTL

(* compileExperimentPlan(): tightening a policy never lets more through,   *)
(* the mandatory cases stand alone, composer and envelope agree, and every *)
(* synthetic path is of an authorized class, for every audit.              *)
THEOREM PlansSoundHolds == ProposalsSpec => []PlansSound
<1>1. ProposalsInv => PlansSound
  <2> SUFFICES ASSUME ProposalsInv
               PROVE  PlansSound
    OBVIOUS
  <2>1. PICK a : a = audit
    OBVIOUS
  <2>2. IsAudit(a)
    BY <2>1, AuditsAssumption DEF ProposalsInv
  <2>3. /\ TighterNeverLoosens(a) /\ MandatoryStandsAlone(a)
        /\ EnvelopeAgrees(a) /\ ClassesAuthorized(a)
    BY <2>2, TighterNeverLoosensLemma, MandatoryAloneLemma, EnvelopeAgreesLemma,
       ClassesAuthorizedLemma
  <2> QED BY <2>1, <2>3 DEF PlansSound
<1>2. ProposalsSpec => []ProposalsInv
  BY ProposalsInvariant
<1> QED BY <1>1, <1>2, PTL

=============================================================================
