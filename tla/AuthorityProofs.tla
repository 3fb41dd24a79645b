--------------------------- MODULE AuthorityProofs ---------------------------
(***************************************************************************)
(* Theorems about the two authorities, for any reviews, permits,           *)
(* enrollments, documents and clocks, and any overlapping calls: first     *)
(* ControlledAuthority, then EnrolledAuthority; and about                  *)
(* runControlledOutcomeExperiment(), which spends a permit, for every      *)
(* number of cleanup checks and every delay that the checks outlast.       *)
(*                                                                         *)
(* The argument for permits: a permit is only issued with what PermitSound *)
(* says of it, and since a review is spent whenever it is looked at,       *)
(* nothing that is issued or refused later can touch a permit's reviews.   *)
(* A dispatch is prepared only by the call that claims its permit, so      *)
(* claims tell the dispatches of the past from the permits that may still  *)
(* be refused.                                                             *)
(*                                                                         *)
(* The argument for the run: the container is requested only by the step   *)
(* that consumes the permit, when both directories are there; every        *)
(* disposal comes after the cleanup was verified, and by                   *)
(* ContainerCleanupProofs a verified cleanup means that no container is    *)
(* left or can still be created.  What the two records claim is carried    *)
(* along the controller's stages.                                          *)
(***************************************************************************)
EXTENDS ControlledAuthority, EnrolledAuthority, ControlledRun,
        ContainerCleanupProofs

(* What was checked when a permit was issued still holds of it.            *)
PermitSound(a) ==
  /\ a.tree = Allowed[a.fixture]
  /\ a.expiresAt <= a.issuedAt + MaxLifetime
  /\ a.expiresAt <= PolicyEnd[a.plan]
  /\ ReviewNeeded[a.fixture] => a.review # {}
  /\ \A r \in a.review :
       /\ r \in spent /\ r \notin refused /\ reviews[r] # {}
       /\ \A v \in reviews[r] :
            /\ v.plan = a.plan /\ v.rank >= Required[a.plan]
            /\ v.at <= a.issuedAt /\ a.expiresAt <= v.until

PermitsInv ==
  /\ \A p \in Permits : \A a \in permits[p] : PermitSound(a)
  /\ \A p, q \in Permits : p # q =>
       \A a \in permits[p], b \in permits[q] : a.review \intersect b.review = {}

(* A permit is consumed after it was issued, once, and what is refused can *)
(* never be used.                                                          *)
SpendingInv ==
  /\ \A r \in Reviews : \A v, w \in reviews[r] : v = w
  /\ \A p \in Permits : \A a, b \in permits[p] : a = b
  /\ \A p \in Permits : \A since \in consumed[p], a \in permits[p] :
       a.issuedAt <= since
  /\ \A p \in Permits : consumed[p] # {} => permits[p] # {}
  /\ refused \intersect Reviews \subseteq spent
  /\ refused \intersect Permits \subseteq claimed

(* What the monitor saw when it prepared a dispatch.                       *)
Vouched(d) ==
  \E a \in permits[d.permit], since \in consumed[d.permit] :
    /\ since <= d.at /\ d.at < a.expiresAt /\ d.at < PolicyEnd[d.plan]
    /\ d.plan = a.plan /\ d.tree = a.tree

DispatchInv ==
  /\ \A i \in DOMAIN prepared :
       /\ prepared[i].permit \in claimed /\ prepared[i].permit \notin refused
       /\ Vouched(prepared[i])
  /\ \A i, j \in DOMAIN prepared :
       i # j => prepared[i].permit # prepared[j].permit

AuthorityIInv == PermitTypeOK /\ PermitsInv /\ SpendingInv /\ DispatchInv

-----------------------------------------------------------------------------
(* The elements of a sequence with one more at its end.                    *)
LEMMA AppendElements ==
  ASSUME NEW S, NEW s \in Seq(S), NEW x \in S
  PROVE  /\ Append(s, x) \in Seq(S)
         /\ \A i \in DOMAIN Append(s, x) :
              \/ i \in DOMAIN s /\ Append(s, x)[i] = s[i]
              \/ i = Len(s) + 1 /\ i \notin DOMAIN s /\ Append(s, x)[i] = x
OBVIOUS

LEMMA AuthorityInitially == PermitInit => AuthorityIInv
BY DEF PermitInit, AuthorityIInv, PermitTypeOK, PermitsInv, SpendingInv,
       DispatchInv

(* A dispatch was prepared for a permit.                                   *)
LEMMA PreparedPermit ==
  ASSUME PermitTypeOK, NEW i \in DOMAIN prepared
  PROVE  prepared[i] \in Prepared /\ prepared[i].permit \in Permits
<1>1. prepared[i] \in Prepared
  BY DEF PermitTypeOK
<1> QED
  BY <1>1 DEF Prepared

(* createControlledProposalReview() makes a review nobody refers to yet.   *)
LEMMA ReviewIssued ==
  ASSUME AuthorityIInv, AuthorityAssumption,
         NEW r \in Reviews, NEW plan \in Plans, NEW rank \in Ranks,
         NEW at \in Times, NEW until \in Times,
         IssueReview(r, plan, rank, at, until)
  PROVE  AuthorityIInv'
<1> DEFINE v == [plan |-> plan, rank |-> rank, at |-> at, until |-> until]
<1> USE DEF AuthorityIInv
<1>1. /\ reviews[r] = {} /\ reviews' = [reviews EXCEPT ![r] = {v}]
      /\ UNCHANGED <<spent, permits, consumed, claimed, prepared, refused>>
  BY DEF IssueReview
<1>2. PermitTypeOK'
  BY <1>1 DEF PermitTypeOK, Review
<1>3. ASSUME NEW p \in Permits, NEW a \in permits[p]
      PROVE  PermitSound(a)'
  <2>1. PermitSound(a) /\ a.review \subseteq Reviews
    BY DEF PermitsInv, PermitTypeOK, Authorization
  <2>2. \A q \in a.review : reviews'[q] = reviews[q]
    BY <1>1, <2>1 DEF PermitSound, PermitTypeOK
  <2> QED
    BY <1>1, <2>1, <2>2 DEF PermitSound
<1>4. PermitsInv'
  BY <1>1, <1>3 DEF PermitsInv
<1>5. SpendingInv'
  <2>1. \A q \in Reviews : reviews'[q] = IF q = r THEN {v} ELSE reviews[q]
    BY <1>1 DEF PermitTypeOK
  <2> QED
    BY <1>1, <2>1 DEF SpendingInv
<1>6. DispatchInv'
  BY <1>1 DEF DispatchInv, Vouched
<1> QED
  BY <1>2, <1>4, <1>5, <1>6

(* A permit whose reviews were unspent, and are spent in the same call.    *)
LEMMA PermitIssued ==
  ASSUME AuthorityIInv, AuthorityAssumption,
         NEW p \in Permits, NEW a \in Authorization,
         permits[p] = {}, permits' = [permits EXCEPT ![p] = {a}],
         a.review \intersect spent = {}, spent' = spent \union a.review,
         PermitSound(a)',
         UNCHANGED <<reviews, consumed, claimed, prepared, refused>>
  PROVE  AuthorityIInv'
<1> USE DEF AuthorityIInv
<1>1. PermitTypeOK'
  BY DEF PermitTypeOK, Authorization
<1>2. \A q \in Permits : permits'[q] = IF q = p THEN {a} ELSE permits[q]
  BY DEF PermitTypeOK
<1>3. ASSUME NEW q \in Permits, NEW b \in permits[q]
      PROVE  PermitSound(b)' /\ a.review \intersect b.review = {}
  BY DEF PermitsInv, PermitSound
<1>4. PermitsInv'
  BY <1>2, <1>3 DEF PermitsInv
<1>5. SpendingInv'
  BY <1>2 DEF SpendingInv, PermitTypeOK
<1>6. ASSUME NEW i \in DOMAIN prepared
      PROVE  Vouched(prepared[i])'
  <2>1. Vouched(prepared[i]) /\ prepared[i].permit \in Permits
    BY PreparedPermit DEF DispatchInv
  <2> QED
    BY <1>2, <2>1 DEF Vouched
<1>7. DispatchInv'
  BY <1>6 DEF DispatchInv
<1> QED
  BY <1>1, <1>4, <1>5, <1>7

(* A review that is refused was unspent: no permit rests on it.            *)
LEMMA ReviewRefused ==
  ASSUME AuthorityIInv, AuthorityAssumption,
         NEW r \in Reviews, r \notin spent,
         spent' = spent \union {r}, refused' = refused \union {r},
         UNCHANGED <<reviews, permits, consumed, claimed, prepared>>
  PROVE  AuthorityIInv'
<1> USE DEF AuthorityIInv
<1>1. PermitTypeOK'
  BY DEF PermitTypeOK
<1>2. ASSUME NEW p \in Permits, NEW a \in permits[p]
      PROVE  PermitSound(a)'
  BY DEF PermitsInv, PermitSound
<1>3. PermitsInv'
  BY <1>2 DEF PermitsInv
<1>4. r \notin Permits
  BY DEF AuthorityAssumption
<1>5. SpendingInv'
  BY <1>4 DEF SpendingInv
<1>6. ASSUME NEW i \in DOMAIN prepared
      PROVE  prepared[i].permit \notin refused'
  BY <1>4, PreparedPermit DEF DispatchInv
<1>7. DispatchInv'
  BY <1>6 DEF DispatchInv, Vouched
<1> QED
  BY <1>1, <1>3, <1>5, <1>7

LEMMA PermitConsumed ==
  ASSUME AuthorityIInv, NEW p \in Permits, NEW now \in Times, Consume(p, now)
  PROVE  AuthorityIInv'
<1> USE DEF AuthorityIInv
<1>1. /\ consumed[p] = {} /\ consumed' = [consumed EXCEPT ![p] = {now}]
      /\ \E a \in permits[p] : now >= a.issuedAt /\ now < a.expiresAt
      /\ UNCHANGED <<reviews, spent, permits, claimed, prepared, refused>>
  BY DEF Consume
<1>2. PermitTypeOK'
  BY <1>1 DEF PermitTypeOK
<1>3. \A q \in Permits : consumed'[q] = IF q = p THEN {now} ELSE consumed[q]
  BY <1>1 DEF PermitTypeOK
<1>4. PermitsInv'
  BY <1>1 DEF PermitsInv, PermitSound
<1>5. SpendingInv'
  <2>1. \A a \in permits[p] : a.issuedAt <= now
    BY <1>1 DEF SpendingInv, PermitTypeOK, Authorization, Times
  <2> QED
    BY <1>1, <1>3, <2>1 DEF SpendingInv
<1>6. ASSUME NEW i \in DOMAIN prepared
      PROVE  Vouched(prepared[i])'
  <2>1. Vouched(prepared[i]) /\ prepared[i].permit \in Permits
    BY PreparedPermit DEF DispatchInv
  <2> QED
    BY <1>1, <1>3, <2>1 DEF Vouched
<1>7. DispatchInv'
  BY <1>1, <1>6 DEF DispatchInv
<1> QED
  BY <1>2, <1>4, <1>5, <1>7

(* The monitor claims the permit, and then prepares or refuses.            *)
LEMMA PermitClaimed ==
  ASSUME AuthorityIInv, AuthorityAssumption,
         NEW p \in Permits, NEW plan \in Plans, NEW mounted \in Trees,
         NEW now \in Times, Dispatch(p, plan, mounted, now)
  PROVE  AuthorityIInv'
<1> USE DEF AuthorityIInv
<1> DEFINE d == [permit |-> p, plan |-> plan, tree |-> mounted, at |-> now]
<1>1. PICK a \in permits[p], since \in consumed[p] :
        /\ claimed' = claimed \union {p}
        /\ \/ /\ PermitCurrent(a, since, plan, mounted, now)
              /\ prepared' = Append(prepared, d) /\ refused' = refused
           \/ prepared' = prepared /\ refused' = refused \union {p}
  BY DEF Dispatch, Claim
<1>2. /\ p \notin claimed
      /\ UNCHANGED <<reviews, spent, permits, consumed>>
  BY DEF Dispatch
<1>3. d \in Prepared /\ prepared \in Seq(Prepared)
  BY DEF Prepared, PermitTypeOK
<1>4. PermitTypeOK'
  <2>1. prepared' \in Seq(Prepared)
    <3>1. Append(prepared, d) \in Seq(Prepared)
      BY <1>3, AppendElements
    <3> QED
      BY <1>1, <1>3, <3>1
  <2>2. claimed' \subseteq Permits /\ refused' \subseteq Permits \union Reviews
    BY <1>1 DEF PermitTypeOK
  <2> QED
    BY <1>2, <2>1, <2>2 DEF PermitTypeOK
<1>5. PermitsInv'
  <2>1. p \notin Reviews
    BY DEF AuthorityAssumption
  <2>2. ASSUME NEW q \in Permits, NEW b \in permits[q]
        PROVE  PermitSound(b)'
    <3>1. PermitSound(b) /\ b.review \subseteq Reviews
      BY DEF PermitsInv, PermitTypeOK, Authorization
    <3> QED
      BY <1>1, <1>2, <2>1, <3>1 DEF PermitSound
  <2> QED
    BY <1>2, <2>2 DEF PermitsInv
<1>6. SpendingInv'
  <2>1. p \notin Reviews
    BY DEF AuthorityAssumption
  <2>2. /\ refused' \intersect Reviews \subseteq spent
        /\ refused' \intersect Permits \subseteq claimed'
    BY <1>1, <2>1 DEF SpendingInv
  <2> QED
    BY <1>2, <2>2 DEF SpendingInv
<1>7. CASE prepared' = prepared /\ refused' = refused \union {p}
  <2>1. \A i \in DOMAIN prepared : prepared[i].permit # p
    BY <1>2 DEF DispatchInv
  <2>2. DispatchInv'
    BY <1>1, <1>2, <1>7, <2>1 DEF DispatchInv, Vouched
  <2> QED
    BY <1>4, <1>5, <1>6, <2>2
<1>8. CASE /\ PermitCurrent(a, since, plan, mounted, now)
           /\ prepared' = Append(prepared, d) /\ refused' = refused
  <2>1. Vouched(d)'
    BY <1>2, <1>8 DEF Vouched, PermitCurrent, Times, PermitTypeOK, Authorization
  <2>2. p \notin refused
    BY <1>2 DEF SpendingInv
  <2>3. \A i \in DOMAIN prepared' :
          \/ i \in DOMAIN prepared /\ prepared'[i] = prepared[i]
          \/ i = Len(prepared) + 1 /\ i \notin DOMAIN prepared /\ prepared'[i] = d
    BY <1>3, <1>8, AppendElements
  <2>4. \A i \in DOMAIN prepared : prepared[i].permit # p
    BY <1>2 DEF DispatchInv
  <2>5. ASSUME NEW i \in DOMAIN prepared'
        PROVE  /\ prepared'[i].permit \in claimed'
               /\ prepared'[i].permit \notin refused' /\ Vouched(prepared[i])'
    <3>1. CASE i \in DOMAIN prepared /\ prepared'[i] = prepared[i]
      <4>1. /\ prepared[i].permit \in claimed /\ prepared[i].permit \notin refused
            /\ Vouched(prepared[i])
        BY <3>1 DEF DispatchInv
      <4>2. Vouched(prepared[i])'
        BY <1>2, <3>1, <4>1 DEF Vouched
      <4> QED
        BY <1>1, <1>8, <3>1, <4>1, <4>2
    <3>2. CASE prepared'[i] = d
      <4>1. d.permit = p
        OBVIOUS
      <4>2. prepared'[i].permit \in claimed' /\ prepared'[i].permit \notin refused'
        BY <1>1, <1>8, <2>2, <3>2, <4>1
      <4>3. Vouched(prepared[i])'
        BY <2>1, <3>2 DEF Vouched
      <4> QED
        BY <4>2, <4>3
    <3> QED
      BY <2>3, <3>1, <3>2
  <2>6. ASSUME NEW i \in DOMAIN prepared', NEW j \in DOMAIN prepared', i # j
        PROVE  prepared'[i].permit # prepared'[j].permit
    <3>1. d.permit = p
      OBVIOUS
    <3>2. \A k, l \in DOMAIN prepared :
            k # l => prepared[k].permit # prepared[l].permit
      BY DEF DispatchInv
    <3> HIDE DEF d
    <3>3. CASE i \in DOMAIN prepared /\ j \in DOMAIN prepared
      BY <2>3, <2>6, <3>2, <3>3
    <3>4. CASE i \in DOMAIN prepared /\ j \notin DOMAIN prepared
      BY <2>3, <2>4, <3>1, <3>4
    <3>5. CASE i \notin DOMAIN prepared /\ j \in DOMAIN prepared
      BY <2>3, <2>4, <3>1, <3>5
    <3>6. CASE i \notin DOMAIN prepared /\ j \notin DOMAIN prepared
      BY <2>3, <2>6, <3>6
    <3> QED
      BY <3>3, <3>4, <3>5, <3>6
  <2>7. DispatchInv'
    BY <2>5, <2>6 DEF DispatchInv
  <2> QED
    BY <1>4, <1>5, <1>6, <2>7
<1> QED
  BY <1>1, <1>7, <1>8

(* issueSingleStepPermit() for a reviewed fixture: the permit or a refusal. *)
LEMMA ReviewUsed ==
  ASSUME AuthorityIInv, AuthorityAssumption,
         NEW p \in Permits, NEW f \in Fixtures, NEW r \in Reviews,
         NEW plan \in Plans, NEW submitted \in Plans, NEW mounted \in Trees,
         NEW issuedAt \in Times, NEW expiresAt \in Times,
         IssueReviewed(p, f, r, plan, submitted, mounted, issuedAt, expiresAt)
  PROVE  AuthorityIInv'
<1> DEFINE a == [fixture |-> f, plan |-> plan, tree |-> mounted,
                 issuedAt |-> issuedAt, expiresAt |-> expiresAt,
                 review |-> {r}]
<1>1. PICK v \in reviews[r] :
        \/ /\ ReviewAdmits(v, plan, issuedAt)
           /\ PermitAdmissible(f, plan, submitted, mounted, v.rank,
                               issuedAt, expiresAt)
           /\ WithinReview(v, expiresAt)
           /\ spent' = spent \union {r}
           /\ permits' = [permits EXCEPT ![p] = {a}] /\ refused' = refused
        \/ /\ spent' = spent \union {r}
           /\ permits' = permits /\ refused' = refused \union {r}
  BY DEF IssueReviewed, Spend, NewPermit
<1>2. /\ permits[p] = {} /\ r \notin spent
      /\ UNCHANGED <<reviews, consumed, claimed, prepared>>
  BY DEF IssueReviewed
<1>3. CASE permits' = permits /\ refused' = refused \union {r}
  BY <1>1, <1>2, <1>3, ReviewRefused
<1>4. CASE /\ ReviewAdmits(v, plan, issuedAt)
           /\ PermitAdmissible(f, plan, submitted, mounted, v.rank,
                               issuedAt, expiresAt)
           /\ WithinReview(v, expiresAt)
           /\ permits' = [permits EXCEPT ![p] = {a}] /\ refused' = refused
  <2>1. a \in Authorization
    BY <1>4 DEF PermitAdmissible, Authorization
  <2>2. r \notin refused
    BY <1>2 DEF AuthorityIInv, SpendingInv
  <2>3. \A w \in reviews[r] : w = v
    BY DEF AuthorityIInv, SpendingInv
  <2>4. v.at <= issuedAt
    BY <1>4 DEF ReviewAdmits, AuthorityIInv, PermitTypeOK, Review, Times
  <2>5. PermitSound(a)'
    BY <1>1, <1>2, <1>4, <2>2, <2>3, <2>4
       DEF PermitSound, ReviewAdmits, PermitAdmissible, PermitWindow,
           WithinReview
  <2> QED
    BY <1>1, <1>2, <1>4, <2>1, <2>5, PermitIssued
<1> QED
  BY <1>1, <1>3, <1>4

(* ... and for one that needs no review.                                   *)
LEMMA NoReviewUsed ==
  ASSUME AuthorityIInv, AuthorityAssumption,
         NEW p \in Permits, NEW f \in Fixtures,
         NEW plan \in Plans, NEW submitted \in Plans, NEW mounted \in Trees,
         NEW rank \in Ranks, NEW issuedAt \in Times, NEW expiresAt \in Times,
         IssueUnreviewed(p, f, plan, submitted, mounted, rank, issuedAt, expiresAt)
  PROVE  AuthorityIInv'
<1> DEFINE a == [fixture |-> f, plan |-> plan, tree |-> mounted,
                 issuedAt |-> issuedAt, expiresAt |-> expiresAt,
                 review |-> {}]
<1>1. /\ ~ReviewNeeded[f] /\ permits[p] = {}
      /\ PermitAdmissible(f, plan, submitted, mounted, rank, issuedAt, expiresAt)
      /\ permits' = [permits EXCEPT ![p] = {a}]
      /\ UNCHANGED <<reviews, spent, consumed, claimed, prepared, refused>>
  BY DEF IssueUnreviewed, NewPermit
<1>2. a \in Authorization
  BY <1>1 DEF PermitAdmissible, Authorization
<1>3. PermitSound(a)'
  BY <1>1 DEF PermitSound, PermitAdmissible, PermitWindow
<1> QED
  BY <1>1, <1>2, <1>3, PermitIssued

LEMMA AuthorityStep ==
  ASSUME AuthorityAssumption
  PROVE  AuthorityIInv /\ [PermitNext]_permitVars => AuthorityIInv'
<1> SUFFICES ASSUME AuthorityIInv, [PermitNext]_permitVars
             PROVE  AuthorityIInv'
  OBVIOUS
<1>1. CASE \E r \in Reviews, plan \in Plans, rank \in Ranks, at, until \in Times :
             IssueReview(r, plan, rank, at, until)
  BY <1>1, ReviewIssued
<1>2. CASE \E p \in Permits, f \in Fixtures, plan, submitted \in Plans,
              mounted \in Trees, issuedAt, expiresAt \in Times :
             \/ \E r \in Reviews :
                  IssueReviewed(p, f, r, plan, submitted, mounted, issuedAt,
                                expiresAt)
             \/ \E rank \in Ranks :
                  IssueUnreviewed(p, f, plan, submitted, mounted, rank, issuedAt,
                                  expiresAt)
  BY <1>2, ReviewUsed, NoReviewUsed
<1>3. CASE \E p \in Permits, now \in Times : Consume(p, now)
  BY <1>3, PermitConsumed
<1>4. CASE \E p \in Permits, plan \in Plans, mounted \in Trees, now \in Times :
             Dispatch(p, plan, mounted, now)
  BY <1>4, PermitClaimed
<1>5. CASE UNCHANGED permitVars
  <2>1. /\ reviews' = reviews /\ spent' = spent /\ permits' = permits
        /\ consumed' = consumed /\ claimed' = claimed
        /\ prepared' = prepared /\ refused' = refused
    BY <1>5 DEF permitVars
  <2>2. PermitTypeOK' /\ SpendingInv'
    BY <2>1 DEF AuthorityIInv, PermitTypeOK, SpendingInv
  <2>3. PermitsInv'
    BY <2>1 DEF AuthorityIInv, PermitsInv, PermitSound
  <2>4. DispatchInv'
    BY <2>1 DEF AuthorityIInv, DispatchInv, Vouched
  <2> QED
    BY <2>2, <2>3, <2>4 DEF AuthorityIInv
<1> QED
  BY <1>1, <1>2, <1>3, <1>4, <1>5 DEF PermitNext

-----------------------------------------------------------------------------
(* Whatever calls are made, in whatever order and with whatever clocks,    *)
(* the tables of the three modules keep the invariant above.               *)
THEOREM AuthorityInvariant == PermitSpec => []AuthorityIInv
<1> USE AuthorityAssumption
<1>1. PermitInit => AuthorityIInv
  BY AuthorityInitially
<1>2. AuthorityIInv /\ [PermitNext]_permitVars => AuthorityIInv'
  BY AuthorityStep
<1> QED
  BY <1>1, <1>2, PTL DEF PermitSpec

(* The capability tables only hold what the code puts into them.           *)
THEOREM PermitTypes == PermitSpec => []PermitTypeOK
<1>1. AuthorityIInv => PermitTypeOK
  BY DEF AuthorityIInv
<1> QED
  BY <1>1, AuthorityInvariant, PTL

(* One permit yields at most one dispatch and one review at most one, over *)
(* every permit there is; and what failed a check is never behind one.     *)
THEOREM OneDispatchPerLink == PermitSpec => []LinksUsedOnce
<1>1. AuthorityIInv => LinksUsedOnce
  <2> SUFFICES ASSUME AuthorityIInv
               PROVE  LinksUsedOnce
    OBVIOUS
  <2>1. ASSUME NEW i \in DOMAIN prepared, NEW j \in DOMAIN prepared, i # j
        PROVE  /\ prepared[i].permit # prepared[j].permit
               /\ ReviewsOf(i) \intersect ReviewsOf(j) = {}
    <3>1. prepared[i].permit \in Permits /\ prepared[j].permit \in Permits
      BY PreparedPermit DEF AuthorityIInv
    <3>2. prepared[i].permit # prepared[j].permit
      BY <2>1 DEF AuthorityIInv, DispatchInv
    <3>3. \A a \in permits[prepared[i].permit], b \in permits[prepared[j].permit] :
            a.review \intersect b.review = {}
      BY <3>1, <3>2 DEF AuthorityIInv, PermitsInv
    <3> QED
      BY <3>2, <3>3 DEF ReviewsOf
  <2>2. \A p \in Permits : \A a \in permits[p] : a.review \intersect refused = {}
    BY DEF AuthorityIInv, PermitsInv, PermitSound
  <2>3. \A i \in DOMAIN prepared : prepared[i].permit \notin refused
    BY DEF AuthorityIInv, DispatchInv
  <2> QED
    BY <2>1, <2>2, <2>3 DEF LinksUsedOnce
<1> QED
  BY <1>1, AuthorityInvariant, PTL

(* A dispatch lies in every window above it and is the plan, over the      *)
(* allowlisted tree, that a sufficient reviewer reviewed where the fixture *)
(* asks for one.                                                           *)
THEOREM DispatchedAsReviewed == PermitSpec => []DispatchAsReviewed
<1> USE AuthorityAssumption
<1>1. AuthorityIInv => DispatchAsReviewed
  <2> SUFFICES ASSUME AuthorityIInv, NEW i \in DOMAIN prepared
               PROVE  LET d == prepared[i] IN
                 \E a \in permits[d.permit], since \in consumed[d.permit] :
                   /\ a.issuedAt <= since /\ since <= d.at
                   /\ d.at < a.expiresAt /\ d.at < PolicyEnd[d.plan]
                   /\ d.at < a.issuedAt + MaxLifetime
                   /\ d.plan = a.plan /\ d.tree = Allowed[a.fixture]
                   /\ \A r \in a.review : \A v \in reviews[r] :
                        v.at <= d.at /\ d.at < v.until
                   /\ ReviewNeeded[a.fixture] =>
                        \E r \in a.review : \E v \in reviews[r] :
                          v.plan = d.plan /\ v.rank >= Required[d.plan]
    BY DEF DispatchAsReviewed
  <2> DEFINE d == prepared[i]
  <2>1. d \in Prepared /\ d.permit \in Permits
    BY PreparedPermit DEF AuthorityIInv
  <2>2. PICK a \in permits[d.permit], since \in consumed[d.permit] :
          /\ since <= d.at /\ d.at < a.expiresAt /\ d.at < PolicyEnd[d.plan]
          /\ d.plan = a.plan /\ d.tree = a.tree
    BY DEF AuthorityIInv, DispatchInv, Vouched
  <2>3. PermitSound(a) /\ a.issuedAt <= since
    BY <2>1 DEF AuthorityIInv, PermitsInv, SpendingInv
  <2>4. /\ d.at \in Nat /\ since \in Nat
        /\ a \in Authorization /\ a.issuedAt \in Nat /\ a.expiresAt \in Nat
    BY <2>1 DEF AuthorityIInv, PermitTypeOK, Prepared, Authorization, Times
  <2>5. d.at < a.issuedAt + MaxLifetime
    BY <2>2, <2>3, <2>4 DEF PermitSound, AuthorityAssumption
  <2>6. \A r \in a.review : \A v \in reviews[r] :
          /\ v.at <= d.at /\ d.at < v.until
          /\ v.plan = d.plan /\ v.rank >= Required[d.plan]
    <3> SUFFICES ASSUME NEW r \in a.review, NEW v \in reviews[r]
                 PROVE  /\ v.at <= d.at /\ d.at < v.until
                        /\ v.plan = d.plan /\ v.rank >= Required[d.plan]
      OBVIOUS
    <3>1. r \in Reviews
      BY <2>4 DEF Authorization
    <3>2. v.at \in Nat /\ v.until \in Nat
      BY <3>1 DEF AuthorityIInv, PermitTypeOK, Review, Times
    <3>3. /\ v.plan = a.plan /\ v.rank >= Required[a.plan]
          /\ v.at <= a.issuedAt /\ a.expiresAt <= v.until
      BY <2>3 DEF PermitSound
    <3> QED
      BY <2>2, <2>3, <2>4, <3>2, <3>3
  <2>7. ReviewNeeded[a.fixture] => \E r \in a.review : \E v \in reviews[r] : TRUE
    BY <2>3 DEF PermitSound
  <2>8. d.tree = Allowed[a.fixture]
    BY <2>2, <2>3 DEF PermitSound
  <2> QED
    BY <2>2, <2>3, <2>5, <2>6, <2>7, <2>8
<1> QED
  BY <1>1, AuthorityInvariant, PTL

-----------------------------------------------------------------------------
(***************************************************************************)
(* EnrolledAuthority: a link is claimed in the step that looks at it, so   *)
(* it is looked at once, and what failed is told from what succeeded by    *)
(* the claim.  While a dispatch waits for its hashes it is the only holder *)
(* of its capability: it can become a receipt or a refusal, and no other   *)
(* call can do either for the same capability.                             *)
(***************************************************************************)
Waiting == [capability: Capabilities, call: Documents, at: Instants,
            waits: {"tree", "resources"}]

Receipt == [capability: Capabilities, call: Documents, checkedAt: Instants]

CallReview == [hypothesisAt: Instants, rank: ClassRanks, reviewedAt: Instants,
               until: Nat]

EnrolledTypes ==
  /\ EnrolledTables
  /\ presented \in [Presentations -> SUBSET Waiting]

(* A review is made once, in its claim, or refused there.                  *)
ReviewInv ==
  \A k \in Capabilities :
    /\ <<k, "review">> \in turnedAway => k \in reviewClaimed
    /\ \A v \in callReviews[k] :
         /\ ReviewRecordValid(EnrollmentOf[k], v)
         /\ k \in reviewClaimed /\ <<k, "review">> \notin turnedAway
         /\ \A w \in callReviews[k] : w = v

(* It is consumed once, within its window, or refused there.               *)
ConsumptionInv ==
  \A k \in Capabilities :
    /\ <<k, "consume">> \in turnedAway => k \in reviewUsed
    /\ \A since \in consumedAt[k] :
         /\ k \in reviewUsed /\ <<k, "consume">> \notin turnedAway
         /\ callReviews[k] # {}
         /\ \A v \in callReviews[k] : v.reviewedAt <= since

(* The instant the clock was read lies in every window of the capability.  *)
InWindow(k, at) ==
  \E v \in callReviews[k], since \in consumedAt[k] :
    /\ since <= at /\ at < v.until
    /\ \A t \in PolicyExpiry[EnrollmentOf[k]] : at < t

(* Claimed for dispatch, and not refused since.                            *)
Dispatching(k) == k \in dispatchClaimed /\ <<k, "dispatch">> \notin turnedAway

(* Who waits holds its capability alone.                                   *)
PresentedInv ==
  /\ \A k \in Capabilities :
       <<k, "dispatch">> \in turnedAway => k \in dispatchClaimed
  /\ \A c \in Presentations : \A p \in presented[c] :
       /\ Dispatching(p.capability) /\ InWindow(p.capability, p.at)
       /\ \A i \in DOMAIN receipts : receipts[i].capability # p.capability
       /\ \A d \in Presentations : \A q \in presented[d] :
            p.capability = q.capability => c = d /\ p = q

ReceiptsInv ==
  \A i \in DOMAIN receipts :
    /\ Dispatching(receipts[i].capability)
    /\ InWindow(receipts[i].capability, receipts[i].checkedAt)
    /\ receipts[i].call = EnrollmentOf[receipts[i].capability]
    /\ \A j \in DOMAIN receipts :
         i # j => receipts[i].capability # receipts[j].capability

EnrolledIInv ==
  EnrolledTypes /\ ReviewInv /\ ConsumptionInv /\ PresentedInv /\ ReceiptsInv

-----------------------------------------------------------------------------
LEMMA EnrolledInitially == EnrolledInit => EnrolledIInv
BY DEF EnrolledInit, EnrolledIInv, EnrolledTypes, EnrolledTables, ReviewInv,
       ConsumptionInv, PresentedInv, ReceiptsInv

(* Who waits and what was issued names a capability.                       *)
LEMMA CapabilitiesNamed ==
  ASSUME EnrolledTypes
  PROVE  /\ \A c \in Presentations : \A p \in presented[c] :
              p \in Waiting /\ p.capability \in Capabilities
         /\ \A i \in DOMAIN receipts :
              receipts[i] \in Receipt /\ receipts[i].capability \in Capabilities
<1>1. ASSUME NEW c \in Presentations, NEW p \in presented[c]
      PROVE  p \in Waiting
  BY DEF EnrolledTypes
<1>2. ASSUME NEW i \in DOMAIN receipts
      PROVE  receipts[i] \in Receipt
  <2>1. receipts \in Seq(Receipt)
    BY DEF EnrolledTypes, EnrolledTables, Receipt
  <2> QED
    BY <2>1
<1> QED
  BY <1>1, <1>2 DEF Waiting, Receipt

(* The end of the window of a review is an instant.                        *)
LEMMA WindowEnds ==
  ASSUME EnrolledAssumption, NEW d \in Documents, NEW at \in Instants
  PROVE  CapabilityEnd(d, at) \in Nat
<1> DEFINE longest == at + ReviewLifetime
           earlier == {t \in PolicyExpiry[d] : t <= longest}
<1>1. longest \in Nat /\ earlier \subseteq Nat
  BY DEF EnrolledAssumption
<1>2. CASE earlier = {}
  BY <1>1, <1>2 DEF CapabilityEnd
<1>3. CASE earlier # {}
  <2>1. (CHOOSE t \in earlier : TRUE) \in earlier
    BY <1>3
  <2> QED
    BY <1>1, <1>3, <2>1 DEF CapabilityEnd
<1> QED
  BY <1>2, <1>3

(* registerVerifiedEnrollment() and the host touch no link.                *)
LEMMA LinksUntouched ==
  ASSUME EnrolledIInv,
         registered \subseteq registered', registered' \subseteq Capabilities,
         UNCHANGED <<reviewClaimed, callReviews, reviewUsed, consumedAt,
                     dispatchClaimed, presented, receipts, turnedAway>>
  PROVE  EnrolledIInv'
<1>1. EnrolledTypes'
  BY DEF EnrolledIInv, EnrolledTypes, EnrolledTables
<1>2. ReviewInv' /\ ConsumptionInv'
  BY DEF EnrolledIInv, ReviewInv, ConsumptionInv
<1>3. PresentedInv' /\ ReceiptsInv'
  BY DEF EnrolledIInv, PresentedInv, ReceiptsInv, Dispatching, InWindow
<1> QED
  BY <1>1, <1>2, <1>3 DEF EnrolledIInv

(* approveExactCall(): the review is made or refused in its claim.         *)
LEMMA ExactCallApproved ==
  ASSUME EnrolledIInv, EnrolledAssumption,
         NEW k \in Capabilities, NEW record \in Documents,
         NEW hypothesis \in Documents, NEW hypothesisAt \in Instants,
         NEW rank \in ClassRanks, NEW now \in Instants,
         ApproveExactCall(k, record, hypothesis, hypothesisAt, rank, now)
  PROVE  EnrolledIInv'
<1> USE DEF EnrolledIInv
<1> DEFINE v == [hypothesisAt |-> hypothesisAt, rank |-> rank,
                 reviewedAt |-> now, until |-> CapabilityEnd(EnrollmentOf[k], now)]
<1>1. /\ k \in registered /\ k \notin reviewClaimed
      /\ reviewClaimed' = reviewClaimed \union {k}
      /\ \/ /\ ReviewRecordValid(EnrollmentOf[k], v)
            /\ callReviews' = [callReviews EXCEPT ![k] = {v}]
            /\ turnedAway' = turnedAway
         \/ /\ callReviews' = callReviews
            /\ turnedAway' = turnedAway \union {<<k, "review">>}
      /\ UNCHANGED <<registered, reviewUsed, consumedAt, dispatchClaimed,
                     presented, receipts>>
  BY DEF ApproveExactCall, ClaimReview, IssueCallReview, Reviewable
<1>2. v \in CallReview
  <2>1. EnrollmentOf[k] \in Documents
    BY DEF EnrolledAssumption
  <2> QED
    BY <2>1, WindowEnds DEF CallReview
<1>3. callReviews[k] = {} /\ consumedAt[k] = {} /\ <<k, "review">> \notin turnedAway
  BY <1>1 DEF ReviewInv, ConsumptionInv, EnrolledTypes, EnrolledTables
<1>4. EnrolledTypes'
  <2>1. callReviews' \in [Capabilities -> SUBSET CallReview]
    <3>1. callReviews \in [Capabilities -> SUBSET CallReview]
      BY DEF EnrolledTypes, EnrolledTables, CallReview
    <3> QED
      BY <1>1, <1>2, <3>1
  <2>2. /\ registered \subseteq Capabilities /\ reviewClaimed' \subseteq registered
        /\ reviewUsed \subseteq reviewClaimed' /\ dispatchClaimed \subseteq reviewUsed
    BY <1>1 DEF EnrolledTypes, EnrolledTables
  <2>3. /\ consumedAt' \in [Capabilities -> SUBSET Instants]
        /\ receipts' \in Seq(Receipt)
        /\ presented' \in [Presentations -> SUBSET Waiting]
    <3>1. /\ consumedAt \in [Capabilities -> SUBSET Instants]
          /\ presented \in [Presentations -> SUBSET Waiting]
      BY DEF EnrolledTypes, EnrolledTables
    <3>2. receipts \in Seq(Receipt)
      BY DEF EnrolledTypes, EnrolledTables, Receipt
    <3> QED
      BY <1>1, <3>1, <3>2
  <2> QED
    BY <1>1, <2>1, <2>2, <2>3
       DEF EnrolledTypes, EnrolledTables, Receipt, CallReview
<1>5. \A x \in Capabilities : x # k =>
         /\ callReviews'[x] = callReviews[x]
         /\ <<x, "review">> \in turnedAway' <=> <<x, "review">> \in turnedAway
  BY <1>1 DEF EnrolledTypes, EnrolledTables
<1>6. \A x \in Capabilities :
         /\ <<x, "consume">> \in turnedAway' <=> <<x, "consume">> \in turnedAway
         /\ <<x, "dispatch">> \in turnedAway' <=> <<x, "dispatch">> \in turnedAway
  BY <1>1
<1>7. ReviewInv'
  <2>1. ASSUME NEW x \in Capabilities, x # k
        PROVE  /\ <<x, "review">> \in turnedAway' => x \in reviewClaimed'
               /\ \A u \in callReviews'[x] :
                    /\ ReviewRecordValid(EnrollmentOf[x], u)
                    /\ x \in reviewClaimed' /\ <<x, "review">> \notin turnedAway'
                    /\ \A w \in callReviews'[x] : w = u
    BY <1>1, <1>5, <2>1 DEF ReviewInv
  <2>2. \/ /\ callReviews'[k] = {v} /\ ReviewRecordValid(EnrollmentOf[k], v)
           /\ <<k, "review">> \notin turnedAway'
        \/ callReviews'[k] = {}
    BY <1>1, <1>3 DEF EnrolledTypes, EnrolledTables
  <2>3. /\ <<k, "review">> \in turnedAway' => k \in reviewClaimed'
        /\ \A u \in callReviews'[k] :
             /\ ReviewRecordValid(EnrollmentOf[k], u)
             /\ k \in reviewClaimed' /\ <<k, "review">> \notin turnedAway'
             /\ \A w \in callReviews'[k] : w = u
    BY <1>1, <2>2
  <2>4. \A x \in Capabilities :
          /\ <<x, "review">> \in turnedAway' => x \in reviewClaimed'
          /\ \A u \in callReviews'[x] :
               /\ ReviewRecordValid(EnrollmentOf[x], u)
               /\ x \in reviewClaimed' /\ <<x, "review">> \notin turnedAway'
               /\ \A w \in callReviews'[x] : w = u
    BY <2>1, <2>3
  <2> QED
    BY <2>4 DEF ReviewInv
<1>8. ConsumptionInv'
  BY <1>1, <1>3, <1>5, <1>6 DEF ConsumptionInv
<1>9. \A x \in Capabilities : \A at :
         InWindow(x, at) /\ Dispatching(x) => InWindow(x, at)' /\ Dispatching(x)'
  BY <1>1, <1>3, <1>5, <1>6 DEF InWindow, Dispatching
<1>10. PresentedInv' /\ ReceiptsInv'
  BY <1>1, <1>6, <1>9, CapabilitiesNamed DEF PresentedInv, ReceiptsInv
<1> QED
  BY <1>4, <1>7, <1>8, <1>10

(* consumeExactCallReview(): consumed inside its window, or refused.       *)
LEMMA ReviewConsumed ==
  ASSUME EnrolledIInv, EnrolledAssumption,
         NEW k \in Capabilities, NEW record \in Documents, NEW now \in Instants,
         ConsumeExactCallReview(k, record, now)
  PROVE  EnrolledIInv'
<1> USE DEF EnrolledIInv
<1>1. PICK v \in callReviews[k] :
        /\ k \notin reviewUsed /\ reviewUsed' = reviewUsed \union {k}
        /\ \/ /\ now >= v.reviewedAt /\ now < v.until
              /\ consumedAt' = [consumedAt EXCEPT ![k] = {now}]
              /\ turnedAway' = turnedAway
           \/ /\ consumedAt' = consumedAt
              /\ turnedAway' = turnedAway \union {<<k, "consume">>}
        /\ UNCHANGED <<registered, reviewClaimed, callReviews, dispatchClaimed,
                       presented, receipts>>
  BY DEF ConsumeExactCallReview, InReviewWindow
<1>2. consumedAt[k] = {} /\ k \in reviewClaimed /\ <<k, "consume">> \notin turnedAway
  BY <1>1 DEF ConsumptionInv, ReviewInv
<1>3. v.reviewedAt \in Nat /\ now \in Nat
  <2>1. v \in CallReview
    BY DEF EnrolledTypes, EnrolledTables, CallReview
  <2> QED
    BY <2>1 DEF CallReview, EnrolledAssumption
<1>4. EnrolledTypes'
  <2>1. consumedAt' \in [Capabilities -> SUBSET Instants]
    <3>1. consumedAt \in [Capabilities -> SUBSET Instants]
      BY DEF EnrolledTypes, EnrolledTables
    <3> QED
      BY <1>1, <3>1
  <2>2. /\ reviewUsed' \subseteq reviewClaimed /\ dispatchClaimed \subseteq reviewUsed'
    BY <1>1, <1>2 DEF EnrolledTypes, EnrolledTables
  <2> QED
    BY <1>1, <2>1, <2>2 DEF EnrolledTypes, EnrolledTables
<1>5. \A x \in Capabilities : x # k =>
         /\ consumedAt'[x] = consumedAt[x]
         /\ <<x, "consume">> \in turnedAway' <=> <<x, "consume">> \in turnedAway
  BY <1>1 DEF EnrolledTypes, EnrolledTables
<1>6. \A x \in Capabilities :
         /\ <<x, "review">> \in turnedAway' <=> <<x, "review">> \in turnedAway
         /\ <<x, "dispatch">> \in turnedAway' <=> <<x, "dispatch">> \in turnedAway
  BY <1>1
<1>7. ReviewInv'
  BY <1>1, <1>6 DEF ReviewInv
<1>8. ConsumptionInv'
  <2>1. ASSUME NEW x \in Capabilities, x # k
        PROVE  /\ <<x, "consume">> \in turnedAway' => x \in reviewUsed'
               /\ \A since \in consumedAt'[x] :
                    /\ x \in reviewUsed' /\ <<x, "consume">> \notin turnedAway'
                    /\ callReviews'[x] # {}
                    /\ \A u \in callReviews'[x] : u.reviewedAt <= since
    BY <1>1, <1>5, <2>1 DEF ConsumptionInv
  <2>2. \A u \in callReviews[k] : u = v
    BY DEF ReviewInv
  <2>3. \/ /\ consumedAt'[k] = {now} /\ v.reviewedAt <= now
           /\ <<k, "consume">> \notin turnedAway'
        \/ consumedAt'[k] = {}
    BY <1>1, <1>2, <1>3 DEF EnrolledTypes, EnrolledTables
  <2>4. /\ <<k, "consume">> \in turnedAway' => k \in reviewUsed'
        /\ \A since \in consumedAt'[k] :
             /\ k \in reviewUsed' /\ <<k, "consume">> \notin turnedAway'
             /\ callReviews'[k] # {}
             /\ \A u \in callReviews'[k] : u.reviewedAt <= since
    BY <1>1, <2>2, <2>3
  <2> QED
    BY <2>1, <2>4 DEF ConsumptionInv
<1>9. \A x \in Capabilities : \A at :
         InWindow(x, at) /\ Dispatching(x) => InWindow(x, at)' /\ Dispatching(x)'
  BY <1>1, <1>2, <1>5, <1>6 DEF InWindow, Dispatching
<1>10. PresentedInv' /\ ReceiptsInv'
  BY <1>1, <1>6, <1>9, CapabilitiesNamed DEF PresentedInv, ReceiptsInv
<1> QED
  BY <1>4, <1>7, <1>8, <1>10

(* revalidateDispatch() claims first: nobody waits for the capability, and *)
(* no receipt names it.                                                    *)
LEMMA DispatchPresented ==
  ASSUME EnrolledIInv, EnrolledAssumption,
         NEW c \in Presentations, NEW k \in Capabilities,
         NEW mounts \in Documents, NEW call \in Documents, NEW now \in Instants,
         PresentDispatch(c, k, mounts, call, now)
  PROVE  EnrolledIInv'
<1> USE DEF EnrolledIInv
<1> DEFINE p == [capability |-> k, call |-> call, at |-> now, waits |-> "tree"]
<1>1. PICK v \in callReviews[k] :
        /\ presented[c] = {} /\ consumedAt[k] # {} /\ k \notin dispatchClaimed
        /\ dispatchClaimed' = dispatchClaimed \union {k}
        /\ \/ /\ DispatchWindow(k, v, now)
              /\ presented' = [presented EXCEPT ![c] = {p}]
              /\ turnedAway' = turnedAway
           \/ /\ presented' = presented
              /\ turnedAway' = turnedAway \union {<<k, "dispatch">>}
        /\ UNCHANGED <<registered, reviewClaimed, callReviews, reviewUsed,
                       consumedAt, receipts>>
  BY DEF PresentDispatch, ClaimDispatch
<1>2. /\ k \in reviewUsed /\ <<k, "dispatch">> \notin turnedAway
      /\ \A d \in Presentations : \A q \in presented[d] : q.capability # k
      /\ \A i \in DOMAIN receipts : receipts[i].capability # k
  <2>1. k \in reviewUsed /\ <<k, "dispatch">> \notin turnedAway
    <3>1. PICK since \in consumedAt[k] : TRUE
      BY <1>1
    <3>2. k \in reviewUsed
      BY <3>1 DEF ConsumptionInv
    <3>3. <<k, "dispatch">> \notin turnedAway
      BY <1>1 DEF PresentedInv
    <3> QED
      BY <3>2, <3>3
  <2>2. \A d \in Presentations : \A q \in presented[d] : q.capability # k
    <3>1. \A d \in Presentations : \A q \in presented[d] :
            q.capability \in dispatchClaimed
      BY DEF PresentedInv, Dispatching
    <3> QED
      BY <1>1, <3>1
  <2>3. \A i \in DOMAIN receipts : receipts[i].capability # k
    <3>1. \A i \in DOMAIN receipts : receipts[i].capability \in dispatchClaimed
      BY DEF ReceiptsInv, Dispatching
    <3> QED
      BY <1>1, <3>1
  <2> QED
    BY <2>1, <2>2, <2>3
<1>3. EnrolledTypes'
  <2>1. presented' \in [Presentations -> SUBSET Waiting]
    <3>1. p \in Waiting
      BY DEF Waiting
    <3> QED
      BY <1>1, <3>1 DEF EnrolledTypes
  <2>2. dispatchClaimed' \subseteq reviewUsed
    BY <1>1, <1>2 DEF EnrolledTypes, EnrolledTables
  <2> QED
    BY <1>1, <2>1, <2>2 DEF EnrolledTypes, EnrolledTables
<1>4. /\ \A x \in Capabilities : \A link \in {"review", "consume"} :
            <<x, link>> \in turnedAway' <=> <<x, link>> \in turnedAway
      /\ \A x \in Capabilities : x # k =>
            (<<x, "dispatch">> \in turnedAway' <=> <<x, "dispatch">> \in turnedAway)
  BY <1>1
<1>5. ReviewInv' /\ ConsumptionInv'
  BY <1>1, <1>4 DEF ReviewInv, ConsumptionInv
<1>6. \A x \in Capabilities : \A at :
         InWindow(x, at) /\ Dispatching(x) /\ x # k
           => InWindow(x, at)' /\ Dispatching(x)'
  BY <1>1, <1>4 DEF InWindow, Dispatching
<1>7. ReceiptsInv'
  BY <1>1, <1>2, <1>6, CapabilitiesNamed DEF ReceiptsInv
<1>8. CASE turnedAway' = turnedAway \union {<<k, "dispatch">>} /\ presented' = presented
  <2>1. PresentedInv'
    BY <1>1, <1>2, <1>4, <1>6, <1>8, CapabilitiesNamed DEF PresentedInv
  <2> QED
    BY <1>3, <1>5, <1>7, <2>1
<1>9. CASE /\ DispatchWindow(k, v, now)
           /\ presented' = [presented EXCEPT ![c] = {p}]
           /\ turnedAway' = turnedAway
  <2>1. InWindow(k, now)' /\ Dispatching(k)'
    BY <1>1, <1>2, <1>9
       DEF InWindow, Dispatching, DispatchWindow, InReviewWindow,
           EnrolledTypes, EnrolledTables, EnrolledAssumption
  <2>2. \A d \in Presentations :
          presented'[d] = IF d = c THEN {p} ELSE presented[d]
    BY <1>9 DEF EnrolledTypes
  <2>3. \A x \in Capabilities :
          <<x, "dispatch">> \in turnedAway' => x \in dispatchClaimed'
    BY <1>1, <1>9 DEF PresentedInv
  <2>4. ASSUME NEW d \in Presentations, NEW q \in presented'[d]
        PROVE  /\ Dispatching(q.capability)' /\ InWindow(q.capability, q.at)'
               /\ \A i \in DOMAIN receipts' : receipts'[i].capability # q.capability
    <3>1. CASE d = c
      BY <1>1, <1>2, <2>1, <2>2, <3>1
    <3>2. CASE d # c
      BY <1>1, <1>2, <1>6, <2>2, <3>2, CapabilitiesNamed DEF PresentedInv
    <3> QED
      BY <3>1, <3>2
  <2>5. ASSUME NEW d \in Presentations, NEW q \in presented'[d],
               NEW x \in Presentations, NEW y \in presented'[x],
               q.capability = y.capability
        PROVE  d = x /\ q = y
    BY <1>2, <2>2, <2>5 DEF PresentedInv
  <2>6. PresentedInv'
    BY <2>3, <2>4, <2>5 DEF PresentedInv
  <2> QED
    BY <1>3, <1>5, <1>7, <2>6
<1> QED
  BY <1>1, <1>8, <1>9

(* A check after an await fails: who waited gives its capability up.       *)
LEMMA DispatchRefused ==
  ASSUME EnrolledIInv, NEW c \in Presentations, NEW p \in presented[c],
         Refuse(c, p.capability), UNCHANGED capabilityVars
  PROVE  EnrolledIInv'
<1> USE DEF EnrolledIInv
<1> DEFINE k == p.capability
<1>1. /\ presented' = [presented EXCEPT ![c] = {}]
      /\ turnedAway' = turnedAway \union {<<k, "dispatch">>}
      /\ UNCHANGED <<registered, reviewClaimed, callReviews, reviewUsed,
                     consumedAt, dispatchClaimed, receipts>>
  BY DEF Refuse, capabilityVars
<1>2. /\ k \in Capabilities /\ Dispatching(k)
      /\ \A i \in DOMAIN receipts : receipts[i].capability # k
      /\ \A d \in Presentations : \A q \in presented[d] :
           q.capability = k => d = c
  BY CapabilitiesNamed DEF PresentedInv
<1>3. \A d \in Presentations : presented'[d] = IF d = c THEN {} ELSE presented[d]
  BY <1>1 DEF EnrolledTypes
<1>4. EnrolledTypes'
  <2>1. presented' \in [Presentations -> SUBSET Waiting]
    BY <1>1 DEF EnrolledTypes
  <2> QED
    BY <1>1, <2>1 DEF EnrolledTypes, EnrolledTables
<1>5. /\ \A x \in Capabilities : \A link \in {"review", "consume"} :
            <<x, link>> \in turnedAway' <=> <<x, link>> \in turnedAway
      /\ \A x \in Capabilities : x # k =>
            (<<x, "dispatch">> \in turnedAway' <=> <<x, "dispatch">> \in turnedAway)
  BY <1>1
<1>6. ReviewInv' /\ ConsumptionInv'
  BY <1>1, <1>5 DEF ReviewInv, ConsumptionInv
<1>7. \A x \in Capabilities : \A at :
         InWindow(x, at) /\ Dispatching(x) /\ x # k
           => InWindow(x, at)' /\ Dispatching(x)'
  BY <1>1, <1>5 DEF InWindow, Dispatching
<1>8. ReceiptsInv'
  BY <1>1, <1>2, <1>7, CapabilitiesNamed DEF ReceiptsInv
<1>9. PresentedInv'
  <2>1. \A x \in Capabilities :
          <<x, "dispatch">> \in turnedAway' => x \in dispatchClaimed'
    BY <1>1, <1>2, <1>5 DEF PresentedInv, Dispatching
  <2>2. ASSUME NEW d \in Presentations, NEW q \in presented'[d]
        PROVE  /\ q \in presented[d] /\ d # c
               /\ Dispatching(q.capability)' /\ InWindow(q.capability, q.at)'
               /\ \A i \in DOMAIN receipts' : receipts'[i].capability # q.capability
    <3>1. q \in presented[d] /\ d # c
      BY <1>3
    <3>2. q.capability \in Capabilities /\ q.capability # k
      BY <1>2, <3>1, CapabilitiesNamed
    <3> QED
      BY <1>1, <1>7, <3>1, <3>2 DEF PresentedInv
  <2>3. ASSUME NEW d \in Presentations, NEW q \in presented'[d],
               NEW x \in Presentations, NEW y \in presented'[x],
               q.capability = y.capability
        PROVE  d = x /\ q = y
    BY <2>2, <2>3 DEF PresentedInv
  <2> QED
    BY <2>1, <2>2, <2>3 DEF PresentedInv
<1> QED
  BY <1>4, <1>6, <1>8, <1>9

(* verifyPreparedRuntimeTree() has settled, well or not.                   *)
LEMMA TreeVerified ==
  ASSUME EnrolledIInv, NEW c \in Presentations, TreeHashed(c)
  PROVE  EnrolledIInv'
<1> USE DEF EnrolledIInv
<1>1. PICK p \in presented[c] :
        \/ /\ presented' = [presented EXCEPT ![c] =
                              {[p EXCEPT !.waits = "resources"]}]
           /\ UNCHANGED <<receipts, turnedAway>>
        \/ Refuse(c, p.capability)
  BY DEF TreeHashed
<1>2. UNCHANGED capabilityVars
  BY DEF TreeHashed
<1>3. CASE Refuse(c, p.capability)
  BY <1>2, <1>3, DispatchRefused
<1>4. CASE /\ presented' = [presented EXCEPT ![c] =
                              {[p EXCEPT !.waits = "resources"]}]
           /\ UNCHANGED <<receipts, turnedAway>>
  <2> DEFINE r == [p EXCEPT !.waits = "resources"]
  <2>1. p \in Waiting
    BY CapabilitiesNamed
  <2>2. r \in Waiting /\ r.capability = p.capability /\ r.at = p.at
    BY <2>1 DEF Waiting
  <2>3. /\ UNCHANGED <<registered, reviewClaimed, callReviews, reviewUsed,
                       consumedAt, dispatchClaimed, receipts, turnedAway>>
        /\ \A d \in Presentations :
             presented'[d] = IF d = c THEN {r} ELSE presented[d]
    BY <1>2, <1>4 DEF capabilityVars, EnrolledTypes
  <2>4. EnrolledTypes'
    <3>1. presented' \in [Presentations -> SUBSET Waiting]
      BY <1>4, <2>2 DEF EnrolledTypes
    <3> QED
      BY <2>3, <3>1 DEF EnrolledTypes, EnrolledTables
  <2>5. ReviewInv' /\ ConsumptionInv'
    BY <2>3 DEF ReviewInv, ConsumptionInv
  <2>6. \A x \in Capabilities : \A at :
          InWindow(x, at) /\ Dispatching(x) => InWindow(x, at)' /\ Dispatching(x)'
    BY <2>3 DEF InWindow, Dispatching
  <2>7. ReceiptsInv'
    BY <2>3, <2>6, CapabilitiesNamed DEF ReceiptsInv
  <2>8. PresentedInv'
    <3>1. ASSUME NEW d \in Presentations, NEW q \in presented'[d]
          PROVE  \E o \in presented[d] :
                   /\ o.capability = q.capability /\ o.at = q.at
                   /\ d # c => o = q
                   /\ d = c => o = p /\ q = r
      BY <2>2, <2>3
    <3>2. ASSUME NEW d \in Presentations, NEW q \in presented'[d]
          PROVE  /\ Dispatching(q.capability)' /\ InWindow(q.capability, q.at)'
                 /\ \A i \in DOMAIN receipts' : receipts'[i].capability # q.capability
      BY <2>3, <2>6, <3>1, CapabilitiesNamed DEF PresentedInv
    <3>3. ASSUME NEW d \in Presentations, NEW q \in presented'[d],
                 NEW x \in Presentations, NEW y \in presented'[x],
                 q.capability = y.capability
          PROVE  d = x /\ q = y
      BY <3>1, <3>3 DEF PresentedInv
    <3>4. \A x \in Capabilities :
            <<x, "dispatch">> \in turnedAway' => x \in dispatchClaimed'
      BY <2>3 DEF PresentedInv
    <3> QED
      BY <3>2, <3>3, <3>4 DEF PresentedInv
  <2> QED
    BY <2>4, <2>5, <2>7, <2>8
<1> QED
  BY <1>1, <1>3, <1>4

(* resources.verify() has settled and the plan is compiled again: who      *)
(* waited becomes the only receipt of its capability, or is refused.       *)
LEMMA ResourcesVerified ==
  ASSUME EnrolledIInv, NEW c \in Presentations, ResourcesHashed(c)
  PROVE  EnrolledIInv'
<1> USE DEF EnrolledIInv
<1>1. PICK p \in presented[c] :
        \/ /\ p.call = EnrollmentOf[p.capability]
           /\ receipts' = Append(receipts,
                [capability |-> p.capability, call |-> p.call,
                 checkedAt |-> p.at])
           /\ presented' = [presented EXCEPT ![c] = {}]
           /\ UNCHANGED turnedAway
        \/ Refuse(c, p.capability)
  BY DEF ResourcesHashed, FreshCompilation
<1>2. UNCHANGED capabilityVars
  BY DEF ResourcesHashed
<1>3. CASE Refuse(c, p.capability)
  BY <1>2, <1>3, DispatchRefused
<1>4. CASE /\ p.call = EnrollmentOf[p.capability]
           /\ receipts' = Append(receipts,
                [capability |-> p.capability, call |-> p.call,
                 checkedAt |-> p.at])
           /\ presented' = [presented EXCEPT ![c] = {}]
           /\ UNCHANGED turnedAway
  <2> DEFINE r == [capability |-> p.capability, call |-> p.call,
                   checkedAt |-> p.at]
  <2>1. p \in Waiting /\ r \in Receipt
    BY CapabilitiesNamed DEF Waiting, Receipt
  <2>2. receipts \in Seq(Receipt)
    BY DEF EnrolledTypes, EnrolledTables, Receipt
  <2>3. /\ receipts' \in Seq(Receipt)
        /\ \A i \in DOMAIN receipts' :
             \/ i \in DOMAIN receipts /\ receipts'[i] = receipts[i]
             \/ i = Len(receipts) + 1 /\ i \notin DOMAIN receipts /\ receipts'[i] = r
    BY <1>4, <2>1, <2>2
  <2>4. /\ UNCHANGED <<registered, reviewClaimed, callReviews, reviewUsed,
                       consumedAt, dispatchClaimed, turnedAway>>
        /\ \A d \in Presentations :
             presented'[d] = IF d = c THEN {} ELSE presented[d]
    BY <1>2, <1>4 DEF capabilityVars, EnrolledTypes
  <2>5. EnrolledTypes'
    <3>1. presented' \in [Presentations -> SUBSET Waiting]
      BY <1>4 DEF EnrolledTypes
    <3> QED
      BY <2>3, <2>4, <3>1 DEF EnrolledTypes, EnrolledTables, Receipt
  <2>6. ReviewInv' /\ ConsumptionInv'
    BY <2>4 DEF ReviewInv, ConsumptionInv
  <2>7. \A x \in Capabilities : \A at :
          InWindow(x, at) /\ Dispatching(x) => InWindow(x, at)' /\ Dispatching(x)'
    BY <2>4 DEF InWindow, Dispatching
  <2>8. /\ p.capability \in Capabilities
        /\ InWindow(p.capability, p.at) /\ Dispatching(p.capability)
        /\ \A i \in DOMAIN receipts : receipts[i].capability # p.capability
        /\ \A d \in Presentations : \A q \in presented[d] :
             q.capability = p.capability => d = c
    BY CapabilitiesNamed DEF PresentedInv
  <2>9. ReceiptsInv'
    <3>1. ASSUME NEW i \in DOMAIN receipts'
          PROVE  /\ Dispatching(receipts[i].capability)'
                 /\ InWindow(receipts[i].capability, receipts[i].checkedAt)'
                 /\ receipts'[i].call = EnrollmentOf[receipts'[i].capability]
      <4>1. CASE i \in DOMAIN receipts /\ receipts'[i] = receipts[i]
        <5>1. /\ receipts[i].capability \in Capabilities
              /\ Dispatching(receipts[i].capability)
              /\ InWindow(receipts[i].capability, receipts[i].checkedAt)
              /\ receipts[i].call = EnrollmentOf[receipts[i].capability]
          BY <4>1, CapabilitiesNamed DEF ReceiptsInv
        <5>2. /\ Dispatching(receipts[i].capability)'
              /\ InWindow(receipts[i].capability, receipts[i].checkedAt)'
          BY <2>4, <4>1, <5>1 DEF InWindow, Dispatching
        <5> QED
          BY <4>1, <5>1, <5>2
      <4>2. CASE receipts'[i] = r
        <5>1. /\ receipts'[i].capability = p.capability
              /\ receipts'[i].call = p.call /\ receipts'[i].checkedAt = p.at
          BY <4>2
        <5>2. InWindow(receipts[i].capability, receipts[i].checkedAt)'
          BY <2>4, <2>8, <5>1 DEF InWindow
        <5>3. Dispatching(receipts[i].capability)'
          BY <2>4, <2>8, <5>1 DEF Dispatching
        <5> QED
          BY <1>4, <5>1, <5>2, <5>3
      <4> QED
        BY <2>3, <4>1, <4>2
    <3>2. ASSUME NEW i \in DOMAIN receipts', NEW j \in DOMAIN receipts', i # j
          PROVE  receipts'[i].capability # receipts'[j].capability
      BY <2>3, <2>8, <3>2 DEF ReceiptsInv
    <3> QED
      BY <3>1, <3>2 DEF ReceiptsInv
  <2>10. PresentedInv'
    <3>1. ASSUME NEW d \in Presentations, NEW q \in presented'[d]
          PROVE  q \in presented[d] /\ q.capability # p.capability
      BY <2>4, <2>8
    <3>2. ASSUME NEW d \in Presentations, NEW q \in presented'[d]
          PROVE  /\ Dispatching(q.capability)' /\ InWindow(q.capability, q.at)'
                 /\ \A i \in DOMAIN receipts' : receipts'[i].capability # q.capability
      <4>1. /\ q.capability \in Capabilities
            /\ Dispatching(q.capability) /\ InWindow(q.capability, q.at)
            /\ \A i \in DOMAIN receipts : receipts[i].capability # q.capability
        BY <3>1, CapabilitiesNamed DEF PresentedInv
      <4> QED
        BY <2>3, <2>7, <3>1, <4>1
    <3>3. ASSUME NEW d \in Presentations, NEW q \in presented'[d],
                 NEW x \in Presentations, NEW y \in presented'[x],
                 q.capability = y.capability
          PROVE  d = x /\ q = y
      BY <3>1, <3>3 DEF PresentedInv
    <3>4. \A x \in Capabilities :
            <<x, "dispatch">> \in turnedAway' => x \in dispatchClaimed'
      BY <2>4 DEF PresentedInv
    <3> QED
      BY <3>2, <3>3, <3>4 DEF PresentedInv
  <2> QED
    BY <2>5, <2>6, <2>9, <2>10
<1> QED
  BY <1>1, <1>3, <1>4

LEMMA EnrolledStep ==
  ASSUME EnrolledAssumption
  PROVE  EnrolledIInv /\ [EnrolledNext]_enrolledVars => EnrolledIInv'
<1> SUFFICES ASSUME EnrolledIInv, [EnrolledNext]_enrolledVars
             PROVE  EnrolledIInv'
  OBVIOUS
<1>1. ASSUME NEW k \in Capabilities, NEW d \in Documents, RegisterEnrollment(k, d)
      PROVE  EnrolledIInv'
  <2>1. registered \subseteq registered' /\ registered' \subseteq Capabilities
    BY <1>1 DEF RegisterEnrollment, EnrolledIInv, EnrolledTypes, EnrolledTables
  <2> QED
    BY <1>1, <2>1, LinksUntouched DEF RegisterEnrollment
<1>2. ASSUME NEW d \in Documents, HostEdits(d)
      PROVE  EnrolledIInv'
  <2>1. registered \subseteq registered' /\ registered' \subseteq Capabilities
    BY <1>2 DEF HostEdits, capabilityVars, EnrolledIInv, EnrolledTypes,
                EnrolledTables
  <2> QED
    BY <1>2, <2>1, LinksUntouched DEF HostEdits, capabilityVars
<1>3. CASE UNCHANGED enrolledVars
  <2>1. registered \subseteq registered' /\ registered' \subseteq Capabilities
    BY <1>3 DEF enrolledVars, capabilityVars, EnrolledIInv, EnrolledTypes,
                EnrolledTables
  <2> QED
    BY <1>3, <2>1, LinksUntouched DEF enrolledVars, capabilityVars
<1>4. ASSUME NEW c \in Presentations, TreeHashed(c) \/ ResourcesHashed(c)
      PROVE  EnrolledIInv'
  BY <1>4, TreeVerified, ResourcesVerified
<1>5. ASSUME NEW k \in Capabilities, NEW d \in Documents, NEW now \in Instants,
             \/ ConsumeExactCallReview(k, d, now)
             \/ \E h \in Documents, at \in Instants, rank \in ClassRanks :
                  ApproveExactCall(k, d, h, at, rank, now)
             \/ \E c \in Presentations, call \in Documents :
                  PresentDispatch(c, k, d, call, now)
      PROVE  EnrolledIInv'
  BY <1>5, ReviewConsumed, ExactCallApproved, DispatchPresented
<1> QED
  BY <1>1, <1>2, <1>3, <1>4, <1>5 DEF EnrolledNext

-----------------------------------------------------------------------------
(* However the calls and the hashes of overlapping dispatches interleave,  *)
(* and whatever the clock reads, the maps keep the invariant above.        *)
THEOREM EnrolledInvariant == EnrolledSpec => []EnrolledIInv
<1> USE EnrolledAssumption
<1>1. EnrolledInit => EnrolledIInv
  BY EnrolledInitially
<1>2. EnrolledIInv /\ [EnrolledNext]_enrolledVars => EnrolledIInv'
  BY EnrolledStep
<1> QED
  BY <1>1, <1>2, PTL DEF EnrolledSpec

(* The maps of the authority only hold what the code puts into them.       *)
THEOREM EnrolledTypesCorrect == EnrolledSpec => []EnrolledTables
<1>1. EnrolledIInv => EnrolledTables
  BY DEF EnrolledIInv, EnrolledTypes
<1> QED
  BY <1>1, EnrolledInvariant, PTL

(* One capability yields one receipt, and none once a link has failed.     *)
LEMMA UsedOnce ==
  ASSUME EnrolledIInv
  PROVE  CapabilityUsedOnce
<1> SUFFICES ASSUME NEW i \in DOMAIN receipts
             PROVE  /\ \A j \in DOMAIN receipts :
                         i # j => receipts[i].capability # receipts[j].capability
                    /\ \A link \in {"review", "consume", "dispatch"} :
                         <<receipts[i].capability, link>> \notin turnedAway
  BY DEF CapabilityUsedOnce
<1> DEFINE k == receipts[i].capability
<1>1. /\ k \in Capabilities /\ Dispatching(k) /\ InWindow(k, receipts[i].checkedAt)
      /\ \A j \in DOMAIN receipts :
           i # j => receipts[i].capability # receipts[j].capability
  BY CapabilitiesNamed DEF EnrolledIInv, ReceiptsInv
<1>2. PICK v \in callReviews[k], since \in consumedAt[k] : TRUE
  BY <1>1 DEF InWindow
<1>3. <<k, "review">> \notin turnedAway
  BY <1>1, <1>2 DEF EnrolledIInv, ReviewInv
<1>4. <<k, "consume">> \notin turnedAway
  BY <1>1, <1>2 DEF EnrolledIInv, ConsumptionInv
<1> QED
  BY <1>1, <1>3, <1>4 DEF Dispatching

(* A receipt stands for the reviewed call, inside every window.            *)
LEMMA AsReviewed ==
  ASSUME EnrolledIInv, EnrolledAssumption
  PROVE  ReceiptIsWhatWasReviewed
<1> SUFFICES ASSUME NEW i \in DOMAIN receipts
             PROVE  LET r == receipts[i]
                        k == r.capability
                        d == EnrollmentOf[k] IN
               /\ r.call = d
               /\ \E v \in callReviews[k], since \in consumedAt[k] :
                    /\ RecordedAt[d] <= v.hypothesisAt
                    /\ v.hypothesisAt <= v.reviewedAt
                    /\ v.reviewedAt <= since /\ since <= r.checkedAt
                    /\ r.checkedAt < v.until
                    /\ r.checkedAt < v.reviewedAt + ReviewLifetime
                    /\ \A t \in PolicyExpiry[d] : r.checkedAt < t
                    /\ v.rank >= CaseRank[d] /\ v.rank >= RecordRank[d]
  BY DEF ReceiptIsWhatWasReviewed
<1> DEFINE r == receipts[i]
           k == r.capability
           d == EnrollmentOf[k]
<1>1. /\ r \in Receipt /\ k \in Capabilities /\ InWindow(k, r.checkedAt)
      /\ r.call = d
  BY CapabilitiesNamed DEF EnrolledIInv, ReceiptsInv
<1>2. PICK v \in callReviews[k], since \in consumedAt[k] :
        /\ since <= r.checkedAt /\ r.checkedAt < v.until
        /\ \A t \in PolicyExpiry[d] : r.checkedAt < t
  BY <1>1 DEF InWindow
<1>3. ReviewRecordValid(d, v) /\ v.reviewedAt <= since
  BY <1>1 DEF EnrolledIInv, ReviewInv, ConsumptionInv
<1>4. /\ v.hypothesisAt \in Nat /\ v.reviewedAt \in Nat /\ v.until \in Nat
      /\ v.rank \in Nat
  <2>1. v \in CallReview
    BY <1>1 DEF EnrolledIInv, EnrolledTypes, EnrolledTables, CallReview
  <2> QED
    BY <2>1 DEF CallReview, EnrolledAssumption
<1>5. /\ r.checkedAt \in Nat /\ ReviewLifetime \in Nat /\ RecordedAt[d] \in Nat
      /\ CaseRank[d] \in Nat /\ RecordRank[d] \in Nat
  BY <1>1 DEF Receipt, EnrolledAssumption
<1>6. /\ RecordedAt[d] <= v.hypothesisAt /\ v.hypothesisAt <= v.reviewedAt
      /\ r.checkedAt < v.reviewedAt + ReviewLifetime
  BY <1>2, <1>3, <1>4, <1>5 DEF ReviewRecordValid
<1>7. v.rank >= CaseRank[d] /\ v.rank >= RecordRank[d]
  BY <1>3, <1>4, <1>5 DEF ReviewRecordValid, RequiredRank
<1> QED
  BY <1>1, <1>2, <1>3, <1>6, <1>7

(* Each capability dispatches once at most, exactly the call that was      *)
(* reviewed, inside every window and by a sufficient reviewer.             *)
THEOREM ReceiptsAreSound == EnrolledSpec => []EnrolledReceiptsSound
<1> USE EnrolledAssumption
<1>1. EnrolledIInv => EnrolledReceiptsSound
  BY UsedOnce, AsReviewed DEF EnrolledReceiptsSound
<1> QED
  BY <1>1, EnrolledInvariant, PTL

-----------------------------------------------------------------------------
(* The controlled run.                                                     *)
(* What happened before each stage of the controller.                      *)
BeforeCall == Preparing \union {"connect", "digest", "verify", "revalidate"}
CallWent == {"examine", "disposeChecked", "persistChecked", "record", "caught",
             "persistCaught", "writeCaught"}

(* The container is requested by the step that consumes the permit, and    *)
(* from then on both directories are there until it is verified gone.      *)
InputsInv ==
  /\ pc \in Preparing =>
       permit # "consumed" /\ creation = "none" /\ cleanup = "idle"
  /\ pc \notin Preparing \union {"finally", "done"} => permit = "consumed"
  /\ creation # "none" => permit = "consumed"
  /\ container = "ours" => creation # "none"
  /\ pc \in {"issue", "materialize", "consume"} => target = "present"
  /\ pc = "consume" => resources = "present"
  /\ permit = "consumed" /\ cleanup # "verified" =>
       target = "present" /\ resources = "present"

(* The directories are disposed of only after the container was verified   *)
(* gone, and "verified_absent" says that both are gone.                    *)
DisposalInv ==
  /\ pc \in CallWent \union {"dispose"} => cleanup = "verified"
  /\ pc = "persist" => cleanup \in {"verified", "failed"}
  /\ hostStatus = "verified_absent" =>
       cleanup = "verified" /\ target = "gone" /\ resources = "gone"

(* The monitor's check comes before the call, once.                        *)
MonitorInv ==
  /\ pc \in Preparing \union {"connect"} => checks = 0
  /\ pc \in {"digest", "verify", "revalidate"} => checks = 1
  /\ pc \in BeforeCall => ~monitorPassed /\ sentCalls = 0
  /\ pc \in {"call", "timedOut"} => monitorPassed /\ sentCalls = 0
  /\ monitorPassed => checks = 1 /\ checkedTree = {"pinned"}
  /\ sentCalls > 0 => monitorPassed

(* Only a complete, unchanged run gets as far as its attempt record.       *)
AttemptInv ==
  /\ pc \in CallWent \/ attemptFile =>
       /\ ~sessionFailed /\ checks = 1 /\ sentCalls = 1 /\ hasResult
       /\ permit = "consumed"
  /\ pc \in {"disposeChecked", "persistChecked", "record"} \/ attemptFile =>
       ~ranOnChanged
  /\ pc = "record" \/ attemptFile =>
       hostStatus = "verified_absent" /\ cleanupFile = {"verified_absent"}
  /\ ranOnChanged => tree = "changed" \/ files = "changed"

(* A run leaves one record, in its last step before the finally block.     *)
RecordInv ==
  /\ pc \notin {"finally", "done"} => failureFile = {} /\ ~attemptFile
  /\ attemptFile => failureFile = {}
  /\ \A f \in failureFile :
       /\ f.sent = sentCalls
       /\ f.stage \in PreSendStages => sentCalls = 0
       /\ f.stage = "transport_before_send" => monitorPassed
       /\ ~f.cleanupFailed => hostStatus = "verified_absent"

IInv ==
  /\ TypeOK /\ CleanupIInv /\ InputsInv /\ DisposalInv /\ MonitorInv
  /\ AttemptInv /\ RecordInv

-----------------------------------------------------------------------------
(* Every step of the run is a step of the cleanup's specification, or      *)
(* leaves its variables alone.                                             *)
LEMMA CleanupPart ==
  ASSUME [Next]_vars
  PROVE  [CleanupNext]_cleanupVars
BY DEF CleanupNext, vars, authorityVars, Next, Controller, Prepare, Session,
       TargetAnswers, FailedRun, CheckedRun, Environment, TreeChanges,
       FilesChange, WindowCloses, DaemonActs, NameChanges, PrepareTarget,
       IssuePermit,
       MaterializeResources, ConsumePermit, PreparationFails, HookCalled,
       DigestTree, VerifyResources, Revalidate, CallSent, CallTimesOut,
       CallUnsent, ResultArrives, SessionFails, CloseSession, CleanupRuns,
       PersistFirst, Persist, Dispose, PersistThrows, WriteFailure,
       ExaminePasses, PersistChecked, PostReturnThrows, RecordAttempt,
       CaughtBeforeDisposal, CaughtAfterDisposal, PersistCaughtThrows, Finally

(* The initial states satisfy the invariant.                               *)
LEMMA RunInitially == ASSUME Init PROVE IInv
<1>1. CleanupIInv
  BY CleanupInitially DEF Init
<1>2. TypeOK
  <2>1. CleanupTypeOK
    BY <1>1 DEF CleanupIInv
  <2>2. /\ windowOpen \in BOOLEAN /\ ranOnChanged \in BOOLEAN
        /\ monitorPassed \in BOOLEAN /\ sessionFailed \in BOOLEAN
        /\ hasResult \in BOOLEAN /\ attemptFile \in BOOLEAN
    BY DEF Init
  <2>3. /\ checkedTree \subseteq {"pinned", "changed"}
        /\ cleanupFile \subseteq {"pending", "verified_absent",
                                  "verification_failed"}
        /\ failureFile \subseteq
             [stage: Stages, sent: 0..1, cleanupFailed: BOOLEAN]
    BY DEF Init
  <2>4. /\ pc \in Preparing /\ hostStatus \in HostStatuses
        /\ checks \in 0..1 /\ sentCalls \in 0..1
    BY DEF Init, Preparing, HostStatuses
  <2>5. /\ permit \in {"none", "issued", "consumed"}
        /\ tree \in {"pinned", "changed"} /\ files \in {"intact", "changed"}
        /\ target \in {"none", "present", "gone"}
        /\ resources \in {"none", "present", "gone"}
        /\ outcome \in {"running", "returned", "threw"}
    BY DEF Init
  <2>6. QED
    BY <2>1, <2>2, <2>3, <2>4, <2>5 DEF TypeOK
<1>3. InputsInv
  BY DEF Init, InputsInv, CleanupInit, Preparing
<1>4. DisposalInv /\ MonitorInv
  BY DEF Init, DisposalInv, MonitorInv, CallWent
<1>5. AttemptInv /\ RecordInv
  BY DEF Init, AttemptInv, RecordInv, CallWent
<1>6. QED
  BY <1>1, <1>2, <1>3, <1>4, <1>5 DEF IInv

(* Host bytes change, time passes, the daemon answers: nothing breaks.      *)
LEMMA EnvironmentKeeps ==
  ASSUME IInv, CleanupIInv', Environment
  PROVE  IInv'
<1> USE DEF IInv, TypeOK, CleanupIInv, InputsInv, DisposalInv, MonitorInv,
            AttemptInv, RecordInv, Preparing, InSession, Finishing,
            HostStatuses, BeforeCall, CallWent, cleanupVars, daemonVars,
            loopVars, authorityVars, bytesVars, monitorVars, sessionVars,
            inputVars, fileVars
<1>1. CASE TreeChanges
  BY <1>1 DEF TreeChanges
<1>2. CASE FilesChange
  BY <1>2 DEF FilesChange
<1>3. CASE WindowCloses
  <2>1. windowOpen' \in BOOLEAN
    BY <1>3 DEF WindowCloses
  <2>2. QED
    BY <1>3, <2>1 DEF WindowCloses
<1>4. CASE DaemonActs
  BY <1>4 DEF DaemonActs, DaemonStep, DaemonCreates, DaemonRefuses
<1>5. CASE NameChanges
  BY <1>5 DEF NameChanges, NameStep, NameTaken, NameFreed
<1>6. QED
  BY <1>1, <1>2, <1>3, <1>4, <1>5 DEF Environment

(* The preparation requests the container last, over both directories.    *)
LEMMA PreparationKeeps ==
  ASSUME IInv, CleanupIInv', Prepare
  PROVE  IInv'
<1> USE DEF IInv, TypeOK, CleanupIInv, InputsInv, DisposalInv, MonitorInv,
            AttemptInv, RecordInv, Preparing, InSession, Finishing,
            HostStatuses, BeforeCall, CallWent, cleanupVars, daemonVars,
            loopVars, authorityVars, bytesVars, monitorVars, sessionVars,
            inputVars, fileVars
<1>1. CASE PrepareTarget
  BY <1>1 DEF PrepareTarget
<1>2. CASE IssuePermit
  BY <1>2 DEF IssuePermit
<1>3. CASE MaterializeResources
  BY <1>3 DEF MaterializeResources
<1>4. CASE ConsumePermit
  BY <1>4 DEF ConsumePermit, RequestContainer
<1>5. CASE PreparationFails
  BY <1>5 DEF PreparationFails
<1>6. QED
  BY <1>1, <1>2, <1>3, <1>4, <1>5 DEF Prepare

(* The session sends after its check, and ends in the cleanup.            *)
LEMMA SessionKeeps ==
  ASSUME IInv, CleanupIInv', Session \/ TargetAnswers
  PROVE  IInv'
<1> USE DEF IInv, TypeOK, CleanupIInv, InputsInv, DisposalInv, MonitorInv,
            AttemptInv, RecordInv, Preparing, InSession, Finishing,
            HostStatuses, BeforeCall, CallWent, cleanupVars, daemonVars,
            loopVars, authorityVars, bytesVars, monitorVars, sessionVars,
            inputVars, fileVars
<1>1. CASE HookCalled
  BY <1>1 DEF HookCalled
<1>2. CASE DigestTree
  BY <1>2 DEF DigestTree
<1>3. CASE VerifyResources
  BY <1>3 DEF VerifyResources
<1>4. CASE Revalidate
  BY <1>4 DEF Revalidate, MonitorAccepts
<1>5. CASE CallSent
  BY <1>5 DEF CallSent
<1>6. CASE CallTimesOut
  BY <1>6 DEF CallTimesOut
<1>7. CASE CallUnsent
  BY <1>7 DEF CallUnsent
<1>8. CASE ResultArrives
  BY <1>8 DEF ResultArrives
<1>9. CASE SessionFails
  BY <1>9 DEF SessionFails
<1>10. CASE CloseSession
  <2>1. sessionFailed' \in BOOLEAN
    BY <1>10 DEF CloseSession
  <2>2. QED
    BY <1>10, <2>1 DEF CloseSession, CleanupCalled
<1>11. CASE CleanupRuns
  BY <1>11 DEF CleanupRuns, CleanupStep, InspectAbsent, InspectPresent,
              InspectForeign, InspectFails, RemoveReturns, RemoveFails,
              Settle
<1>12. QED
  BY <1>1, <1>2, <1>3, <1>4, <1>5, <1>6, <1>7, <1>8, <1>9, <1>10, <1>11 DEF
     Session, TargetAnswers

(* A failure record that is true when it is written stays true.            *)
LEMMA FailureWritten ==
  ASSUME IInv, CleanupIInv',
         NEW from \in {"writeFailure", "caught", "writeCaught"},
         NEW stage \in Stages, NEW sent \in 0..1,
         WriteFailure(from, stage, sent),
         sent = sentCalls,
         stage \in PreSendStages => sentCalls = 0,
         stage = "transport_before_send" => monitorPassed
  PROVE  IInv'
<1> DEFINE record == [stage |-> stage, sent |-> sent,
                      cleanupFailed |-> CleanupFailed]
<1> USE DEF WriteFailure
<1>1. CleanupFailed \in BOOLEAN
  BY DEF CleanupFailed
<1>2. record \in [stage: Stages, sent: 0..1, cleanupFailed: BOOLEAN]
  BY <1>1
<1>3. failureFile = {} /\ ~attemptFile
  BY DEF IInv, RecordInv
<1>4. failureFile' = {} \/ failureFile' = {record}
  BY <1>3
<1>5. ~record.cleanupFailed => hostStatus = "verified_absent"
  BY DEF CleanupFailed
<1>6. /\ record.sent = sentCalls
      /\ record.stage \in PreSendStages => sentCalls = 0
      /\ record.stage = "transport_before_send" => monitorPassed
  OBVIOUS
<1> HIDE DEF record
<1>7. /\ pc' = "finally" /\ outcome' = "threw"
      /\ UNCHANGED <<cleanupVars, authorityVars, bytesVars, monitorVars,
                     sessionVars, inputVars, cleanupFile, attemptFile>>
  OBVIOUS
<1>8. TypeOK'
  <2>1. failureFile' \subseteq
          [stage: Stages, sent: 0..1, cleanupFailed: BOOLEAN]
    BY <1>2, <1>4
  <2> HIDE DEF WriteFailure
  <2>2. QED
    BY <1>7, <2>1
    DEF IInv, TypeOK, CleanupIInv, Finishing, Preparing, InSession,
        authorityVars, bytesVars, monitorVars, sessionVars, inputVars
<1> HIDE DEF WriteFailure
<1>9. RecordInv'
  BY <1>3, <1>4, <1>5, <1>6, <1>7
  DEF RecordInv, sessionVars, monitorVars, inputVars
<1>10. InputsInv' /\ DisposalInv' /\ MonitorInv' /\ AttemptInv'
  BY <1>3, <1>7
  DEF IInv, InputsInv, DisposalInv, MonitorInv, AttemptInv, Preparing,
      BeforeCall, CallWent, cleanupVars, daemonVars, loopVars, authorityVars,
      bytesVars, monitorVars, sessionVars, inputVars
<1>11. QED
  BY <1>8, <1>9, <1>10 DEF IInv

(* A failed run disposes of its inputs only after a verified cleanup.      *)
LEMMA FailedRunKeeps ==
  ASSUME IInv, CleanupIInv', FailedRun
  PROVE  IInv'
<1> USE DEF IInv, TypeOK, CleanupIInv, InputsInv, DisposalInv, MonitorInv,
            AttemptInv, RecordInv, Preparing, InSession, Finishing,
            HostStatuses, BeforeCall, CallWent, cleanupVars, daemonVars,
            loopVars, authorityVars, bytesVars, monitorVars, sessionVars,
            inputVars, fileVars
<1>1. CASE PersistFirst
  BY <1>1 DEF PersistFirst, Persist, CleanupStatus, RunFailed
<1>2. CASE Dispose("dispose", "persistAgain")
  BY <1>2 DEF Dispose, RemoveInputs
<1>3. CASE Persist("persistAgain", "writeFailure")
  BY <1>3 DEF Persist, CleanupStatus
<1>4. CASE PersistThrows
  BY <1>4 DEF PersistThrows
<1>5. CASE WriteFailure("writeFailure", FailureStage,
                       IF sentCalls = 0 THEN 0 ELSE 1)
  <2>1. (IF sentCalls = 0 THEN 0 ELSE 1) = sentCalls /\ sentCalls \in 0..1
    OBVIOUS
  <2>2. FailureStage \in Stages
    BY DEF FailureStage, Stages
  <2>3. /\ FailureStage \in PreSendStages => sentCalls = 0
        /\ FailureStage = "transport_before_send" => monitorPassed
    BY DEF FailureStage, PreSendStages
  <2>4. QED
    BY <1>5, <2>1, <2>2, <2>3, FailureWritten
<1>6. QED
  BY <1>1, <1>2, <1>3, <1>4, <1>5 DEF FailedRun

(* A run that went through is examined, disposed of and recorded.         *)
LEMMA CheckedRunKeeps ==
  ASSUME IInv, CleanupIInv', CheckedRun \/ Finally
  PROVE  IInv'
<1> USE DEF IInv, TypeOK, CleanupIInv, InputsInv, DisposalInv, MonitorInv,
            AttemptInv, RecordInv, Preparing, InSession, Finishing,
            HostStatuses, BeforeCall, CallWent, cleanupVars, daemonVars,
            loopVars, authorityVars, bytesVars, monitorVars, sessionVars,
            inputVars, fileVars
<1>1. CASE ExaminePasses
  BY <1>1 DEF ExaminePasses, Examined
<1>2. CASE Dispose("disposeChecked", "persistChecked")
  BY <1>2 DEF Dispose, RemoveInputs
<1>3. CASE PersistChecked
  BY <1>3 DEF PersistChecked, Persist, CleanupStatus
<1>4. CASE PostReturnThrows
  BY <1>4 DEF PostReturnThrows
<1>5. CASE RecordAttempt
  BY <1>5 DEF RecordAttempt
<1>6. CASE CaughtBeforeDisposal
  BY <1>6 DEF CaughtBeforeDisposal, Dispose, RemoveInputs
<1>7. CASE Persist("persistCaught", "writeCaught")
  BY <1>7 DEF Persist, CleanupStatus
<1>8. CASE PersistCaughtThrows
  BY <1>8 DEF PersistCaughtThrows
<1>9. CASE WriteFailure("writeCaught", "post_return_verification", 1)
  <2>1. sentCalls = 1
    BY <1>9 DEF WriteFailure
  <2>2. /\ "post_return_verification" \in Stages
        /\ "post_return_verification" \notin PreSendStages
    BY DEF Stages, PreSendStages
  <2>3. QED
    BY <1>9, <2>1, <2>2, FailureWritten
<1>10. CASE CaughtAfterDisposal
  <2>1. sentCalls = 1
    BY <1>10 DEF CaughtAfterDisposal, WriteFailure
  <2>2. /\ "post_return_verification" \in Stages
        /\ "post_return_verification" \notin PreSendStages
    BY DEF Stages, PreSendStages
  <2>3. QED
    BY <1>10, <2>1, <2>2, FailureWritten DEF CaughtAfterDisposal
<1>11. CASE Finally
  BY <1>11 DEF Finally, DisposalAllowed
<1>12. QED
  BY <1>1, <1>2, <1>3, <1>4, <1>5, <1>6, <1>7, <1>8, <1>9, <1>10, <1>11 DEF
     CheckedRun

-----------------------------------------------------------------------------
(* The invariant holds in every reachable state of a run.                  *)
THEOREM RunInvariant == Spec => []IInv
<1>1. ASSUME IInv, [Next]_vars PROVE IInv'
  <2>1. CleanupIInv'
    BY <1>1, CleanupPart, CleanupInductive DEF IInv
  <2>2. CASE UNCHANGED vars
    BY <1>1, <2>1, <2>2
    DEF vars, IInv, TypeOK, CleanupIInv, InputsInv, DisposalInv, MonitorInv,
        AttemptInv, RecordInv, cleanupVars, daemonVars, loopVars,
        authorityVars, bytesVars, monitorVars, sessionVars, inputVars, fileVars
  <2>3. CASE Next
    BY <1>1, <2>1, <2>3, EnvironmentKeeps, PreparationKeeps, SessionKeeps,
       FailedRunKeeps, CheckedRunKeeps
    DEF Next, Controller
  <2>4. QED
    BY <1>1, <2>2, <2>3
<1>2. QED
  BY RunInitially, <1>1, PTL DEF Spec

(* The controller's variables have their types.                            *)
THEOREM RunTypes == Spec => []TypeOK
<1>1. IInv => TypeOK
  BY DEF IInv
<1>2. QED
  BY RunInvariant, <1>1, PTL

(* No directory the container mounts is disposed of while the container    *)
(* exists or may still be created.                                         *)
THEOREM InputsAreHeld == Spec => []InputsOutliveContainer
<1>1. IInv => InputsOutliveContainer
  BY DEF IInv, CleanupIInv, AbsencesPaid, InputsInv, InputsOutliveContainer
<1>2. QED
  BY RunInvariant, <1>1, PTL

(* The one call is sent only after the monitor saw the pinned tree.        *)
THEOREM CallIsChecked == Spec => []SentOnlyChecked
<1>1. IInv => SentOnlyChecked
  BY DEF IInv, MonitorInv, SentOnlyChecked
<1>2. QED
  BY RunInvariant, <1>1, PTL

(* An attempt record is proof of a complete, unchanged, cleaned-up run.    *)
THEOREM AttemptProves == Spec => []AttemptIsConclusive
<1>1. IInv => AttemptIsConclusive
  BY DEF IInv, CleanupIInv, AbsencesPaid, DisposalInv, MonitorInv, AttemptInv,
         RecordInv, AttemptIsConclusive
<1>2. QED
  BY RunInvariant, <1>1, PTL

(* A failure record tells the truth about what was sent and what is left.  *)
THEOREM FailureTellsTruth == Spec => []FailureRecordTruthful
<1>1. IInv => FailureRecordTruthful
  BY DEF IInv, CleanupIInv, AbsencesPaid, DisposalInv, RecordInv,
         FailureRecordTruthful
<1>2. QED
  BY RunInvariant, <1>1, PTL

==============================================================================
